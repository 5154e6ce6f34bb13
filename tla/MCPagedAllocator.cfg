\* need_sort off: freed pages are prepended to free_pages;
\* need_sort on: they wait in release_pages for a merge
CONSTANTS
    Row = {r1, r2, r3}
    NumPages = 3
    PageSize = 2
    NeedSorts = {FALSE, TRUE}
    MaxRow = 5
    MaxBatch = 2
SYMMETRY Symmetry
SPECIFICATION Spec
INVARIANTS TypeOK PagesOnce RowsAligned RefusedOnlyWhenFull
PROPERTY ImplementsPool
