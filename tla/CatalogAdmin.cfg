SPECIFICATION Spec
CONSTANTS
    r1 = r1
    r2 = r2
    r3 = r3
    Requests = {r1, r2, r3}
    Categories = {1, 2, 3, 4, 5}
    Brands = {1, 2, 3, 4, 5}
    Products = {1, 2, 3, 4, 5, 6}
    Skus = {1, 2, 3, 4}
    Images = {1, 2, 3, 4}
    Slugs = {"s1", "s2", "s3", "s4"}
    MAX_CATEGORY_DEPTH = 2
    SUBTREE_LIMIT = 2
    None = None
    Gone = Gone
    InitialTables <- MCInitialTables
    Workloads <- MCWorkloads
SYMMETRY Symmetry
INVARIANTS
    PathsMatchParents
    BrandFitsCategory
    OnePrimaryImage
    CachedIsCurrent
    PagesMissNothing
CHECK_DEADLOCK FALSE
