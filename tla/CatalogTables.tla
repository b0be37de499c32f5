--------------------------- MODULE CatalogTables ---------------------------
(***************************************************************************)
(* The catalog's tables and the statements of its repositories             *)
(* (catalog/src/{categories,brands,products}/repository.rs and the         *)
(* migrations): categories with their ltree path, brands, which brands     *)
(* belong to which categories, products, SKUs and images.                  *)
(*                                                                         *)
(* Every mutation is one transaction.  The constraints are PostgreSQL's:   *)
(* unique paths and slugs (a soft-deleted product keeps its slug), foreign *)
(* keys that refuse a row without its parent and refuse to delete a parent *)
(* that still has rows, and the cascade to brand_categories.               *)
(*                                                                         *)
(* What nobody relies on is left out: category and brand slugs (one more   *)
(* unique column), descriptions, prices.  rev stands for all the columns   *)
(* of a row that are only ever shown, updated_at among them.  The labels   *)
(* of a path are numbers, which order paths as names do.                   *)
(***************************************************************************)
EXTENDS Integers, Sequences, FiniteSets, SequencesExt

CONSTANTS
    Categories, Brands, Products, Skus, Images,     \* ids: sets 1..n
    SUBTREE_LIMIT,      \* the LIMIT of get_subtree, 200
    None,               \* NULL, and a row that is not there yet
    Gone                \* a row that was deleted; its id never returns

VARIABLES
    category,           \* [parent_id, path, depth, rev]
    brand,              \* [rev]
    brand_categories,   \* pairs <<brand, category>>
    product,            \* [slug, category_id, brand_id, rev, deleted]
    sku,                \* [product_id, rev, deleted]
    image               \* [product_id, is_primary]

tables == <<category, brand, brand_categories, product, sku, image>>

Row(table, i)   == i # None /\ table[i] \notin {None, Gone}
Rows(table)     == {i \in DOMAIN table : Row(table, i)}
Fresh(table)    == {i \in DOMAIN table : table[i] = None /\ \A j \in DOMAIN table : j < i => table[j] # None}
Live(p)         == Row(product, p) /\ ~product[p].deleted
LiveSku(s)      == Row(sku, s) /\ ~sku[s].deleted

-----------------------------------------------------------------------------
(* Categories *)

\* ltree's order of paths: label by label, a path before its extensions
PathBefore(p, q) ==
    \/ IsStrictPrefix(p, q)
    \/ \E i \in DOMAIN p \cap DOMAIN q : p[i] < q[i] /\ \A j \in 1..(i - 1) : p[j] = q[j]

\* ORDER BY path LIMIT 200
get_subtree(path) ==
    LET under == {d \in Rows(category) : IsPrefix(path, category[d].path)}
    IN  {d \in under :
            Cardinality({e \in under : PathBefore(category[e].path, category[d].path)}) < SUBTREE_LIMIT}

\* The LIMIT of 50 is beyond any depth that create_category allows.
get_ancestors(path) == {a \in Rows(category) : IsPrefix(category[a].path, path)}

has_children(c) == \E d \in Rows(category) : category[d].parent_id = c

category_has_products(c) == \E p \in Products : Live(p) /\ product[p].category_id = c

\* Seeded defect: no foreign key on parent_id.
insert_category_WithoutParentKey(parent, path, depth) ==
    /\ \A d \in Rows(category) : category[d].path # path
    /\ \E c \in Fresh(category) :
        category' = [category EXCEPT ![c] =
            [parent_id |-> parent, path |-> path, depth |-> depth, rev |-> 0]]
    /\ UNCHANGED <<brand, brand_categories, product, sku, image>>

\* create_category: refused when the parent is gone or the path is taken
insert_category(parent, path, depth) ==
    /\ parent = None \/ Row(category, parent)
    /\ \A d \in Rows(category) : category[d].path # path
    /\ \E c \in Fresh(category) :
        category' = [category EXCEPT ![c] =
            [parent_id |-> parent, path |-> path, depth |-> depth, rev |-> 0]]
    /\ UNCHANGED <<brand, brand_categories, product, sku, image>>

\* update_category: a new name; the slug and the path stay
rename_category(c) ==
    /\ Row(category, c)
    /\ category' = [category EXCEPT ![c].rev = @ + 1]
    /\ UNCHANGED <<brand, brand_categories, product, sku, image>>

\* delete_category: refused by the foreign keys of its children and of its
\* products, soft-deleted ones included
remove_category(c) ==
    /\ Row(category, c)
    /\ ~has_children(c)
    /\ \A p \in Rows(product) : product[p].category_id # c
    /\ category' = [category EXCEPT ![c] = Gone]
    /\ brand_categories' = {bc \in brand_categories : bc[2] # c}
    /\ UNCHANGED <<brand, product, sku, image>>

-----------------------------------------------------------------------------
(* Brands *)

brand_has_products(b) == \E p \in Products : Live(p) /\ product[p].brand_id = b

insert_brand ==
    /\ \E b \in Fresh(brand) : brand' = [brand EXCEPT ![b] = [rev |-> 0]]
    /\ UNCHANGED <<category, brand_categories, product, sku, image>>

rename_brand(b) ==
    /\ Row(brand, b)
    /\ brand' = [brand EXCEPT ![b].rev = @ + 1]
    /\ UNCHANGED <<category, brand_categories, product, sku, image>>

remove_brand(b) ==
    /\ Row(brand, b)
    /\ \A p \in Rows(product) : product[p].brand_id # b
    /\ brand' = [brand EXCEPT ![b] = Gone]
    /\ brand_categories' = {bc \in brand_categories : bc[1] # b}
    /\ UNCHANGED <<category, product, sku, image>>

\* associate_category: ON CONFLICT DO NOTHING
insert_brand_category(b, c) ==
    /\ Row(brand, b) /\ Row(category, c)
    /\ brand_categories' = brand_categories \cup {<<b, c>>}
    /\ UNCHANGED <<category, brand, product, sku, image>>

\* disassociate_category
remove_brand_category(b, c) ==
    /\ <<b, c>> \in brand_categories
    /\ brand_categories' = brand_categories \ {<<b, c>>}
    /\ UNCHANGED <<category, brand, product, sku, image>>

-----------------------------------------------------------------------------
(* Products *)

category_exists(c)         == Row(category, c)
brand_exists(b)            == Row(brand, b)
is_brand_in_category(b, c) == <<b, c>> \in brand_categories

SlugFree(slug, p) == \A q \in Rows(product) : product[q].slug = slug => q = p

References(c, b) == (c = None \/ Row(category, c)) /\ (b = None \/ Row(brand, b))

\* create_product: status 'draft' by default
insert_product(slug, c, b) ==
    /\ References(c, b)
    /\ SlugFree(slug, None)
    /\ \E p \in Fresh(product) :
        product' = [product EXCEPT ![p] =
            [slug |-> slug, category_id |-> c, brand_id |-> b, rev |-> 0, deleted |-> FALSE]]
    /\ UNCHANGED <<category, brand, brand_categories, sku, image>>

\* update_product: every field is left alone where the request has none
change_product(p, slug, c, b) ==
    /\ Live(p)
    /\ References(c, b)
    /\ slug # None => SlugFree(slug, p)
    /\ product' = [product EXCEPT
            ![p].slug        = IF slug = None THEN @ ELSE slug,
            ![p].category_id = IF c = None THEN @ ELSE c,
            ![p].brand_id    = IF b = None THEN @ ELSE b,
            ![p].rev         = @ + 1]
    /\ UNCHANGED <<category, brand, brand_categories, sku, image>>

soft_delete_product(p) ==
    /\ Live(p)
    /\ product' = [product EXCEPT ![p].deleted = TRUE]
    /\ UNCHANGED <<category, brand, brand_categories, sku, image>>

\* What a product looks like (PRODUCT_SELECT, ProductRes::new): the row with
\* the names of its category and of its brand.
ProductView(p) ==
    [id |-> p, row |-> product[p],
     category |-> IF product[p].category_id = None THEN None ELSE category[product[p].category_id].rev,
     brand    |-> IF product[p].brand_id = None THEN None ELSE brand[product[p].brand_id].rev]

get_product_by_slug(slug) ==
    LET found == {p \in Products : Live(p) /\ product[p].slug = slug}
    IN  IF found = {} THEN None ELSE ProductView(CHOOSE p \in found : TRUE)

\* get_product_detail: with the SKUs and the images that belong to it
get_product_detail(p) ==
    IF ~Live(p) THEN None
    ELSE [product |-> ProductView(p),
          skus    |-> {<<s, sku[s].rev>> : s \in {s \in Skus : LiveSku(s) /\ sku[s].product_id = p}},
          images  |-> {<<i, image[i].is_primary>> : i \in {i \in Rows(image) : image[i].product_id = p}}]

\* list_products_by_seller with a filter on the category
apply_product_filters(filter) ==
    {p \in Products : Live(p) /\ (filter = None \/ product[p].category_id = filter)}

-----------------------------------------------------------------------------
(* SKUs and images *)

insert_sku(p) ==
    /\ Row(product, p)
    /\ \E s \in Fresh(sku) : sku' = [sku EXCEPT ![s] = [product_id |-> p, rev |-> 0, deleted |-> FALSE]]
    /\ UNCHANGED <<category, brand, brand_categories, product, image>>

\* update_sku, adjust_stock where the stock allows it, and the UPDATEs of
\* inventory/repository.rs, each of which sets updated_at
change_sku(s) ==
    /\ LiveSku(s)
    /\ sku' = [sku EXCEPT ![s].rev = @ + 1]
    /\ UNCHANGED <<category, brand, brand_categories, product, image>>

soft_delete_sku(s) ==
    /\ LiveSku(s)
    /\ sku' = [sku EXCEPT ![s].deleted = TRUE]
    /\ UNCHANGED <<category, brand, brand_categories, product, image>>

\* The images that the first statement of add_product_image finds primary.
primary_images(p) == {i \in Rows(image) : image[i].product_id = p /\ image[i].is_primary}

\* add_product_image commits: the images its UPDATE found are not primary any
\* more, the new one may be.
add_product_image(p, is_primary, unset) ==
    /\ Row(product, p)
    /\ \E i \in Fresh(image) :
        image' = [j \in Images |->
            IF j = i THEN [product_id |-> p, is_primary |-> is_primary]
            ELSE IF j \in unset /\ Row(image, j) THEN [image[j] EXCEPT !.is_primary = FALSE]
            ELSE image[j]]
    /\ UNCHANGED <<category, brand, brand_categories, product, sku>>

delete_product_image(i) ==
    /\ Row(image, i)
    /\ image' = [image EXCEPT ![i] = Gone]
    /\ UNCHANGED <<category, brand, brand_categories, product, sku>>

=============================================================================
