--------------------------- MODULE MCCatalogAdmin ---------------------------
(***************************************************************************)
(* An instance of CatalogAdmin.  The catalog has a category 1, in it a     *)
(* category 1.2, two brands, and three products: one with everything, one  *)
(* with neither category nor brand, one more in 1.2.  Three workloads:     *)
(* who keeps the tree, the brands and the references; who reads, changes   *)
(* and decorates product 1; and who pages through the products.            *)
(***************************************************************************)
EXTENDS CatalogAdmin, TLC

CONSTANTS r1, r2, r3

MCInitialTables ==
    [category |-> [c \in Categories |->
        CASE c = 1 -> [parent_id |-> None, path |-> <<1>>, depth |-> 0, rev |-> 0]
          [] c = 2 -> [parent_id |-> 1, path |-> <<1, 2>>, depth |-> 1, rev |-> 0]
          [] OTHER -> None],
     brand |-> [b \in Brands |-> IF b <= 2 THEN [rev |-> 0] ELSE None],
     brand_categories |-> {<<1, 2>>, <<2, 1>>},
     product |-> [p \in Products |->
        CASE p = 1 -> [slug |-> "s1", category_id |-> 2, brand_id |-> 1, rev |-> 0, deleted |-> FALSE]
          [] p = 2 -> [slug |-> "s2", category_id |-> None, brand_id |-> None, rev |-> 0, deleted |-> FALSE]
          [] p = 3 -> [slug |-> "s3", category_id |-> 2, brand_id |-> None, rev |-> 0, deleted |-> FALSE]
          [] OTHER -> None],
     sku |-> [s \in Skus |-> IF s = 1 THEN [product_id |-> 1, rev |-> 0, deleted |-> FALSE] ELSE None],
     image |-> [i \in Images |-> IF i = 1 THEN [product_id |-> 1, is_primary |-> TRUE] ELSE None]]

Category(parent, label) == [op |-> "create_category", parent |-> parent, label |-> label]
New(slug, c, b)         == [op |-> "create_product", slug |-> slug, category |-> c, brand |-> b]
Update(p, slug, c, b)   == [op |-> "update_product", id |-> p, slug |-> slug, category |-> c, brand |-> b]
On(name, i)             == [op |-> name, id |-> i]
Pair(name, b, c)        == [op |-> name, brand |-> b, category |-> c]
OfSku(name, s)          == [op |-> name, sku |-> s]
Image(p, primary)       == [op |-> "add_image", id |-> p, is_primary |-> primary]
Pages(limit, filter)    == [op |-> "list_products", limit |-> limit, filter |-> filter]

TreeKeeping ==
    {Category(None, 5), Category(1, 2), Category(2, 3), Category(3, 4)}
    \cup {On("delete_category", c) : c \in 1..3}
    \cup {On("delete_brand", 1), [op |-> "create_brand"]}
    \cup {Pair("associate_category", 1, 1), Pair("associate_category", 2, 3),
          Pair("disassociate_category", 1, 2)}
    \cup {New("s4", 2, 1), New("s4", 3, None)}
    \cup {Update(1, None, 1, None), Update(1, None, None, 2), Update(1, None, 1, 2),
          Update(2, None, 2, None), Update(2, None, None, 2)}
    \cup {On("delete_product", 1), On("delete_product", 3)}

Decorating ==
    {Update(1, None, None, None), Update(1, "s4", None, None), On("delete_product", 1),
     On("create_sku", 1), OfSku("update_sku", 1), OfSku("delete_sku", 1),
     OfSku("adjust_stock", 1),
     OfSku("reserve_inventory", 1), OfSku("release_reservation", 1), OfSku("confirm_reservation", 1),
     Image(1, TRUE), Image(1, FALSE),
     [op |-> "delete_image", id |-> 1, image |-> 1], [op |-> "delete_image", id |-> 2, image |-> 1],
     On("update_category", 2), On("update_brand", 1), On("get_product_detail", 1),
     [op |-> "get_product_by_slug", slug |-> "s1"], [op |-> "get_product_by_slug", slug |-> "s4"]}

Paging ==
    {Pages(limit, filter) : limit \in 0..2, filter \in {None, 2}}
    \cup {New("s4", 2, 1), On("delete_product", 1), On("delete_product", 3), Update(2, None, 2, None),
          Update(3, None, 1, None)}

MCWorkloads == [tree |-> TreeKeeping, products |-> Decorating, pages |-> Paging]

Symmetry == Permutations(Requests)

=============================================================================
