---------------------------- MODULE CatalogAdmin ----------------------------
(***************************************************************************)
(* The services of the catalog over its tables: categories, brands and     *)
(* their associations, products with their SKUs and images, the two caches *)
(* of products (by id, with everything that belongs to it, and by slug)    *)
(* and the lists that clients page through.  The reservations of SKUs are  *)
(* module CatalogInventory's.                                              *)
(*                                                                         *)
(* A request carries out one operation.  It reads on the pool, statement   *)
(* by statement, then writes in one transaction, then deletes cache        *)
(* entries, and other requests run between any two of these steps.  The    *)
(* transaction may be refused (a constraint, a lost connection); then the  *)
(* request ends and has changed nothing.  Requests that validation or      *)
(* require_access turns away end before the first step.                    *)
(***************************************************************************)
EXTENDS CatalogTables

CONSTANTS
    Requests,
    Workloads,          \* Workloads[w]: operations that clients ask for
    Slugs,
    MAX_CATEGORY_DEPTH,
    InitialTables       \* what the tables hold at first

VARIABLES
    cache, suspect,     \* see RedisCache
    workload,           \* what the clients of this behaviour do
    op, pc, seen,       \* of each request: the operation, the next step, what it has read
    \* history
    disassociated,      \* <<brand, category>> pairs that were removed
    crossed,            \* products whose updates each filled a column the other had read as NULL
    overlapped,         \* products to which primary images were added at the same time
    steady              \* steady[r]: rows that were on the list r pages through all along

product_detail_key(p)  == <<"product", p>>
product_slug_key(slug) == <<"slug", slug>>

CacheKeys == {product_detail_key(p) : p \in Products} \cup {product_slug_key(s) : s \in Slugs}

INSTANCE RedisCache WITH Keys <- CacheKeys, Nil <- None
INSTANCE Pagination WITH NoCursor <- None

caches   == <<cache, suspect>>
requests == <<op, pc, seen>>
history  == <<disassociated, crossed, overlapped>>
vars     == <<tables, caches, workload, requests, history, steady>>

Init ==
    /\ category = InitialTables.category /\ brand = InitialTables.brand
    /\ brand_categories = InitialTables.brand_categories
    /\ product = InitialTables.product
    /\ sku = InitialTables.sku /\ image = InitialTables.image
    /\ CacheInit
    /\ workload \in DOMAIN Workloads
    /\ op = [r \in Requests |-> None]
    /\ pc = [r \in Requests |-> "idle"]
    /\ seen = [r \in Requests |-> None]
    /\ disassociated = {} /\ crossed = {} /\ overlapped = {}
    /\ steady = [r \in Requests |-> {}]

-----------------------------------------------------------------------------
(* How a request proceeds *)

\* Rows that stay on the list from the first page to the last
Steady(r) ==
    CASE pc'[r] \notin {"forward", "backward"} -> steady[r]
      [] pc[r] = "idle" -> apply_product_filters(op[r].filter)'
      [] OTHER -> steady[r] \cap apply_product_filters(op[r].filter)'

\* The last conjunct of every step of a request
Goto(r, o, step, read) ==
    /\ op' = [op EXCEPT ![r] = o]
    /\ pc' = [pc EXCEPT ![r] = step]
    /\ seen' = [seen EXCEPT ![r] = read]
    /\ steady' = [q \in Requests |-> Steady(q)]
    /\ UNCHANGED workload

Finish(r)         == Goto(r, None, "done", None)
Proceed(r, step)  == Goto(r, op[r], step, seen[r])
At(r, name, step) == pc[r] = step /\ op[r].op = name
OneOf(r, names, step) == pc[r] = step /\ op[r].op \in names

\* A first step that only reads: the operation goes on to the step if ok.
Begin(r, name, ok(_), step, read(_)) ==
    /\ pc[r] = "idle"
    /\ UNCHANGED <<tables, caches, history>>
    /\ \E o \in Workloads[workload] :
        /\ o.op = name
        /\ IF ok(o) THEN Goto(r, o, step, read(o)) ELSE Finish(r)

\* A later step that only reads.
Check(r, name, step, ok, next) ==
    /\ At(r, name, step)
    /\ UNCHANGED <<tables, caches, history>>
    /\ IF ok THEN Proceed(r, next) ELSE Finish(r)

\* with_transaction rolls back.
rollback(r) ==
    /\ pc[r] = "commit"
    /\ UNCHANGED <<tables, caches, history>>
    /\ Finish(r)

-----------------------------------------------------------------------------
(* Categories *)

create_category(r) ==
    \/ /\ pc[r] = "idle"
       /\ UNCHANGED <<tables, caches, history>>
       /\ \E o \in Workloads[workload] :
            /\ o.op = "create_category"
            /\ \/ /\ o.parent = None
                  /\ Goto(r, o, "commit", [path |-> <<o.label>>, depth |-> 0])
               \/ /\ Row(category, o.parent)
                  /\ category[o.parent].depth + 1 <= MAX_CATEGORY_DEPTH
                  /\ Goto(r, o, "commit", [path  |-> Append(category[o.parent].path, o.label),
                                           depth |-> category[o.parent].depth + 1])
    \/ /\ At(r, "create_category", "commit")
       /\ insert_category(op[r].parent, seen[r].path, seen[r].depth)
       /\ UNCHANGED <<caches, history>>
       /\ Finish(r)

\* The keys under which a product is shown
KeysOf(ps) == {product_detail_key(p) : p \in ps} \cup {product_slug_key(product[p].slug) : p \in ps}

\* No cache is told of the new name.
update_category(r) ==
    \/ Begin(r, "update_category", LAMBDA o : Row(category, o.id), "commit", LAMBDA o : None)
    \/ /\ At(r, "update_category", "commit")
       /\ rename_category(op[r].id)
       /\ Suspect(KeysOf({p \in Products : Live(p) /\ product[p].category_id = op[r].id}))
       /\ UNCHANGED <<cache, history>>
       /\ Finish(r)

delete_category(r) ==
    \/ Begin(r, "delete_category", LAMBDA o : Row(category, o.id), "children", LAMBDA o : None)
    \/ Check(r, "delete_category", "children", ~has_children(op[r].id), "products")
    \/ Check(r, "delete_category", "products", ~category_has_products(op[r].id), "commit")
    \/ /\ At(r, "delete_category", "commit")
       /\ remove_category(op[r].id)
       /\ disassociated' = disassociated \cup (brand_categories \ brand_categories')
       /\ UNCHANGED <<caches, crossed, overlapped>>
       /\ Finish(r)

-----------------------------------------------------------------------------
(* Brands *)

create_brand(r) ==
    \/ Begin(r, "create_brand", LAMBDA o : TRUE, "commit", LAMBDA o : None)
    \/ /\ At(r, "create_brand", "commit")
       /\ insert_brand
       /\ UNCHANGED <<caches, history>>
       /\ Finish(r)

update_brand(r) ==
    \/ Begin(r, "update_brand", LAMBDA o : Row(brand, o.id), "commit", LAMBDA o : None)
    \/ /\ At(r, "update_brand", "commit")
       /\ rename_brand(op[r].id)
       /\ Suspect(KeysOf({p \in Products : Live(p) /\ product[p].brand_id = op[r].id}))
       /\ UNCHANGED <<cache, history>>
       /\ Finish(r)

delete_brand(r) ==
    \/ Begin(r, "delete_brand", LAMBDA o : Row(brand, o.id), "products", LAMBDA o : None)
    \/ Check(r, "delete_brand", "products", ~brand_has_products(op[r].id), "commit")
    \/ /\ At(r, "delete_brand", "commit")
       /\ remove_brand(op[r].id)
       /\ disassociated' = disassociated \cup (brand_categories \ brand_categories')
       /\ UNCHANGED <<caches, crossed, overlapped>>
       /\ Finish(r)

associate_category(r) ==
    \/ Begin(r, "associate_category", LAMBDA o : Row(brand, o.brand), "category", LAMBDA o : None)
    \/ Check(r, "associate_category", "category", Row(category, op[r].category), "commit")
    \/ /\ At(r, "associate_category", "commit")
       /\ insert_brand_category(op[r].brand, op[r].category)
       /\ UNCHANGED <<caches, history>>
       /\ Finish(r)

\* Products of the brand in the category are not looked at.
disassociate_category(r) ==
    \/ Begin(r, "disassociate_category", LAMBDA o : TRUE, "commit", LAMBDA o : None)
    \/ /\ At(r, "disassociate_category", "commit")
       /\ remove_brand_category(op[r].brand, op[r].category)
       /\ disassociated' = disassociated \cup {<<op[r].brand, op[r].category>>}
       /\ UNCHANGED <<caches, crossed, overlapped>>
       /\ Finish(r)

-----------------------------------------------------------------------------
(* Products *)

\* validate_fk_references: three reads on the pool
validate_fk_references(r) ==
    /\ UNCHANGED <<tables, caches, history>>
    /\ \/ /\ pc[r] = "category_exists"
          /\ IF seen[r].category = None \/ category_exists(seen[r].category)
             THEN Proceed(r, "brand_exists") ELSE Finish(r)
       \/ /\ pc[r] = "brand_exists"
          /\ IF seen[r].brand = None \/ brand_exists(seen[r].brand)
             THEN Proceed(r, "is_brand_in_category") ELSE Finish(r)
       \/ /\ pc[r] = "is_brand_in_category"
          /\ IF \/ None \in {seen[r].category, seen[r].brand}
                \/ is_brand_in_category(seen[r].brand, seen[r].category)
             THEN Proceed(r, "commit") ELSE Finish(r)

create_product(r) ==
    \/ Begin(r, "create_product", LAMBDA o : TRUE, "category_exists",
             LAMBDA o : [category |-> o.category, brand |-> o.brand])
    \/ /\ At(r, "create_product", "commit")
       /\ insert_product(op[r].slug, seen[r].category, seen[r].brand)
       /\ UNCHANGED <<caches, history>>
       /\ Finish(r)

\* Seeded defect: what the request leaves out is not filled in from the row.
ValidUpdateProductReq_WithoutExisting(o, existing) ==
    [existing |-> existing, category |-> o.category, brand |-> o.brand]

\* ValidUpdateProductReq::new: the request's references, else the stored ones
ValidUpdateProductReq(o, existing) ==
    [existing |-> existing,
     category |-> IF o.category # None THEN o.category ELSE existing.category_id,
     brand    |-> IF o.brand # None THEN o.brand ELSE existing.brand_id]

\* A write of the product whose slug the request has read: if the slug has
\* changed since, the entry under the new one is not going to be deleted.
SlugSeen(p, slug) ==
    IF product[p].slug # slug THEN Suspect({product_slug_key(product[p].slug)})
    ELSE UNCHANGED suspect

\* The update has read a column as NULL that has been filled since.
Crosses(p, existing) ==
    \/ existing.category_id = None /\ product[p].category_id # None
    \/ existing.brand_id = None /\ product[p].brand_id # None

update_product(r) ==
    \/ Begin(r, "update_product", LAMBDA o : Live(o.id), "category_exists",
             LAMBDA o : ValidUpdateProductReq(o, product[o.id]))
    \/ /\ At(r, "update_product", "commit")
       /\ change_product(op[r].id, op[r].slug, seen[r].category, seen[r].brand)
       /\ crossed' = IF Crosses(op[r].id, seen[r].existing) THEN crossed \cup {op[r].id} ELSE crossed
       /\ SlugSeen(op[r].id, seen[r].existing.slug)
       /\ UNCHANGED <<cache, disassociated, overlapped>>
       /\ Proceed(r, "evict_detail")

delete_product(r) ==
    \/ Begin(r, "delete_product", LAMBDA o : Live(o.id), "commit",
             LAMBDA o : [existing |-> product[o.id]])
    \/ /\ At(r, "delete_product", "commit")
       /\ soft_delete_product(op[r].id)
       /\ SlugSeen(op[r].id, seen[r].existing.slug)
       /\ UNCHANGED <<cache, history>>
       /\ Proceed(r, "evict_detail")

\* Seeded defect: the entry under the slug is forgotten.
evict_product_caches_DetailOnly(r) ==
    /\ OneOf(r, {"update_product", "delete_product"}, "evict_detail")
    /\ evict(product_detail_key(op[r].id))
    /\ UNCHANGED <<tables, history>>
    /\ Finish(r)

\* evict_product_caches, with the slug that was read before the write
evict_product_caches(r) ==
    /\ UNCHANGED <<tables, history>>
    /\ \/ /\ OneOf(r, {"update_product", "delete_product"}, "evict_detail")
          /\ evict(product_detail_key(op[r].id))
          /\ Proceed(r, "evict_slug")
       \/ /\ pc[r] = "evict_slug"
          /\ evict(product_slug_key(seen[r].existing.slug))
          /\ Finish(r)

-----------------------------------------------------------------------------
(* SKUs and images: only the detail of the product shows them *)

\* The DEL that follows a write to what belongs to product seen[r].id
evict_detail(r) ==
    /\ pc[r] = "evict_detail" /\ op[r].op \notin {"update_product", "delete_product"}
    /\ evict(product_detail_key(seen[r].id))
    /\ UNCHANGED <<tables, history>>
    /\ Finish(r)

create_sku(r) ==
    \/ Begin(r, "create_sku", LAMBDA o : Live(o.id), "commit", LAMBDA o : [id |-> o.id])
    \/ /\ At(r, "create_sku", "commit")
       /\ insert_sku(op[r].id)
       /\ UNCHANGED <<caches, history>>
       /\ Proceed(r, "evict_detail")

\* A write to a SKU; the product is read after the SKU.
WriteSku(r, name, write(_)) ==
    \/ Begin(r, name, LAMBDA o : LiveSku(o.sku), "product", LAMBDA o : [id |-> sku[o.sku].product_id])
    \/ Check(r, name, "product", Live(seen[r].id), "commit")
    \/ /\ At(r, name, "commit")
       /\ write(op[r].sku)
       /\ UNCHANGED <<caches, history>>
       /\ Proceed(r, "evict_detail")

update_sku(r)   == WriteSku(r, "update_sku", change_sku)
delete_sku(r)   == WriteSku(r, "delete_sku", soft_delete_sku)
adjust_stock(r) == WriteSku(r, "adjust_stock", change_sku)

\* reserve_inventory, release_reservation and confirm_reservation set updated_at
\* of the SKU, and the last lowers its stock.  The detail shows both, and no
\* cache entry is deleted.
move_inventory(r) ==
    /\ pc[r] = "idle"
    /\ \E o \in Workloads[workload] :
        /\ o.op \in {"reserve_inventory", "release_reservation", "confirm_reservation"}
        /\ change_sku(o.sku)
        /\ Suspect({product_detail_key(sku[o.sku].product_id)})
    /\ UNCHANGED <<cache, history>>
    /\ Finish(r)

\* Seeded defect: the other images stay primary.
unset_primary_Nothing(p) == {}

\* The UPDATE of add_product_image, whose snapshot does not have the images
\* of transactions that have not committed.
unset_primary(p) == primary_images(p)

AddingPrimary(r, p) == At(r, "add_image", "commit") /\ op[r].is_primary /\ op[r].id = p

add_image(r) ==
    \/ Begin(r, "add_image", LAMBDA o : Live(o.id), "unset_primary",
             LAMBDA o : [id |-> o.id, unset |-> {}])
    \/ /\ At(r, "add_image", "unset_primary")
       /\ overlapped' = IF op[r].is_primary /\ \E q \in Requests \ {r} : AddingPrimary(q, op[r].id)
                        THEN overlapped \cup {op[r].id} ELSE overlapped
       /\ UNCHANGED <<tables, caches, disassociated, crossed>>
       /\ Goto(r, op[r], "commit",
               [seen[r] EXCEPT !.unset = IF op[r].is_primary THEN unset_primary(op[r].id) ELSE {}])
    \/ /\ At(r, "add_image", "commit")
       /\ add_product_image(op[r].id, op[r].is_primary, seen[r].unset)
       /\ UNCHANGED <<caches, history>>
       /\ Proceed(r, "evict_detail")

\* The image is found by its id alone, the cache entry by the product in the
\* path of the request.
delete_image(r) ==
    \/ Begin(r, "delete_image", LAMBDA o : Live(o.id), "commit", LAMBDA o : [id |-> o.id])
    \/ /\ At(r, "delete_image", "commit")
       /\ delete_product_image(op[r].image)
       /\ Suspect({product_detail_key(image[op[r].image].product_id)} \ {product_detail_key(op[r].id)})
       /\ UNCHANGED <<cache, history>>
       /\ Proceed(r, "evict_detail")

-----------------------------------------------------------------------------
(* Reads *)

\* A cached read of key: GET, then the query on a miss, then SET.
CachedRead(r, name, key(_), query(_)) ==
    \/ /\ pc[r] = "idle"
       /\ UNCHANGED <<tables, caches, history>>
       /\ \E o \in Workloads[workload] :
            /\ o.op = name
            /\ \E v \in get(key(o)) :
                IF v # None THEN Finish(r) ELSE Goto(r, o, "query", None)
    \/ /\ At(r, name, "query")
       /\ UNCHANGED <<tables, caches, history>>
       /\ IF query(op[r]) = None THEN Finish(r) ELSE Goto(r, op[r], "fill", query(op[r]))
    \/ /\ At(r, name, "fill")
       /\ set(key(op[r]), seen[r], query(op[r]))
       /\ UNCHANGED <<tables, history>>
       /\ Finish(r)

read_product_detail(r) ==
    CachedRead(r, "get_product_detail",
               LAMBDA o : product_detail_key(o.id), LAMBDA o : get_product_detail(o.id))

read_product_by_slug(r) ==
    CachedRead(r, "get_product_by_slug",
               LAMBDA o : product_slug_key(o.slug), LAMBDA o : get_product_by_slug(o.slug))

\* A client pages through a list: forward to its end, then back from there.
FirstPage(o) == into_params([limit |-> o.limit, cursor |-> None, direction |-> None])

list_products(r) ==
    \/ Begin(r, "list_products", LAMBDA o : TRUE, "forward",
             LAMBDA o : [params |-> FirstPage(o), out |-> <<>>, last |-> None, back |-> <<>>])
    \/ /\ At(r, "list_products", "forward")
       /\ UNCHANGED <<tables, caches, history>>
       /\ LET page == Page(seen[r].params, apply_product_filters(op[r].filter))
              read == [seen[r] EXCEPT !.out = @ \o page.items]
          IN  \/ /\ page.next # None
                 /\ Goto(r, op[r], "forward", [read EXCEPT !.params.cursor = page.next])
              \/ /\ page.next = None
                 /\ Goto(r, op[r], IF page.prev = None THEN "read" ELSE "backward",
                         [read EXCEPT !.last = page.prev,
                            !.params = [@ EXCEPT !.cursor = page.prev, !.direction = "backward"]])
    \/ /\ At(r, "list_products", "backward")
       /\ UNCHANGED <<tables, caches, history>>
       /\ LET page == Page(seen[r].params, apply_product_filters(op[r].filter))
          IN  Goto(r, op[r], IF page.prev = None THEN "read" ELSE "backward",
                   [seen[r] EXCEPT !.back = page.items \o @, !.params.cursor = page.prev])

-----------------------------------------------------------------------------

Request(r) ==
    \/ create_category(r) \/ update_category(r) \/ delete_category(r)
    \/ create_brand(r) \/ update_brand(r) \/ delete_brand(r)
    \/ associate_category(r) \/ disassociate_category(r)
    \/ create_product(r) \/ update_product(r) \/ delete_product(r)
    \/ validate_fk_references(r) \/ evict_product_caches(r) \/ evict_detail(r)
    \/ create_sku(r) \/ update_sku(r) \/ delete_sku(r) \/ adjust_stock(r) \/ move_inventory(r)
    \/ add_image(r) \/ delete_image(r)
    \/ read_product_detail(r) \/ read_product_by_slug(r) \/ list_products(r)
    \/ rollback(r)

Expire(k) == expire(k) /\ UNCHANGED <<tables, requests, history, steady, workload>>

Next ==
    \/ \E r \in Requests : Request(r)
    \/ \E k \in CacheKeys : Expire(k)

Spec == Init /\ [][Next]_vars

-----------------------------------------------------------------------------
(* Properties *)

Descendant(d, c) ==
    \E n \in 0..MAX_CATEGORY_DEPTH :
        \E chain \in [0..n -> Rows(category)] :
            /\ chain[0] = d /\ chain[n] = c
            /\ \A i \in 1..n : category[chain[i - 1]].parent_id = chain[i]

\* The tree is stored twice, in parent_id and in path, and the two agree
\* whatever creations and deletions overlap: the categories that get_subtree
\* and get_ancestors find by path are those that parent_id leads to, none of
\* the ancestors is missing, and depth, checked against MAX_CATEGORY_DEPTH
\* when a child is created, counts them.  Of a subtree larger than the LIMIT
\* of get_subtree only that many are found, each with its parent.
PathsMatchParents ==
    \A c \in Rows(category) :
        /\ LET below == {d \in Rows(category) : Descendant(d, c)}
               found == get_subtree(category[c].path)
           IN  /\ found \subseteq below
               /\ Cardinality(below) <= SUBTREE_LIMIT => found = below
               /\ Cardinality(below) > SUBTREE_LIMIT => Cardinality(found) = SUBTREE_LIMIT
               /\ \A d \in found \ {c} : category[d].parent_id \in found
        /\ get_ancestors(category[c].path) = {a \in Rows(category) : Descendant(c, a)}
        /\ category[c].depth = Cardinality(get_ancestors(category[c].path)) - 1
        /\ category[c].depth <= MAX_CATEGORY_DEPTH

\* A product's brand belongs to its category, as validate_fk_references
\* demands, however updates of it overlap: an update writes back both columns
\* as it validated them.  Exceptions: the association was removed, which
\* nothing in the code holds against products; or two overlapping updates
\* each filled a column the other had read as NULL, which is never written
\* back.
BrandFitsCategory ==
    \A p \in Products :
        /\ Live(p) /\ None \notin {product[p].category_id, product[p].brand_id}
        => LET pair == <<product[p].brand_id, product[p].category_id>>
           IN  pair \in brand_categories \cup disassociated \/ p \in crossed

\* A product has one primary image at most, unless two of them were added at
\* the same time: the UPDATE that unsets the others does not see an image that
\* another transaction is about to insert.
OnePrimaryImage ==
    \A p \in Rows(product) \ overlapped : Cardinality(primary_images(p)) <= 1

\* The requests that are about to delete the entry of k
Evicting(r, k) ==
    \/ pc[r] \in {"evict_detail", "evict_slug"} /\ op[r].op \in {"update_product", "delete_product"}
        /\ \/ pc[r] = "evict_detail" /\ k = product_detail_key(op[r].id)
           \/ k = product_slug_key(seen[r].existing.slug)
    \/ pc[r] = "evict_detail" /\ op[r].op \notin {"update_product", "delete_product"}
        /\ k = product_detail_key(seen[r].id)

\* A cached product shows what the tables say, or the request that changed
\* them is about to delete the entry, or the entry is suspect: its DEL was
\* lost, it was filled with what had been read before a write, or one of the
\* writes happened that tell no cache (a category or brand renamed, stock
\* reserved, released or confirmed, a slug changed by an overlapping update, an
\* image deleted under another product's path).
CachedIsCurrent ==
    \A k \in CacheKeys \ suspect :
        \/ cache[k] = None
        \/ cache[k] = IF k[1] = "product" THEN get_product_detail(k[2]) ELSE get_product_by_slug(k[2])
        \/ \E r \in Requests : Evicting(r, k)

Increasing(s) == \A i, j \in DOMAIN s : i < j => s[i] < s[j]
Listed(s)     == {s[i] : i \in DOMAIN s}

\* Who follows next_cursor to the end sees every product that was on the list
\* all the time, once and in order, whatever is added, changed or deleted
\* meanwhile; who then follows prev_cursor back sees all of those before the
\* last page again.  A limit of 0 is the exception: the one row it fetches is
\* taken for the extra row, and the page has no rows and no next_cursor.
PagesMissNothing ==
    \A r \in Requests :
        (pc[r] = "read" /\ seen[r].params.limit > 0) =>
            /\ Increasing(seen[r].out) /\ steady[r] \subseteq Listed(seen[r].out)
            /\ seen[r].last # None =>
                /\ Increasing(seen[r].back)
                /\ {p \in steady[r] : p < seen[r].last} \subseteq Listed(seen[r].back)

=============================================================================
