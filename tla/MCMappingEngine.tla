--------------------------- MODULE MCMappingEngine ---------------------------
(***************************************************************************)
(* Requests for MappingEngine: create requests that leave out, add or      *)
(* misdeclare columns of each template type, and edited documents with     *)
(* longer op lists and derived columns.                                    *)
(***************************************************************************)
EXTENDS MappingEngine

D(dest) == [src |-> dest, dest |-> dest, fmt |-> "none", sep |-> "none", pct |-> FALSE]
Dated(dest, fmt) == [D(dest) EXCEPT !.fmt = fmt]
Number(dest, sep) == [D(dest) EXCEPT !.sep = sep]

SnapshotBase == <<D("sku_id"), D("product_name"), Number("current_retail_price", "declared")>>
SaleBase == <<D("sku_id"), D("event_subtype"), D("currency"), Dated("event_date", "known"),
    Dated("source_sale_timestamp", "known"), D("quantity"), D("unit_retail_price"),
    D("unit_sale_price")>>
ChangeBase == <<D("sku_id"), D("event_category"), D("event_subtype"),
    D("event_date"), Dated("source_event_timestamp", "known")>>

Create(type, columns) == [kind |-> "create", type |-> type, columns |-> columns]

\* Every column the base lacks: one more column of the request.
Extras == {D(Ignore), D("promo_identifier"), D("promo_price"), D("expiry_date"),
    Dated("expiry_date", "unknown"), D("tax_treatment"), D("store_id"),
    D("no_such_column"), D("transaction_id"), D("value_after"), Number("unit_cost", "clash"),
    [Number("discount_pct", "declared") EXCEPT !.pct = TRUE],
    [D("discount_pct") EXCEPT !.pct = TRUE], [D("barcode") EXCEPT !.src = "sku_id"],
    [D("sku_id") EXCEPT !.src = "second"]}

Base == [snapshot |-> SnapshotBase, sales |-> SaleBase, inventory_change |-> ChangeBase]
Without(seq, i) == SubSeq(seq, 1, i - 1) \o SubSeq(seq, i + 1, Len(seq))

Creates ==
    {Create("unknown", <<D("sku_id")>>), Create("snapshot", <<D(Ignore)>>),
     Create("snapshot", SnapshotBase \o <<D("promo_identifier"), D("promo_price")>>),
     Create("snapshot", SnapshotBase \o <<D("expiry_date"), D("expiry_source")>>)}
    \cup {Create(t, Base[t]) : t \in TemplateTypes}
    \cup {Create(t, Append(Base[t], x)) : <<t, x>> \in TemplateTypes \X Extras}
    \cup UNION {{Create(t, Without(Base[t], i)) : i \in DOMAIN Base[t]} : t \in TemplateTypes}

\* Edited documents.
Op(name) == [op |-> name, args |-> "declared"]
Copy(src, ops) == [gen |-> "copy", src |-> src, literal |-> "string", ops |-> ops]
Constant(v, type) == [gen |-> "constant", src |-> v, literal |-> type, ops |-> <<>>]
DateOf(src) == [gen |-> "date_from_datetime", src |-> src, literal |-> "date", ops |-> <<>>]
Same(cols) == [c \in cols |-> c]

SnapshotRules ==
    [rename |-> Same({"sku_id", "product_name", "current_retail_price", "stock_qty"}),
     normalize |-> [current_retail_price |->
                        <<Op("normalize_whitespace"), Op("null_tokens"), Op("parse_decimal")>>,
                    stock_qty |-> <<Op("null_tokens"), Op("parse_percent")>>],
     cast |-> [current_retail_price |-> "decimal", stock_qty |-> "decimal"],
     derive |-> [supplier_id |-> Copy("product_name", <<Op("null_tokens"), Op("map_enum")>>)]]
ChangeRules ==
    [rename |-> Same({"sku_id", "source_event_timestamp", "value_after"}),
     normalize |-> [source_event_timestamp |-> <<Op("parse_datetime")>>,
                    value_after |-> <<Op("normalize_case")>>],
     cast |-> [source_event_timestamp |-> "datetime"],
     derive |-> [event_date |-> DateOf("source_event_timestamp"),
                 event_category |-> Constant("PRICE", "string"),
                 attribute_name |-> Constant("current_retail_price", "string"),
                 event_subtype |-> Copy("sku_id", <<>>)]]

Edit(type, r) == [kind |-> "edit", type |-> type, rules |-> r]

Edits ==
    {Edit("snapshot", SnapshotRules), Edit("inventory_change", ChangeRules),
     Edit("sales", ChangeRules), Edit("snapshot", ChangeRules),
     Edit("snapshot", [SnapshotRules EXCEPT !.cast = <<>>]),
     Edit("snapshot", [SnapshotRules EXCEPT
         !.normalize = [barcode |-> <<Op("normalize_case")>>]]),
     Edit("snapshot", [SnapshotRules EXCEPT !.cast = [barcode |-> "string"]]),
     Edit("snapshot", [SnapshotRules EXCEPT !.derive = [sku_id |-> Copy("sku_id", <<>>)]]),
     Edit("snapshot", [SnapshotRules EXCEPT
         !.derive = [supplier_id |-> Copy("stock_qty", <<Op("map_enum")>>)]]),
     Edit("snapshot", [SnapshotRules EXCEPT
         !.normalize = [product_name |-> <<Op("null_tokens"), Op("map_enum")>>,
                        current_retail_price |-> <<Op("parse_decimal")>>],
         !.cast = [current_retail_price |-> "decimal"],
         !.derive = [supplier_id |-> Copy("product_name", <<Op("map_enum")>>)]]),
     Edit("snapshot", [SnapshotRules EXCEPT
         !.derive = [receipt_date |-> DateOf("stock_qty")]]),
     Edit("snapshot", [SnapshotRules EXCEPT
         !.derive = [reorder_point |-> Constant("0", "integer")]]),
     Edit("inventory_change", [ChangeRules EXCEPT
         !.derive["event_category"] = Constant("PRICE", "integer")]),
     Edit("inventory_change", [ChangeRules EXCEPT
         !.normalize["source_event_timestamp"][1].args = "unknown_zone"]),
     Edit("inventory_change", [ChangeRules EXCEPT
         !.derive["event_subtype"].ops = <<[Op("parse_datetime") EXCEPT !.args = "unknown_zone"]>>]),
     Edit("inventory_change", [ChangeRules EXCEPT
         !.derive["event_subtype"].gen = "concatenate"]),
     Edit("inventory_change", [ChangeRules EXCEPT
         !.normalize["value_after"] = <<Op("strip")>>])}

MCRequests == Creates \cup Edits
=============================================================================
