--------------------------- MODULE MCAtlasDrafts ---------------------------
(***************************************************************************)
(* Constant values for AtlasDrafts: two tenants, one of them with a        *)
(* template, tokens of every posture, and one draft to race for.           *)
(***************************************************************************)
EXTENDS AtlasDrafts, TLC

CONSTANTS r1, r2, ta, tb, m1, m2, d1, d2

Tok(valid, type, tenant, roles, admin) ==
    [valid |-> valid, userType |-> type, tenant |-> tenant, roles |-> roles, admin |-> admin]

MCTokens ==
    {Tok(TRUE, "TENANT", ta, {}, FALSE),
     Tok(TRUE, "TENANT", tb, {Ops}, FALSE),
     Tok(TRUE, "PLATFORM", None, {Ops}, TRUE),
     Tok(TRUE, "PLATFORM", None, {}, FALSE),
     Tok(TRUE, "PLATFORM", ta, {Ops}, FALSE),
     Tok(TRUE, "TENANT", None, {Ops}, FALSE),
     Tok(TRUE, "TENANT", Garbled, {}, FALSE),
     Tok(TRUE, "other", tb, {Ops}, FALSE),
     Tok(FALSE, "PLATFORM", None, {Ops}, TRUE)}

MCSeeded == m1 :> ta

MCKeys == {{Business}, {System}, {"ghost"}}

Edit(key, field, curated, origin) ==
    [key |-> key, field |-> field, curated |-> curated, origin |-> origin]

\* Set the key and ratify; go back to inferred; flag the field; two refused ones.
MCEdits ==
    {Edit({{Business}}, Business, {}, {"human"}),
     Edit({}, Business, {}, {"inferred"}),
     Edit({}, Business, {TRUE}, {}),
     Edit({{System}}, None, {}, {}),
     Edit({}, System, {}, {"human"}),
     Edit({}, "unknown", {}, {"human"})}

\* Requests, and drafts, are interchangeable.
MCSymmetry == Permutations(Requests) \cup Permutations(Drafts)
=============================================================================
