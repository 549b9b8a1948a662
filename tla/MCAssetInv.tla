------------------------------ MODULE MCAssetInv ----------------------------
(***************************************************************************)
(* Small instance of AssetInv: every document of up to two hosts made of   *)
(* five scripts and three lists of addresses, and one that is cut short.   *)
(***************************************************************************)
EXTENDS AssetInv

Elem(k, t) == [key |-> k, text |-> t]
Scr(i, e) == [id |-> i, elems |-> e]

\* A label said twice, a label without text, an element without a label, an unknown
\* script, a blank vendor, a vendor that only the product names.
Reports ==
  {Scr("enip", <<Elem("Vendor", "Rockwell"), Elem("Product Name", "1756-L61"),
                 Elem("Revision", "20.11"), Elem("Revision", "21.11"), Elem("Revision", NoText)>>),
   Scr("enip", <<Elem("Vendor", ""), Elem("Product Name", "1756-L61")>>),
   Scr("enip", <<Elem("Vendor", "Other"), Elem("Product Name", "1756-L61"), Elem("Revision", "20.11")>>),
   Scr("other", <<Elem(NoText, "Rockwell"), Elem("State", "Run")>>),
   Scr("other", <<Elem(NoText, "Run"), Elem("State", NoText)>>)}

Addr(t, a) == [type |-> t, addr |-> a]
AddrLists == {<<Addr("mac", "m1"), Addr("ipv4", "i1")>>, <<Addr("ipv6", "i2"), Addr("ipv4", "i1")>>,
              <<Addr("mac", "m1")>>}
Hosts == {[addrs |-> a, scripts |-> s] : a \in AddrLists, s \in TupleOf(Reports, 1) \cup {<<>>}}
         \cup {[addrs |-> <<Addr("ipv4", "i3")>>, scripts |-> s] : s \in TupleOf(Reports, 2)}

MCDocuments ==
  {[wellformed |-> TRUE, hosts |-> h] :
     h \in {<<>>} \cup TupleOf(Hosts, 1) \cup {<<g, f>> : g \in {x \in Hosts : Len(x.scripts) = 1}, f \in Hosts}}
  \cup {[wellformed |-> FALSE, hosts |-> <<>>]}

MCScriptMap == "enip" :> ("vendor" :> "Vendor" @@ "product" :> "Product Name" @@ "firmware" :> "Revision")
MCBundle == <<[product_match |-> "1756-L6", vendor |-> "Rockwell", firmware_match |-> NoText, cves |-> <<"c1", "c2">>],
              [product_match |-> "1756-L6", vendor |-> "Rockwell", firmware_match |-> "20", cves |-> <<"c3">>]>>
MCWithin == {<<"1756-L6", "1756-L61">>, <<"20", "20.11">>}
===========================================================================
