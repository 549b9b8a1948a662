------------------------------- MODULE AssetInv -----------------------------
(***************************************************************************)
(* The asset inventory (asset-inventory/assetinv): one run of the command  *)
(* takes the XML of a scan, or of a file, through the parser, the          *)
(* normalizer and the CVE hints, and writes the inventory over the file    *)
(* of the run before.                                                      *)
(*                                                                         *)
(* A document is a sequence of hosts, a host its addresses and the scripts *)
(* that reported on its ports (those that reported on the host as a whole  *)
(* are never looked at), a script its identity and its elem elements in    *)
(* document order, those of nested tables among them. Which text contains  *)
(* which is given. The inventory goes to a file, as JSON; ports, labels of *)
(* devices and the layout are left out.                                    *)
(***************************************************************************)
EXTENDS Naturals, Sequences, SequencesExt, FiniteSetsExt

CONSTANTS
  Documents,    \* what the scan, or the file, may hold
  SCRIPT_MAP,   \* per script, the label each canonical field is taken from
  Bundle,       \* the CVE hints, as a sequence
  Within        \* pairs <<a, b>> of texts such that b contains a

\* What is not there: an attribute, a text, an address, a canonical field.
NoText == "none"

Element == [key : STRING, text : STRING]
Script == [id : STRING, elems : Seq(Element)]
Address == [type : {"ipv4", "ipv6", "mac"}, addr : STRING \ {NoText}]
Host == [addrs : Seq(Address), scripts : Seq(Script)]
Document == [wellformed : BOOLEAN, hosts : Seq(Host)]

\* A hint names a product: what no asset without a product contains.
Hint == [product_match : {t \in STRING : t # NoText /\ <<t, NoText>> \notin Within},
         vendor : STRING, firmware_match : STRING, cves : Seq(STRING)]

ASSUME DocumentsAssumption == \A d \in Documents : d \in Document
ASSUME BundleAssumption == Bundle \in Seq(Hint)

VARIABLES
  stage,     \* what the command does next
  want_cve,  \* --cve
  doc,       \* the document the command works on
  records,   \* what the parser made of it
  assets,    \* what has been built of them
  file       \* the output file

run == <<stage, want_cve, doc, records, assets, file>>

Holds(b, a) == a = b \/ <<a, b>> \in Within

Old == [whole |-> TRUE, from |-> "old", assets |-> <<>>]
NoDoc == [wellformed |-> TRUE, hosts |-> <<>>]

---------------------------------------------------------------------------
(* The parser.                                                             *)

\* A text of blanks is usable: it becomes the empty text.
Usable(e) == e.key \notin {NoText, ""} /\ e.text # NoText

Put(f, k, t) == [l \in DOMAIN f \cup {k} |-> IF l = k THEN t ELSE f[l]]

\* Mutant: the first element with a key stays.
ScriptFieldsFirst(s) ==
  FoldLeft(LAMBDA f, e : IF Usable(e) /\ e.key \notin DOMAIN f THEN Put(f, e.key, e.text) ELSE f,
           <<>>, s.elems)

\* A later element with the same key, of whatever table, replaces an earlier one.
script_fields(s) ==
  FoldLeft(LAMBDA f, e : IF Usable(e) THEN Put(f, e.key, e.text) ELSE f, <<>>, s.elems)

\* The first address that is not a hardware address, if there is one.
host_address(h) ==
  LET ips == {i \in DOMAIN h.addrs : h.addrs[i].type \in {"ipv4", "ipv6"}}
  IN  IF ips = {} THEN NoText ELSE h.addrs[Min(ips)].addr

\* A script without a usable element leaves no record.
script_records(h, s) ==
  IF DOMAIN script_fields(s) = {} THEN <<>>
  ELSE <<[host |-> host_address(h), script |-> s.id, fields |-> script_fields(s)]>>

host_records(h) == FlattenSeq([i \in DOMAIN h.scripts |-> script_records(h, h.scripts[i])])

parse_xml(d) == FlattenSeq([i \in DOMAIN d.hosts |-> host_records(d.hosts[i])])

---------------------------------------------------------------------------
(* The normalizer and the hints.                                           *)

Canonical == {"vendor", "product", "firmware", "serial", "device_type"}

mapping(script) == IF script \in DOMAIN SCRIPT_MAP THEN SCRIPT_MAP[script] ELSE <<>>

normalize(r) ==
  [host |-> r.host, script |-> r.script, raw |-> r.fields,
   canon |-> [f \in Canonical |->
                IF f \in DOMAIN mapping(r.script) /\ mapping(r.script)[f] \in DOMAIN r.fields
                THEN r.fields[mapping(r.script)[f]] ELSE NoText],
   cve_hints |-> <<>>]

\* The vendor is looked at only where there is one that is not blank, and may be part
\* of the product.
matches(e, a) ==
  /\ Holds(a.canon.product, e.product_match)
  /\ \/ a.canon.vendor \in {NoText, ""}
     \/ Holds(a.canon.vendor, e.vendor) \/ Holds(a.canon.product, e.vendor)
  /\ e.firmware_match = NoText \/ Holds(a.canon.firmware, e.firmware_match)

correlate(a) == FlattenSeq([i \in DOMAIN Bundle |->
                              IF matches(Bundle[i], a) THEN Bundle[i].cves ELSE <<>>])

---------------------------------------------------------------------------
(* The command, which may be stopped at any step. (Init, Next and Spec are *)
(* named apart so that a module may extend this one and another.)          *)

RunInit ==
  /\ stage = "read" /\ want_cve \in BOOLEAN
  /\ doc = NoDoc /\ records = <<>> /\ assets = <<>> /\ file = Old

\* What nmap has printed is taken, whatever its exit code; it may have run out of time.
Read ==
  /\ stage = "read"
  /\ \/ stage' = "parse" /\ doc' \in Documents
     \/ stage' = "failed" /\ UNCHANGED doc
  /\ UNCHANGED <<want_cve, records, assets, file>>

\* Output that is cut short is no document and raises.
Parse ==
  /\ stage = "parse"
  /\ IF doc.wellformed THEN stage' = "build" /\ records' = parse_xml(doc)
     ELSE stage' = "failed" /\ UNCHANGED records
  /\ UNCHANGED <<want_cve, doc, assets, file>>

asset(r) ==
  IF want_cve THEN [normalize(r) EXCEPT !.cve_hints = correlate(normalize(r))] ELSE normalize(r)

Build ==
  /\ stage = "build"
  /\ IF Len(assets) = Len(records) THEN stage' = "emit" /\ UNCHANGED assets
     ELSE assets' = Append(assets, asset(records[Len(assets) + 1])) /\ UNCHANGED stage
  /\ UNCHANGED <<want_cve, doc, records, file>>

\* Mutant: the file is opened before the scan is read.
OpenFirst ==
  /\ stage \in {"read", "emit"}
  /\ file' = [whole |-> FALSE, from |-> "new", assets |-> <<>>]
  /\ stage' = IF stage = "emit" THEN "write" ELSE stage
  /\ UNCHANGED <<want_cve, doc, records, assets>>

\* The text is made first; to open the file empties it.
Open ==
  /\ stage = "emit"
  /\ file' = [whole |-> FALSE, from |-> "new", assets |-> <<>>]
  /\ stage' = "write"
  /\ UNCHANGED <<want_cve, doc, records, assets>>

\* The text reaches the file in pieces: so many assets are in it in full.
WriteSome ==
  /\ stage = "write" /\ Len(file.assets) < Len(assets)
  /\ file' = [file EXCEPT !.assets = Append(@, assets[Len(@) + 1])]
  /\ UNCHANGED <<stage, want_cve, doc, records, assets>>

\* Mutant: the file counts as written before its last piece is.
WriteEarly ==
  /\ stage = "write" /\ Len(file.assets) + 1 >= Len(assets)
  /\ file' = [file EXCEPT !.whole = TRUE]
  /\ stage' = "return"
  /\ UNCHANGED <<want_cve, doc, records, assets>>

\* The last piece is written and the file closed.
Write ==
  /\ stage = "write" /\ Len(file.assets) = Len(assets)
  /\ file' = [file EXCEPT !.whole = TRUE]
  /\ stage' = "return"
  /\ UNCHANGED <<want_cve, doc, records, assets>>

Return ==
  /\ stage = "return"
  /\ stage' = "done"
  /\ UNCHANGED <<want_cve, doc, records, assets, file>>

\* The command is stopped, or open or write raises (a disk that is full): what is in the
\* file stays there.
Stopped ==
  /\ stage \notin {"done", "failed"}
  /\ stage' = "failed"
  /\ UNCHANGED <<want_cve, doc, records, assets, file>>

RunNext == Read \/ Parse \/ Build \/ Open \/ WriteSome \/ Write \/ Return \/ Stopped

RunSpec == RunInit /\ [][RunNext]_run

---------------------------------------------------------------------------
(* Properties.                                                             *)

Speaking(d) ==
  UNION {{<<i, j>> : j \in {k \in DOMAIN d.hosts[i].scripts :
                             \E n \in DOMAIN d.hosts[i].scripts[k].elems :
                               Usable(d.hosts[i].scripts[k].elems[n])}} : i \in DOMAIN d.hosts}

SaysLast(s, k, t) ==
  \E i \in DOMAIN s.elems :
    /\ s.elems[i] = [key |-> k, text |-> t]
    /\ \A j \in (i + 1)..Len(s.elems) : s.elems[j].key = k => s.elems[j].text = NoText

\* An asset tells what a script said of a host: its raw labels are the labels of the
\* script, each with the value said last; its canonical fields are among them, and it
\* has hints only when they were asked for and only with a product they name.
Tells(a, h, s) ==
  /\ a.script = s.id
  /\ a.host = NoText => \A i \in DOMAIN h.addrs : h.addrs[i].type = "mac"
  /\ a.host # NoText => \E i \in DOMAIN h.addrs : h.addrs[i].addr = a.host
  /\ \A k \in DOMAIN a.raw : SaysLast(s, k, a.raw[k])
  /\ \A i \in DOMAIN s.elems : Usable(s.elems[i]) => s.elems[i].key \in DOMAIN a.raw
  /\ \A f \in Canonical : a.canon[f] # NoText => \E k \in DOMAIN a.raw : a.raw[k] = a.canon[f]
  /\ a.cve_hints # <<>> => want_cve /\ a.canon.product # NoText

\* A file that is whole has one asset for every script that said anything, and no other;
\* each tells what its script said, the last value of every label. (The earlier values of
\* a label are lost, see NothingLost.)
InventoryFaithful ==
  file.whole /\ file # Old =>
    LET tells(i, p) == Tells(file.assets[i], doc.hosts[p[1]], doc.hosts[p[1]].scripts[p[2]])
    IN  /\ Len(file.assets) = Cardinality(Speaking(doc))
        /\ \A p \in Speaking(doc) : \E i \in DOMAIN file.assets : tells(i, p)
        /\ \A i \in DOMAIN file.assets : \E p \in Speaking(doc) : tells(i, p)

\* A scan that runs out of time, a document that does not parse and a run stopped while
\* it builds leave the inventory of the run before as it was: the file is touched only
\* when every asset of the new one is there. From then on it may be cut short anywhere,
\* by a stop or a write that fails, but holds assets of the new run only, in their order;
\* and a run that ends well has written it whole.
OldKeptUntilBuilt ==
  /\ file # Old =>
       /\ doc.wellformed /\ records = parse_xml(doc) /\ Len(assets) = Len(records)
       /\ Len(file.assets) <= Len(assets)
       /\ \A i \in 1..Len(file.assets) : file.assets[i] = assets[i]
       /\ file.whole => Len(file.assets) = Len(assets)
  /\ stage = "done" => file.whole /\ file # Old

\* asset-inventory/README.md:45, of what an asset holds under raw: "every original NSE
\* label->value (nothing is lost)". A label that a script says twice keeps one value.
NothingLost ==
  stage = "done" =>
    \A p \in Speaking(doc) :
      LET s == doc.hosts[p[1]].scripts[p[2]]
      IN  \A n \in DOMAIN s.elems : Usable(s.elems[n]) =>
            \E i \in DOMAIN file.assets :
              /\ file.assets[i].script = s.id
              /\ s.elems[n].key \in DOMAIN file.assets[i].raw
              /\ file.assets[i].raw[s.elems[n].key] = s.elems[n].text
===========================================================================
