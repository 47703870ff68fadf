----------------------------- MODULE CveReport ------------------------------
(***************************************************************************)
(* utils/generate_cve_report.py: from the files of the CVE database and a  *)
(* manifest to the vulnerabilities that the manifest is reported to have.  *)
(*   module  [name, vendor, product, version, fixed]   a manifest's entry; *)
(*           fixed is the union of "patches" and "ignored"                 *)
(*   match   [cve, score, vulnerable, vendor, product, version, from, to]  *)
(*           a cpe_match with what is used of its CVE; the version of a    *)
(*           range is AnyVersion, its ends are [kind, at] or NoBound       *)
(* Versions are numbers: packaging.version.LegacyVersion is a total order. *)
(***************************************************************************)
EXTENDS Integers, Sequences, FiniteSetsExt

CONSTANTS None,          \* a value that JSON leaves out
          AnyVersion     \* the version "*"

NoBound       == [kind |-> "none", at |-> 0]
Including(at) == [kind |-> "including", at |-> at]
Excluding(at) == [kind |-> "excluding", at |-> at]
IsBound(end)  == end.kind \in {"none", "including", "excluding"} /\ end.at \in Int

(* What the proofs need of entries and matches: a version can be compared, *)
(* and no entry is taken for a missing one.                                *)
IsModule(m)     == m # None /\ m.version \in Int \cup {None}
IsMatch(match)  == /\ match.version \in Int \cup {AnyVersion}
                   /\ IsBound(match.from) /\ IsBound(match.to)
IsSequence(q)   == Len(q) \in Nat /\ DOMAIN q = 1 .. Len(q)

(* LOOKUP_TABLE: of the modules with the same vendor and product the last; *)
(* a module without a version is not in it, and one without a vendor is    *)
(* found for every vendor that has no module of that product.              *)
Named(modules, vendor, product) ==
    {i \in DOMAIN modules : /\ modules[i].version # None
                            /\ modules[i].vendor = vendor /\ modules[i].product = product}
Lookup(modules, match) ==
    LET exact   == Named(modules, match.vendor, match.product)
        generic == Named(modules, None, match.product)
    IN  IF exact # {} THEN modules[Max(exact)]
        ELSE IF generic # {} THEN modules[Max(generic)] ELSE None

Below(version, from) == \/ from.kind = "including" /\ version < from.at
                        \/ from.kind = "excluding" /\ version <= from.at

(* mutation of Above: the end of a range that excludes it is taken in.     *)
AboveIncluding(version, to) == to.kind # "none" /\ version > to.at

Above(version, to) == \/ to.kind = "including" /\ version > to.at
                      \/ to.kind = "excluding" /\ version >= to.at

Vulnerable(module, match) ==
    /\ match.cve \notin module.fixed
    /\ \/ module.version = match.version
       \/ /\ match.version = AnyVersion
          /\ ~ Below(module.version, match.from) /\ ~ Above(module.version, match.to)

Others(found, match) == {entry \in found : entry.cve # match.cve}
Entry(module, match) == [cve |-> match.cve, name |-> module.name, score |-> match.score]

(* One round of the main loop, for a match that says "vulnerable"; found   *)
(* is vuln_map, as the set of its entries.                                 *)
Judge(modules, found, match) ==
    LET module == Lookup(modules, match)
    IN  IF ~ match.vulnerable \/ module = None THEN found
        ELSE Others(found, match)
                 \cup (IF Vulnerable(module, match) THEN {Entry(module, match)} ELSE {})

(* by_score: float(None) is a TypeError, which is not the ValueError that  *)
(* the function is ready for, so one entry without a score ends the script.*)
Sortable(found) == \A entry \in found : entry.score # None
=============================================================================
