--------------------------- MODULE MCCveDatabase ----------------------------
EXTENDS CveDatabase

Module(name, vendor, version, fixed) ==
    [name |-> name, vendor |-> vendor, product |-> "lib", version |-> version, fixed |-> fixed]
Cpe(cve, score, vendor, version, from, to) ==
    [cve |-> cve, score |-> score, vulnerable |-> TRUE, vendor |-> vendor,
     product |-> "lib", version |-> version, from |-> from, to |-> to]
Ranged(cve, from, to) == Cpe(cve, 5, "gnu", AnyVersion, from, to)
Other(match)          == [match EXCEPT !.product = "other"]

(* Ranges that end at the version of the module, which is 2, or next to it.*)
Boundaries ==
    << Ranged("low", Including(2), NoBound), Ranged("high", NoBound, Including(2)),
       Ranged("above", Excluding(2), NoBound), Ranged("below", NoBound, Excluding(2)),
       Ranged("inside", Excluding(1), Excluding(3)), Ranged("any", NoBound, NoBound),
       Cpe("exact", 5, "gnu", 2, NoBound, NoBound), Cpe("not", 5, "gnu", 3, NoBound, NoBound),
       [Ranged("running-on", NoBound, NoBound) EXCEPT !.vulnerable = FALSE] >>

(* One CVE with two ranges, of which one affects the module.               *)
Old == Ranged("twice", Including(1), Excluding(3))
New == Ranged("twice", Including(3), NoBound)

(* A CVE of two vendors, of which the manifest may tell one.               *)
Vendors == << Ranged("shared", NoBound, Including(2)),
              [Ranged("shared", Including(3), NoBound) EXCEPT !.vendor = "bsd"] >>

Published(first, second, third) ==
    << <<first, second>>, <<third, first>> >>
MCFeeds == { Published(Boundaries, <<Old>>, Vendors),
             Published(<<Old, New>>, <<New, Old>>, <<Other(New)>>),
             Published(<<Old>>, <<Old, Other(New)>>, <<New>>),
             Published(<<Cpe("unscored", None, "gnu", AnyVersion, NoBound, NoBound)>>, <<Old>>, <<>>) }
MCManifests == { << Module("lib", None, 2, {}) >>,
                 << Module("old-lib", "gnu", 1, {}), Module("lib", "gnu", 2, {"low", "any"}),
                    Module("bsd-lib", "bsd", 3, {}), Module("unversioned", None, None, {}) >> }
=============================================================================
