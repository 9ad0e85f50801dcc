---------------------------- MODULE MCAgreements ----------------------------
(* Small instances of Agreements for TLC. *)
EXTENDS Agreements, TLC

CONSTANTS i1, i2, r1, r2, h1, h2, s1, s2

Scene(linked, covered, submissions, deliveries, runs) ==
    [linked |-> linked, covered |-> covered, submissions |-> submissions,
     deliveries |-> deliveries, runs |-> runs]

\* A debtor whose link is used twice at a time, one who pays while promising, one
\* whose promise two sweeps find, and one with an arrangement over two invoices.
SmallScenes == {Scene({i1}, {}, {r1, r2}, {}, {s1}), Scene({i1}, {}, {r1}, {h1}, {s1}),
                Scene({i1}, {}, {r1}, {}, {s1, s2}),
                Scene({}, {i1, i2}, {}, {h1, h2}, {s1})}
=============================================================================
