---------------------------- MODULE MCDiscovery ----------------------------
(***************************************************************************)
(* The instance of Discovery for TLC.                                      *)
(***************************************************************************)
EXTENDS Discovery

CONSTANTS s1, s2, s3, s4, f1, f2, f3

\* s1 and s3 are registered by MdnsAdvertiser.  The name of s2 is no
\* fingerprint, so nobody hears when f2 goes; s4 has the name of s3 and a TXT
\* record that does not verify, so f3 is reported gone when s4 goes.
Names == [s \in Services |->
            CASE s = s1 -> f1 [] s = s2 -> NoFp [] s = s3 -> f3 [] s = s4 -> f3]
Txts == [s \in Services |->
            CASE s = s1 -> f1 [] s = s2 -> f2 [] s = s3 -> f3 [] s = s4 -> NoFp]
\* A sender whose beacons are nearly too old at once, and one whose beacons are
\* in the future at first.
BehindAndAhead == {-1, 2}
=============================================================================
