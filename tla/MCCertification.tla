-------------------------- MODULE MCCertification --------------------------
(* Certification for TLC: all 51 jurisdictions, each with its own script.   *)
EXTENDS Certification, TLC

AllStates == {"AL", "AK", "AR", "AZ", "CA", "CO", "CT", "DC", "DE", "FL", "GA",
    "HI", "IA", "ID", "IL", "IN", "KS", "KY", "LA", "MA", "MD", "ME", "MI",
    "MN", "MO", "MS", "MT", "NC", "ND", "NE", "NH", "NJ", "NM", "NV", "NY",
    "OH", "OK", "OR", "PA", "RI", "SC", "SD", "TN", "TX", "UT", "VA", "VT",
    "WA", "WI", "WV", "WY"}
Alike == Permutations(Runs)
=============================================================================
