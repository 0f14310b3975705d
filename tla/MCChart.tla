------------------------------ MODULE MCChart ------------------------------
(* Model-checking instance of Chart: an excerpt of the GENERAL template.   *)
EXTENDS Chart, TLC

MCStarter ==
    <<[type |-> "ASSET", code |-> "1000", vatOnly |-> FALSE, key |-> "CASH"],
      [type |-> "LIABILITY", code |-> "2100", vatOnly |-> TRUE, key |-> "VAT_OUTPUT"],
      [type |-> "ASSET", code |-> "1020", vatOnly |-> FALSE, key |-> "MPESA"],
      [type |-> "ASSET", code |-> "1200", vatOnly |-> FALSE, key |-> None]>>

MCFreeCodes == [k \in SystemKeys |-> IF k = "MPESA" THEN <<"1020", "1021">> ELSE <<"3900">>]
MCCreations == {[type |-> "ASSET", code |-> "1020"]}

Blank == [parent |-> Keep, key |-> Keep, code |-> Keep]
MCPatches ==
    {[Blank EXCEPT !.parent = p] : p \in Ids \cup {None}}
        \cup {[Blank EXCEPT !.key = k] : k \in {"CASH", "RECEIVABLE"}}
        \cup {[Blank EXCEPT !.code = "1021"]}
MCSymmetry == Permutations(Requests)
=============================================================================
