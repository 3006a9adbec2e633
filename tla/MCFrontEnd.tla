----------------------------- MODULE MCFrontEnd -----------------------------
(* Instances of FrontEnd: one channel place, two peers, two files. *)
EXTENDS FrontEnd

OneOfEach == {<<"changed", CHOOSE f \in File \ Excluded : TRUE>>,
              <<"deleted", CHOOSE f \in File \ Excluded : TRUE>>}

=============================================================================
