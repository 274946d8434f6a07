---------------------------- MODULE MCVerifyTool ----------------------------
(* A small instance of module VerifyTool. *)
EXTENDS VerifyTool

(* Names, keys and texts; the third record name does not fit its field and *)
(* is cut to the second.                                                   *)
KeyFile == <<107>>
EarFile == <<101>>
ES      == <<69>>
R1      == <<49>>
R2      == <<50, 50>>
R2Long  == <<50, 50, 51>>

K1    == <<7>>
Text1 == <<84, 49>>
Text2 == <<84, 50>>

Object(recs) == [json |-> "container", recs |-> recs]

Rec(s) == [status |-> s, attestation |-> NULL]

Good == [signer |-> K1, alg |-> ES, nbf |-> 1, exp |-> 3, hdrsAgree |-> TRUE,
         profile |-> EAR_PROFILE,
         submods |-> Object([n \in {R1, R2} |->
                       Rec(IF n = R1 THEN "affirming" ELSE "warning")])]
Other == [Good EXCEPT !.submods = Object([n \in {R1} |-> Rec("none")])]
NoToken == [Good EXCEPT !.signer = NULL]

(* The second token follows a NUL, or is cut short by one.                 *)
MCTokenOf(text) ==
  IF text = Text1 THEN Good ELSE IF text = Text2 THEN Other ELSE NoToken

Opt(f, v) == [flag |-> f, val |-> v]

OptK == Opt("k", KeyFile)
OptA == Opt("a", ES)

MCArgv ==
  {[opts |-> <<OptA, OptK, Opt("s", R1)>>, file |-> EarFile],
   [opts |-> <<OptK, Opt("s", R1), Opt("s", R2), OptA>>, file |-> EarFile],
   [opts |-> <<OptA, OptK, Opt("s", R2Long)>>, file |-> EarFile],
   [opts |-> <<OptA, OptK>>, file |-> EarFile],
   [opts |-> <<OptA, Opt("s", R1)>>, file |-> EarFile],
   [opts |-> <<OptK, OptA, Opt("x", R1)>>, file |-> EarFile],
   [opts |-> <<OptA, OptK>>, file |-> NULL]}

MCContent == {<<>>, K1, Text1, Text2 \o <<0, 1>>}

MCFileName == {KeyFile, EarFile}
MCTokens == {Good, Other, NoToken}
MCKnownAlg == {ES}

=============================================================================
