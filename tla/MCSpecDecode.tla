---------------------------- MODULE MCSpecDecode ----------------------------
(***************************************************************************)
(* Instance of SpecDecode for TLC: two tokens, a target model that looks   *)
(* at the last two tokens and is constant on neither.                      *)
(***************************************************************************)
EXTENDS SpecDecode

MCToken   == {0, 1}
MCWindow  == 2
MCPredict == [w \in UNION {[1 .. n -> MCToken] : n \in 0 .. MCWindow} |->
                IF w = <<>> THEN 0
                ELSE IF Len(w) = 1 THEN 1 - w[1]
                ELSE IF w[1] = w[2] THEN 1 - w[2] ELSE w[1]]
MCPrompts == {<<>>, <<1, 1>>}
=============================================================================
