------------------------------ MODULE MCSession ------------------------------
(***************************************************************************)
(* Instance of Session for TLC: three token ids, two prompts, a sampler    *)
(* that depends on the hash, the index and the number of draws.            *)
(***************************************************************************)
EXTENDS Session

MCToken   == 0 .. 2
MCPrompts == {<<>>, <<2>>}
MCPick(rolling, i, draws) ==
  (Len(rolling) + i + 2 * draws +
     (IF rolling = <<>> THEN 0 ELSE rolling[Len(rolling)])) % 3
=============================================================================
