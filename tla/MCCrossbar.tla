---------------------------- MODULE MCCrossbar ----------------------------
(* The interconnect on a small instance; MCCrossbar.cfg gives the numbers.   *)
EXTENDS Crossbar

\* One SM sends one slice more packets than there are nodes to take turns; the
\* other SM competes for that slice, and sends to the other one.
MCPackets == [p \in Shaders \X Mems |-> IF p = <<0, NShader>> THEN total_nodes
                                       ELSE IF p[1] = 0 THEN 0 ELSE 1]

\* One request is answered twice, so that the other SM is sent more replies than
\* its output buffer holds, and a reply of the first SM waits behind them.
MCAnswers == [p \in Shaders \X Mems |-> IF p = <<1, NShader>> THEN 2 ELSE 1]
=============================================================================
