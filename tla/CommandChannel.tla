--------------------------- MODULE CommandChannel ---------------------------
(***************************************************************************)
(* What the console promises a host: every command line written is         *)
(* executed exactly once, in the order written and with the text written,  *)
(* and none that was not written is executed.  UsbSession implements it.   *)
(***************************************************************************)
EXTENDS Naturals, Sequences

CONSTANT Commands   \* the command lines a host may write

VARIABLES
  written,    \* the lines the host has completed, in order
  executed    \* the lines the console has executed, in order

chanVars == <<written, executed>>

ChannelInit == written = <<>> /\ executed = <<>>

Write ==
  /\ \E c \in Commands : written' = Append(written, c)
  /\ UNCHANGED executed

Execute ==
  /\ Len(executed) < Len(written)
  /\ executed' = Append(executed, written[Len(executed) + 1])
  /\ UNCHANGED written

ChannelNext == Write \/ Execute

ChannelSpec == ChannelInit /\ [][ChannelNext]_chanVars /\ WF_chanVars(Execute)
=============================================================================
