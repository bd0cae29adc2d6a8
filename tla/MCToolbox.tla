------------------------------ MODULE MCToolbox -----------------------------
(***************************************************************************)
(* The tools that keep no state of the framework: the calls of Filesystem  *)
(* on one tree, or one call of Adapters.  The two share nothing, so each   *)
(* behaviour is of one of them, while the other is idle.                   *)
(***************************************************************************)
EXTENDS MCFilesystem, Adapters

Samples == INSTANCE AdapterSamples

MCAsks == Samples!SampleAsks

ASSUME AsksAssumption == WellFormed

(* The adapters while the files are worked on: a call nobody begins.       *)
NoCall ==
  /\ ask = [tool |-> <<"alerting", "list_alerts">>, params |-> <<>>]
  /\ stage = "idle"
  /\ context = NoEntry
  /\ resources = {}
  /\ sent = NoEntry
  /\ reply = "none"

InitToolbox == Init /\ (AskInit \/ NoCall)

NextToolbox ==
  \/ stage = "idle" /\ Next /\ UNCHANGED askVars
  \/ stage # "idle" /\ AskNext /\ UNCHANGED vars

SpecToolbox == InitToolbox /\ [][NextToolbox]_<<vars, askVars>>

MCWorth == "0" :> 0 @@ "7" :> 7 @@ "90" :> 90

MCWords == {"0", "7", "90", "x", "u", "D", "h", "m", "kv", "SELECT", "CREATE", "FROM",
           "INSERT", "INTO", "UPDATE", "SET", "DELETE", "E"}

MCProviders == {<<"github">>}
=============================================================================
