------------------------------- MODULE MCParts -------------------------------
(***************************************************************************)
(* The parts of jab_simul that are modelled on their own, in one model: a  *)
(* behaviour is one of one part, chosen in the initial state, and the      *)
(* others rest.                                                            *)
(***************************************************************************)
EXTENDS PendingReplies, Roster, PrivRoster, Shutdown, Writer, Reader,
        NamePattern, Start, Counts

VARIABLE part

Parts == {"replies", "roster", "priv_roster", "shutdown", "writer", "reader",
          "pattern", "config", "payload", "echo", "statistics", "limits"}

Init ==
  /\ part \in Parts
  /\ PendingInit /\ RosterInit /\ PrivInit /\ ShutdownInit /\ ReaderInit /\ PatternInit /\ EchoInit
  /\ WriterInit /\ (part # "writer" => secure = "plain" /\ errnum = "EINPROGRESS")
  /\ StatInit /\ (part # "statistics" => stat.stat_size = 1)
  /\ IF part = "config" THEN ConfigInit ELSE ConfigWith(<<>>, <<>>)
  /\ IF part = "payload" THEN PayloadInit ELSE PayloadWith(CHOOSE t \in Addressings : TRUE, CHOOSE b \in Bodies : TRUE)
  /\ IF part = "limits" THEN LimitsInit ELSE LimitsWith("library", InitKarma)

OthersRest ==
  /\ IF part = "replies" THEN TRUE ELSE UNCHANGED pendingVars
  /\ IF part = "roster" THEN TRUE ELSE UNCHANGED rosterVars
  /\ IF part = "priv_roster" THEN TRUE ELSE UNCHANGED privVars
  /\ IF part = "shutdown" THEN TRUE ELSE UNCHANGED shutdownVars
  /\ IF part = "writer" THEN TRUE ELSE UNCHANGED writerVars
  /\ IF part = "reader" THEN TRUE ELSE UNCHANGED readerVars
  /\ IF part = "pattern" THEN TRUE ELSE UNCHANGED patternVars
  /\ IF part = "config" THEN TRUE ELSE UNCHANGED configVars
  /\ IF part = "payload" THEN TRUE ELSE UNCHANGED payloadVars
  /\ IF part = "echo" THEN TRUE ELSE UNCHANGED echoVars
  /\ IF part = "statistics" THEN TRUE ELSE UNCHANGED <<statVars, timerVars>>
  /\ IF part = "limits" THEN TRUE ELSE UNCHANGED limitsVars

Next ==
  \/ part = "replies" /\ PendingNext /\ OthersRest /\ UNCHANGED part
  \/ part = "roster" /\ RosterNext /\ OthersRest /\ UNCHANGED part
  \/ part = "priv_roster" /\ PrivNext /\ OthersRest /\ UNCHANGED part
  \/ part = "shutdown" /\ ShutdownNext /\ OthersRest /\ UNCHANGED part
  \/ part = "writer" /\ WriterNext /\ OthersRest /\ UNCHANGED part
  \/ part = "reader" /\ ReaderNext /\ OthersRest /\ UNCHANGED part
  \/ part = "pattern" /\ PatternNext /\ OthersRest /\ UNCHANGED part
  \/ part = "config" /\ ConfigNext /\ OthersRest /\ UNCHANGED part
  \/ part = "payload" /\ PayloadNext /\ OthersRest /\ UNCHANGED part
  \/ part = "echo" /\ EchoNext /\ OthersRest /\ UNCHANGED part
  \/ part = "statistics" /\ StatNext /\ OthersRest /\ UNCHANGED part
  \/ part = "limits" /\ LimitsNext /\ OthersRest /\ UNCHANGED part

vars == <<part, pendingVars, rosterVars, privVars, shutdownVars, writerVars, readerVars, patternVars,
          configVars, payloadVars, echoVars, statVars, timerVars, limitsVars>>
Spec == Init /\ [][Next]_vars

------------------------------------------------------------------------------
(* A name pattern is the number that its arithmetic says, and one that      *)
(* breaks off spoils those after it (namespace_scan.l, namespace_pars.y).   *)
PatternsComputed == []StuckOnlyAfterBreak /\ ArithmeticAsWritten /\ BreakSpoilsNext

------------------------------------------------------------------------------
(* The values of the constants. *)
MCJidHash == [k \in Jids |-> CASE k = "a" -> 0 [] k = "b" -> 2]
MCPrimeNumbers == <<1, 2>>

Inner == {"(", ")", "-", "*", "NUM"}
MCPatterns ==
  UNION {[1..n -> {"x", "%(", ")", "1", ":i)", "+"}] : n \in 1..3}
  \union {<<"%(">> \o e \o <<":i)">> : e \in UNION {[1..n -> Inner] : n \in 1..5}}
  \union {<<"%(">> \o e \o <<":i)">> : e \in [1..4 -> {"%(", "2", ")", "NUM"}]}
  \union {<<"%(">> \o e \o <<":i)">> : e \in [1..5 -> {"/", "-", "2", "NUM"}]}

Tag(n) == [there |-> n >= 0, number |-> n]
MCGenerators ==
  {[name |-> n, server |-> s, range |-> TRUE, from |-> Tag(f), to |-> Tag(2)] : n \in {"a", "b"}, s \in {"", "s"}, f \in {-1, 1}}
  \union {[name |-> n, server |-> "s", range |-> n = "", from |-> Tag(1), to |-> Tag(2)] : n \in {"", "a"}}
MCGroups ==
  {[matches |-> m, range |-> f # t, from |-> Tag(f), to |-> Tag(t), port |-> 1] : m \in {{"a"}, {"a", "b"}}, f \in {-1, 1}, t \in {-1, 1}}

MCJobs ==
  [to : {[from_roster |-> FALSE, range |-> FALSE, from |-> 0, to |-> 0, jid |-> TRUE, roster |-> 0, conn |-> TRUE]}, body : Bodies]
  \union [to : Addressings, body : {[kind |-> "text", prep |-> 0, len |-> 1, grown |-> 0, given |-> TRUE]}]

MCPenalty == -2
MCSimulatorInit == -4
==============================================================================
