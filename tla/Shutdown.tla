------------------------------ MODULE Shutdown -------------------------------
(***************************************************************************)
(* How jab_simul starts and ends.  exit_app deletes the users of           *)
(* main_instance in the order of users[], frees the instance and leaves    *)
(* the process.  Its callers: main before there is an instance, configure  *)
(* and set_users_properities for a configuration they cannot read, the     *)
(* signal handler at any time, the test user that exits after its login,   *)
(* handle_POLLERR for such a user whose connect failed, and itself:        *)
(* user_delete kills the connection, and user_conn_kill calls exit_app     *)
(* again for a user that still waits to exit.  exit() does not return, so  *)
(* only the innermost call goes on; it starts with the first user again,   *)
(* because neither users[] nor main_instance is ever cleared.              *)
(*                                                                         *)
(* main deletes the users once more behind thread_main, but never gets     *)
(* there: where poll fails, thread_main reads through conns[1], which is   *)
(* NULL.  Accesses to freed users are not modelled as faults.              *)
(***************************************************************************)
EXTENDS Integers, FiniteSets

CONSTANTS
  UserCount,    \* MAX_USERS: users that users[] has room for
  MaxSignals    \* bound: signals handled in a run

ASSUME ShutdownAssumption == UserCount \in Nat \ {0} /\ MaxSignals \in Nat

VARIABLES
  stage,         \* "starting", "running", "deleting", "leaving", "gone"; "crashed"
  main_instance, \* "NULL"; "malloced": users[] still as malloc left it; "cleared"
  entered,       \* users in users[]
  flagged,       \* users with UPF_EXIT_AFTER_LOGIN
  wasFlagged,    \* history: the users the configuration flags
  at,            \* the user the innermost delete_users_properities is at
  freed,         \* how often each user's pool was freed
  instance,      \* how often main_instance was freed
  connected,     \* users with a connection
  signals,       \* history: signals handled
  nested,        \* history: one of them came while exit_app was at work
  wasAccepted,   \* history: the login of a test user was accepted
  unreadable,    \* history: the configuration was not read to its end
  code           \* the status exit gets

shutdownVars == <<stage, main_instance, entered, flagged, wasFlagged, at, freed, instance, connected,
                  signals, nested, wasAccepted, unreadable, code>>

Simulated == 1..UserCount

ShutdownInit ==
  /\ stage = "starting" /\ main_instance = "NULL" /\ entered = 0
  /\ flagged = {} /\ wasFlagged = {}
  /\ at = 0 /\ freed = [u \in Simulated |-> 0] /\ instance = 0
  /\ connected = {} /\ code = 0
  /\ signals = 0 /\ nested = FALSE /\ wasAccepted = FALSE /\ unreadable = FALSE

(* What the steps of a start, and those of the loop, leave alone. *)
startRest == <<stage, at, freed, instance, connected, signals, nested, wasAccepted, unreadable, code>>
loopRest == <<main_instance, entered, wasFlagged, freed, instance, signals, nested, unreadable>>

(* main allocates the instance; set_users_properities clears users[] and
   enters the users, each of which gets its flags a few lines later. *)
Allocate ==
  /\ stage = "starting" /\ main_instance = "NULL" /\ main_instance' = "malloced"
  /\ UNCHANGED <<entered, flagged, wasFlagged>> /\ UNCHANGED startRest

ClearUsers ==
  /\ stage = "starting" /\ main_instance = "malloced" /\ main_instance' = "cleared"
  /\ UNCHANGED <<entered, flagged, wasFlagged>> /\ UNCHANGED startRest

EnterUser ==
  /\ stage = "starting" /\ main_instance = "cleared" /\ entered < UserCount
  /\ entered' = entered + 1
  /\ UNCHANGED <<main_instance, flagged, wasFlagged>> /\ UNCHANGED startRest

FlagUser ==
  /\ stage = "starting" /\ entered > 0 /\ entered \notin wasFlagged
  /\ flagged' = flagged \union {entered} /\ wasFlagged' = wasFlagged \union {entered}
  /\ UNCHANGED <<main_instance, entered>> /\ UNCHANGED startRest

StartLoop ==
  /\ stage = "starting" /\ main_instance = "cleared"
  /\ stage' = "running"
  /\ UNCHANGED <<main_instance, entered, flagged, wasFlagged, at, freed, instance, connected,
                 signals, nested, wasAccepted, unreadable, code>>

(* exit_app with a status: delete_users_properities from the first user on.
   In an instance fresh from malloc it finds nobody, or a stray pointer. *)
ExitSkips(status) ==   \* slip: the nested call goes on behind the user
  stage' = "deleting" /\ at' = at + 1 /\ code' = status
exit_app(status) ==
  /\ \/ stage' = "deleting" /\ at' = 1
     \/ main_instance = "malloced" /\ stage' = "crashed" /\ at' = 0
  /\ code' = status

(* main for -v and -c, before there is an instance. *)
ShowVersion ==
  /\ stage = "starting" /\ main_instance = "NULL"
  /\ exit_app(0)
  /\ UNCHANGED <<flagged, connected, wasAccepted>> /\ UNCHANGED loopRest

(* configure without a file it can parse, set_users_properities with a
   regular expression that it cannot compile, after some of the users. *)
Unreadable ==
  /\ stage = "starting" /\ main_instance # "NULL"
  /\ exit_app(1)
  /\ unreadable' = TRUE
  /\ UNCHANGED <<main_instance, entered, flagged, wasFlagged, freed, instance, connected, signals, nested, wasAccepted>>

(* sigerr_handler for SIGINT and SIGTERM: while the users are made, in the
   loop, while they are deleted, and behind free(main_instance). *)
Signal ==
  /\ stage \in {"starting", "running", "deleting", "leaving"} /\ signals < MaxSignals
  /\ signals' = signals + 1
  /\ nested' = (nested \/ stage \in {"deleting", "leaving"})
  /\ exit_app(1)
  /\ UNCHANGED <<main_instance, entered, flagged, wasFlagged, freed, instance, connected, wasAccepted, unreadable>>

UserConnects(u) ==
  /\ stage = "running" /\ u <= entered /\ u \notin connected
  /\ connected' = connected \union {u}
  /\ UNCHANGED <<stage, flagged, at, wasAccepted, code>> /\ UNCHANGED loopRest

(* What ends a test user: handle_login_response (status 1 when it is logged
   in, 0 when refused), a timeout or a failing user_connect (0).  The flag
   goes first. *)
LoginEnds(u, status) ==
  /\ stage = "running" /\ u \in flagged
  /\ status = 1 => u \in connected
  /\ flagged' = flagged \ {u}
  /\ wasAccepted' = (status = 1)
  /\ exit_app(status)
  /\ UNCHANGED connected /\ UNCHANGED loopRest

(* handle_POLLERR of a test user whose connect is still in progress calls
   exit_app(0), and leaves the flag. *)
ConnectFails(u) ==
  /\ stage = "running" /\ u \in flagged \intersect connected
  /\ exit_app(0)
  /\ UNCHANGED <<flagged, connected, wasAccepted>> /\ UNCHANGED loopRest

(* user_conn_kill of a user of the running simulator. *)
ConnectionDies(u) ==
  /\ stage = "running" /\ u \in connected
  /\ connected' = connected \ {u}
  /\ flagged' = flagged \ {u}
  /\ IF u \in flagged THEN exit_app(0) ELSE UNCHANGED <<stage, at, code>>
  /\ UNCHANGED wasAccepted /\ UNCHANGED loopRest

(* poll fails, thread_main leaves its loop: pool_free(t->conns[1]->p). *)
PollFails ==
  /\ stage = "running" /\ stage' = "crashed"
  /\ UNCHANGED <<flagged, at, connected, wasAccepted, code>> /\ UNCHANGED loopRest

(* One turn of the loop over users[]: user_delete sets UPF_EXPECT_KILL,
   user_conn_kill drops the connection and looks at UPF_EXIT_AFTER_LOGIN, and
   only then the user is freed. *)
user_delete(u) ==
  /\ connected' = connected \ {u}
  /\ flagged' = flagged \ {u}
  /\ IF u \in flagged
       THEN exit_app(0) /\ UNCHANGED freed
       ELSE /\ freed' = [freed EXCEPT ![u] = @ + 1]
            /\ at' = at + 1
            /\ UNCHANGED <<stage, code>>

DeleteNext ==
  /\ stage = "deleting" /\ at <= entered
  /\ user_delete(at)
  /\ UNCHANGED <<main_instance, entered, wasFlagged, instance, signals, nested, wasAccepted, unreadable>>

(* After the last user: the instance, if there is one, is freed; then exit. *)
FreeInstance ==
  /\ stage = "deleting" /\ at > entered
  /\ stage' = "leaving"
  /\ instance' = IF main_instance = "NULL" THEN instance ELSE instance + 1
  /\ UNCHANGED <<main_instance, entered, flagged, wasFlagged, at, freed, connected, signals, nested,
                 wasAccepted, unreadable, code>>

Leave ==
  /\ stage = "leaving" /\ stage' = "gone"
  /\ UNCHANGED <<flagged, at, connected, wasAccepted, code>> /\ UNCHANGED loopRest

ShutdownNext ==
  \/ Allocate \/ ClearUsers \/ EnterUser \/ FlagUser \/ StartLoop
  \/ ShowVersion \/ Unreadable \/ Signal \/ PollFails
  \/ \E u \in Simulated :
       \/ UserConnects(u) \/ ConnectFails(u) \/ ConnectionDies(u)
       \/ \E status \in {0, 1} : LoginEnds(u, status)
  \/ DeleteNext \/ FreeInstance \/ Leave

ShutdownSpec == ShutdownInit /\ [][ShutdownNext]_shutdownVars
-----------------------------------------------------------------------------
ShutdownTypeOK ==
  /\ stage \in {"starting", "running", "deleting", "leaving", "gone", "crashed"}
  /\ main_instance \in {"NULL", "malloced", "cleared"} /\ entered \in 0..UserCount
  /\ flagged \subseteq wasFlagged /\ wasFlagged \subseteq 1..entered
  /\ at \in 0..(UserCount + 1)
  /\ freed \in [Simulated -> Nat] /\ instance \in Nat
  /\ connected \subseteq 1..entered
  /\ signals \in 0..MaxSignals /\ nested \in BOOLEAN /\ wasAccepted \in BOOLEAN /\ unreadable \in BOOLEAN
  /\ code \in {0, 1}

(* A user, and the instance, are freed again only if exit_app was called
   again while it was at work: by a signal, or by a user behind the first
   one that still had to exit after its login.  A simulator with one test
   user in users[0] ends cleanly. *)
FreedOnceUnlessNested ==
  /\ (~nested /\ wasFlagged \subseteq {1}) => \A u \in Simulated : freed[u] <= 1
  /\ ~nested => instance <= 1

(* Whatever nested, no user of those made is left: every one is freed before
   the process ends, and so is the instance; the flags and the connections
   are gone. *)
NoUserLeft ==
  stage = "gone" =>
    /\ \A u \in 1..entered : freed[u] >= 1
    /\ flagged = {} /\ connected = {}
    /\ main_instance # "NULL" => instance >= 1

(* The status tells how the login of the test user went, whatever else the
   deletion of the users runs into: an accepted login leaves 1, and nothing
   but a signal or an unreadable configuration does besides.  Of two test
   users, one hides the other. *)
StatusOfTest ==
  stage = "gone" =>
    /\ (wasAccepted /\ Cardinality(wasFlagged) = 1) => code = 1
    /\ code = 1 => wasAccepted \/ unreadable \/ signals > 0

(* exit_app, from each of its callers and however often it is called again. *)
LeavesCleanly == FreedOnceUnlessNested /\ NoUserLeft /\ StatusOfTest
=============================================================================
