# A TLA+ verification of jab_simul

jab_simul simulates many Jabber users at once, to load a Jabber server. One
thread polls the connections of all of them, lets each user act when its time
comes, and prints statistics. This directory holds TLA+ modules of that program,
the TLC configurations that check them, and proofs for TLAPS. `src/` below is the
root of the program's sources.

## 1. Inventory

| component | where | state | operations |
|---|---|---|---|
| connection slots | `jab_simul-conn.c`, `jab_simul-user.c`, `thread-main.c` | `pfds[]`, `conns[]`, the list `npfd` of recycled slots, `mpfd` | `thread_init`, `add_conns`, `user_connect`, `jpolld_conn_kill` |
| connections and output queues | `jab_simul-conn.c` | `state`, `sstate`, `writer`, `xml_need_responses_queue`, POLLOUT, packet counters | `jpolld_conn_create`, `jpolld_conn_write[_str]`, `_jpolld_conn_write`, `jpolld_conn_node`, `jpolld_conn_kill` |
| event loop | `thread-main.c` | `do_events`, `events_start_after` | `handle_POLLERR/OUT/IN`, `thread_main`, `stat_printf` |
| simulated user | `jab_simul-user.c` | `state`, `conn`, `stream_opened`, `flags`, rosters, message statistics | `user_do_your_job`, `user_do_*`, `handle_*`, `user_connect`, `user_finish_conn`, `user_conn_kill` |
| repeaters | `jab_simul-repeater.c`, `user_handle_repeater_queue` | activation times, counters, cached nearest time | `create_repeater_from_xml`, `copy_repeaters`, the `ev_` handlers |
| pending replies | `jab_simul-user.c` | list of (identifier, callback) | `user_store_xml_info`, `xml_need_response_node_get`, `makeJCOM_ID` |
| rosters | `jab_simul-roster.c`, `libjabber_ext.c` | hash of items, counts; private contacts, groups, version | `roster_hash_from_xml`, `roster_hash_delete`, `priv_*` |
| start and exit | `jab_simul-main.c` | configuration, list of users | `configure`, `generate_user_names_space`, `set_users_properities`, `exit_app`, `delete_users_properities` |
| name patterns | `namespace_scan.l`, `namespace_pars.y` | start condition of the scanner, the name in work | `yylex`, `yyparse`, `sprintf_pattern` |
| statistics | `jab_simul-user.c`, `thread-main.c` | rings of values, timers, message counters | `add_stat`, `get_div_stat`, `check_timer` |
| SSL | `jab_simul-ssl.c` | records that OpenSSL has opened | `jab_ssl_read`, `jab_ssl_write` |
| hash tables | `jabberd/lib/xhash.c`, `genhash.c`, `hashtable.c` | buckets, chains, freed nodes; expat's tables of names | put, get, zap, walk, resize; `lookup` |
| memory pools | `jabberd/lib/pool.c` | heaps, blocks, cleanups | `pmalloc`, `pool_cleanup`, `pool_free` |
| XML trees | `jabberd/lib/xmlnode.c`, `str.c`, `jpacket.c`, `jutil.c` | nodes and their links; registration keys | insert, get, hide, print, copy, compare; escapes; stanzas |
| XML streams and files | `jabberd/lib/xstream.c`, `expat.c` | depth, node in work, status | `xstream_eat`, `xmlnode_str`, `xmlnode_file`, `xmlnode2file` |
| expat | `jabberd/lib/xmltok*.c`, `xmlrole.c`, `xmlparse.c` | tokens, state of the prolog, document type | tokenizers, role handlers, `prologProcessor` |
| identifiers, presence | `jabberd/lib/jid.c`, `pproxy.c` | parts, cached text, lists; a static position | `jid_new`, `jid_set`, `jid_append`; `ppdb_insert`, `ppdb_get` |
| traffic limits | `jabberd/lib/karma.c`, `rate.c`, `jab_simul/karma.c` | karma and meter; points and window | `karma_check`, `jlimit_check` |
| others | `jab_simul-admin.c`, `snprintf.c`, `sha.c`, `socket.c` | | an empty function, formatting, a digest, system calls |

**How they interact.** Everything runs in one thread. `thread_main` calls
`poll()` on the slots `2..mpfd`, then handles one event of each ready slot: an
error kills the connection, writable sends its queue, readable feeds the XML
stream parser, which calls `jpolld_conn_node`, which calls a handler of the user,
which often queues a packet on the same connection. Then each user does its job:
log in if its stream is open, and fire the repeaters that are due, which again
queue packets, connect or kill. There are no locks; the difficulty is not
preemption but the *order* of calls that the server and the clock choose, over
state shared by pointer in both directions (user and connection), and handlers
that destroy what their callers hold.

**What is hard, and what makes each part correct.**

- *Slots*: recycled in any order, numbered from an `mpfd` that goes down by one at
  most. No slot may be shared, lost, or left above `mpfd`.
- *Kill*: `jpolld_conn_kill` and `user_conn_kill` call each other, from four kinds
  of call. Whatever the entry, links, queue, rosters and counters must end as before
  the connection.
- *Queues*: POLLOUT is toggled rather than cleared; it must be set exactly while
  something is queued. A queue that is too long must refuse the simulation's traffic.
- *Replies*: may come late, out of order, or never; callbacks assume the phase they
  were created in.
- *Closing*: is only a mark; someone must carry it out.
- *Time*: two timeouts, a start of events that depends on two counters, and repeaters.
- *Rosters*: a whole list and single pushes come in any order and share the hash, its
  counter and pointers into the private roster, all of which die with the connection.
- *Bytes*: the kernel and OpenSSL take and give any part; an empty packet, a broken
  record or an old `errno` must neither lose nor repeat any.
- *Exit*: deleting the users can ask for the exit again, and starts from the first user.
- *Static state*: a scanner's start condition, a database's position, a cached text and
  a parser's connectors outlive the call that set them.
- *XML*: a stream is cut anywhere, and what comes out may not depend on where.

`PROJECT.json` lists the hazards line by line, with the properties that cover each.

## 2. Modules

| module | what |
|---|---|
| `ConnSlots` | the slot table alone: `npfd`, `mpfd`, open descriptors |
| `Simulator` | users, connections, queues and the event loop, on top of `ConnSlots` |
| `Sessions` | what the simulator promises of a user: the abstract session |
| `MCSimulator` | `Simulator` with the symmetry of the users, for TLC |
| `Repeater` | the timed events of one user: the walk through the list at each of its turns |
| `MCRepeater` | `Repeater` with its sets of frequencies and counters, for TLC |
| `PendingReplies` | one user's requests, their cut identifiers and the list of expectations |
| `Roster`, `PrivRoster` | the public roster in its hash; the private one, its groups and versions |
| `Writer`, `Reader` | the bytes of one connection, out and in, with and without TLS |
| `NamePattern`, `Config`, `Payloads` | the patterns of names; names and users from the configuration; addressees and texts of the events |
| `Start` | `Config` and `Payloads` together, which share no state |
| `MessageEcho`, `Statistics`, `Limits` | messages, echoes and their counters; the rings and timers; karma (both copies) and rate |
| `Counts` | these three together, which share no state |
| `Shutdown` | the making of the users, every caller of `exit_app`, and the deletion of the users |
| `MCParts` | the twelve parts of jab_simul above in one model, for TLC |
| `XHash`, `NameTable` | the hash tables of xhash.c (with genhash.c and libjabber_ext.c) and of expat |
| `Tables` | these two together, which share no state |
| `Text`, `Packets` | escapes, base64 and spools; stanzas, their types, answers and registration keys |
| `Addresses`, `PresenceDb` | jid.c; pproxy.c |
| `Identities` | these two together, which share no state |
| `Pool` | pool.c as it is built, with FAST_POOL |
| `XmlTree` | xmlnode.c and the tag iterator |
| `XStream`, `XmlFile` | streams eaten in pieces; files read in buffers and saved by way of another |
| `XmlDocuments` | these two together, which share no state |
| `XmlTok`, `XmlScan` | the scans of xmltok_impl.c; texts that arrive byte by byte |
| `XmlProlog` | the handlers of xmlrole.c and what prologProcessor does with their roles |
| `MCLibrary` | the twelve parts of the library in one model, for TLC |
| `DataLemmas` | induction on numbers and on the length of sequences; sums and flattened sequences |
| `Simulator_proofs` | theorems on `Simulator` and `ConnSlots` |
| `User_proofs` | theorems on `PendingReplies`, `Roster`, `PrivRoster`, `Shutdown` and `Start` |
| `Connection_proofs` | theorems on `Writer`, `Reader` and `Repeater` |
| `Counts_proofs` | the theorem on `MessageEcho`, `Statistics` and `Limits` |
| `Library_proofs` | theorems on `Pool`, `Packets`, `Text` and `XmlDocuments` |
| `Tables_proofs` | theorems on `XHash` and `NameTable` |
| `Identities_proofs` | the theorem on `Addresses` and `PresenceDb` |

`Simulator` EXTENDS `ConnSlots` and builds its actions from `Take`, `Release` and
`Exhaust`; `SlotsSpec` is checked and proved as a property of it, so the theorems
on slots hold of the whole. `Sessions` is instantiated with a refinement mapping
(`Phase`, and `MaxPfds - 1` places) and is also checked and proved.

**State.** `users[u]` holds the mutable fields of `user_properities` (the roster and
the private roster as "loaded or not"), `conns[loc]` the `jpolld_conn` in a slot or
NULL, `pollout[loc]` the POLLOUT bit of `pfds[loc].events`. `inQueues` stands for
`packets_created - (packets_sent + packets_canceled)` and `established` for
`jpolld_conn_create_count - jpolld_conn_kill_count`: the program only uses these
differences. `peer` records what the server's stream has come to, which the code
keeps inside the parser.

**Actions.** One per call of a handler, with all it calls: `handle_roster_response`
also sends the presence, `LoginAccepted` also asks for the settings, `Kill` is
`jpolld_conn_kill` and `user_conn_kill` together. An action is atomic because the
code is single-threaded. Which handler runs next is free: the model has no clock
and no round of the loop, so it has every order the loop can produce and more. Two
consequences: `late` (a timeout is over) and which repeater is due are
nondeterministic; and a socket can have its events in any order, as from a network.

**Abstractions.** A packet is one unit of a queue; a partial send does nothing to the
count. Replies are a set of kinds (`login`, `numextcontacts`, `extcontacts`,
`roster`): each is requested once per session. `ErrorResponse` is a reply of type
error that the code only logs. Replies to add/del-roster requests have empty
callbacks and are not kept. SSL only changes how bytes move; the results of its
reads and writes are those of the plain socket, already all allowed. Users flagged
`exit_after_login` end the process and are in `Shutdown`; message statistics are in
`MessageEcho`; `jpolld_conn_unexpected_kill_count` is only printed. After the kill of a flushed
closing connection `_jpolld_conn_write` reads freed memory; the model takes the
outcome in which the memory still holds NULL. What `Simulator` leaves out of the
connections, replies, rosters and messages is in the modules of the parts.

**Repeaters.** `Simulator` lets any handler run that its state allows; `Repeater` is the
schedule behind that choice. It follows `user_handle_repeater_queue` one element of the
list per step (`cursor` is `cur_er`), because a handler may change what the next
element meets: `PassOver` (not due), `HoldBack` (due, but wrong state, held events or
counter at 0: it is rescheduled all the same) and `CallHandler`. Between the turns the
clock ticks, the user signs on, its connection dies, the events start. The clock is
absolute so that `NEVER`, 0xFFFFFFFF microseconds, can be what it is: a moment long
past. The initial states are all the lists that `create_repeater_from_xml` and
`copy_repeaters` can make of the configured values. The random deviation is the code's:
whole grains (`frequency/10000`), from -1500 to 1499 of them. `called`, `last` and
`calls` are history, for the properties only.

**The parts in one model.** The modules from `PendingReplies` to `XmlProlog` are parts that
meet the rest of the program in few places, and one user, connection, table or stream of
each is enough. `MCParts` and `MCLibrary` hold twelve each: a behaviour chooses its part
in the initial state, runs that part's own `Init` and `Next` in its own environment, and
the other parts rest in one fixed state. So no part is constrained by another, and one run
explores them all. Each part's module has its own specification (`PendingSpec`,
`PoolSpec`, ...), which the proofs are about. Parts that the code does join are joined:
`Roster` is built on the operators of `XHash`, `XmlScan` on those of `XmlTok`.

What each part keeps and leaves out:

- `PendingReplies` has one user over all its connections. A request is its identifier,
  its callback and a serial number that only the properties see. The base of the digits
  and the number from which `idbuf[10]` cuts are constants, so a few requests pass it. A
  logout saves a private roster, if one is loaded, by two sets whose answers nothing
  expects, and marks the connection; until it is flushed the user stays logged in, asks on,
  and may log out again.
- `Roster`: an item is the lowest free number, so that memory is reused as `malloc` may
  reuse it. The hash, its NULL keys and its change of size are those of `XHash`.
- `PrivRoster`: contacts and groups without their names; versions on the way to the server.
- `Writer`: a packet is its bytes, numbered; the kernel takes what it has room for, the
  peer resets, `errno` keeps what the last call left, other calls change it. `Reader`:
  records arrive whole or in part; a line takes a piece of them; descriptors are counted.
- `Shutdown`: from `main` to `exit`. The instance is allocated, `users[]` cleared, users are
  entered and then flagged, one after the other; `exit_app` is called for an option
  (`ShowVersion`), an unreadable configuration or expression (`Unreadable`), by a signal at any
  of these times or later, by a login that ends, by a connect that fails (`ConnectFails`, which
  leaves the flag) and by a connection that dies. A call from inside is a start from the
  first user, because `exit()` does not return to the outer one. In an instance fresh from
  `malloc` the deletion follows stray pointers: either none is there, or the process
  crashes; so it does when `poll` fails, since `thread_main` then frees `conns[1]`, which is NULL.
- `NamePattern` takes symbols of the scanner instead of characters, and does the
  parser's work on a stack of values and operators. `Config` has the loops over generators
  and groups, the later one overriding. The random operator of a pattern and a divisor of
  zero are left out. `Payloads` keeps lengths and kinds of characters. `ev_send_raw_bytes` has no
  addressee: with `prepend_with_debug_info` it copies and searches NULL, and without bytes
  it queues NULL; both are `Fault`. (The program's README, :18-19, warns of errors with this
  option in the `send_message` event; there the addressee is known, and the model finds none.)
- `MessageEcho`: messages between users that the server delivers, keeps, bounces or loses. A
  message without a text is counted by `ev_send_message` and not sent.
- `Limits`: no code of the simulator calls karma.c or rate.c; the caller is any one that
  checks each read, as lib.h declares it. Each copy of karma starts at the KARMA_INIT of its
  header, 5 or -100.
- `XHash`, `NameTable`, `Text`, `Addresses`, `PresenceDb`, `Packets`: the operations on
  small keys, letters and stanzas, called in any order. Bytes and characters appear only
  where a property tells them apart. Characters are of seven bits: `str_b64decode` indexes its
  table by a `char`, and what lies before the table is not defined. `jid_xres` gives nothing
  for a resource without a `?`, and of two values of one name the last; any stanza, an answer
  or an error too, is answered.
- `Pool`: the places of blocks in their heaps, the list of cleanups and its order.
- `XmlTree`: nodes with `next`, `prev`, `parent`, `firstchild`, `lastchild`, so that
  hiding, merging and the iterator work on pointers. `xmlnode_cmp` walks from its two
  arguments on to their siblings, as the code does.
- `XStream`, `XmlFile`: a document is start tags, end tags, text and an error; files may be
  cut short, the other file of a save may not open, and the process may stop between any two
  system calls. A read that fails is left out: expat is then given a length of -1.
- `XmlTok`: one byte stands for its BYTE_TYPE; the encoding is one of one byte units, with
  characters of two bytes to have one that may be cut. `XmlProlog`: a token is its kind
  and, where it matters, its word; the tables of the handlers are rows of sets. Ends of the
  prolog inside a token are left to `XmlTok`.

## 3. Runs

| run | configuration | what it shows |
|---|---|---|
| `conn_slots` | `ConnSlots.cfg` | seven slots in batches of three, any order of connects and kills: none is shared, lost or unpolled; the NULL `npfd` is met only with all of them in use. |
| `core` | `Simulator.cfg` | two users on two slots, everything interleaved: links, POLLOUT, the counts of queued packets and established connections (`CountersAgree`), login phases and expected replies; the queue limit; the slot table is used by its rules. |
| `core_session` | `SimulatorSession.cfg` | two users for one slot: the handlers implement `Sessions`, at the limit of slots included. |
| `core_live` | `SimulatorLive.cfg` | under fairness: an opened stream is used, a closing connection with a queue is killed once the queue is sent; the events start when enough connections live at once, and no earlier, whatever was made and killed before. |
| `repeater` | `Repeater.cfg` | two repeaters of every kind, frequency and counter: none is overslept, called too often, or called again too soon. |
| `repeater_walk` | `RepeaterWalk.cfg` | three repeaters that connect, kill and use a session, in every order of the list: no handler works on a session killed in the same turn; with a fair loop every due repeater is called, or its user is in another state at its turn. |
| `parts` | `Parts.cfg` | twelve parts of jab_simul, see below. |
| `library` | `Library.cfg` | twelve parts of the library, see below. |
| `null_npfd` | `NullNpfd.cfg` | *violation*: one user more than slots, and `user_connect` reads a NULL `npfd` before testing it. |
| `closing_killed` | `ClosingKilled.cfg` | *violation*: a connection marked CLOSING with an empty queue is never closed. |
| `connect_timeout` | `ConnectTimeout.cfg` | *violation*: `connection_timeout` is not tested while a user is connecting. |
| `negative_waits` | `NegativeWaits.cfg` | *violation*: a repeater without a frequency is not quiet, as its declaration says, but is called at every turn. |

The properties of `parts`:

- `AnswersMatched`: below the limit of the identifiers an answer is handled for its own
  request; above it, still by a callback of its kind, and none is taken for unknown, until a
  logout has asked what nothing expects; a login's expectation is alone in the list.
- `RosterKept`: the counter is the size of the hash, no item is lost or used after it was
  freed, a whole list replaces what pushes had made, no pointer outlives its contact.
- `PrivRosterKept`: contacts point to live groups; of the groups only that of all contacts
  is ever lost; the two saved versions are never more than one apart.
- `LeavesCleanly`: whoever called `exit_app`, every user made so far is freed before the
  end, once unless the deletion began again; the status is that of the login under test.
- `SendsInOrder`: bytes sent and queued are the bytes accepted; POLLOUT is on while some
  are queued; a full socket kills nothing; nothing is sent past an empty packet.
- `ReadsInOrder`: the parser gets what came, in order; the end comes after all of it; poll
  is deaf only inside a record; descriptors are the connection's or those of hosts
  that were not found.
- `PatternsComputed`: patterns compute what their arithmetic says, and one that breaks off
  spoils those after it.
- `StartAsConfigured`: names are those of the last generator; every admitted name is one
  user; texts are whole and inside their buffers, a random one is one character short; reading
  a file hangs only when it has grown; only raw bytes with debug information, or without any
  bytes, take the process down; the roster comes before the range and the jid.
- `CountsHold`: an echo names who sent and who got it, and is made and measured once; the
  difference of the counters is what is on its way, was lost, or was counted and not sent; a ring's sum is that of its newest
  values; karma is never 0, a moderate reader is never punished, a punished one always is;
  a key gets no more than its points in a window.

The properties of `library`:

- `TablesAreMaps`: a table gives the last value put, whatever collides, is removed, put
  again or moved; expat's tables find each name through their growth.
- `TextsConverted`: what is escaped is unescaped to the same and fits its buffer; base64
  decodes in place; a spool is its strings.
- `AddressesAgree`: an identifier's text and cached text are those of its parts, lists hold
  it once, only a user with a slash makes `jid_append` loop; a query is read into each of its
  names with the last value; presences have one entry each, the primary is the highest, a loop
  over a user returns each of its resources once, and not what the user announced without one.
- `StanzasUnderstood`: stanzas are read as what they were made for; errors are errors;
  answers go back; a registration key is accepted, with its seed, exactly while it has not
  been and fewer than KEYBUF came after it, however often the ring has wrapped.
- `PoolSound`: blocks are aligned, inside their heap and apart; the size is their sum; all is
  freed once, and after the functions that were registered for it.
- `TreesAgree`: links agree in all directions, merging keeps texts, paths find, print and
  copy agree, a copy compares equal to its node exactly if the node has no sibling behind it,
  the iterator returns every tag that stayed.
- `DocumentsDelivered`: a stream's handler hears the root, each element and the end in order,
  and errors only when deserved; a tree is read of whole documents only; a saved file
  is the old or the new one unless `write` took less.
- `XmlAsWritten`: what a scan found stays found when more bytes come, lines and end marks
  are not split, values scan again; declarations follow XML's grammar, and what follows it is
  not refused.

Some of these state a defect of the code as it is, so that a repair is noticed: the
punished stay punished, `xmlnode_file_borked` hangs on a right file, a broken pattern
spoils the next, a random stream is one character short, raw bytes with debug
information crash, a message without a text is counted as sent, a copy may compare
unequal, a loop leaves out the user's own presence, a descriptor is left open for an
unknown host.

More disagreements met on the way have no run: `ev_send_raw_bytes` sets UPF_EXPECT_KILL
("we expect the connection to be closed in a moment", `jab_simul-main.h:220`) on users
without a connection too; `login_timeout` ("longest time to wait for the authorisation",
`jab_simul-main.h:200`) only makes the user warn; `NEVER` ("max long long") is 71
minutes after the epoch, so that the list of repeaters is searched at every turn,
against `jab_simul-user.c:749`; `ppdb_get` returns "each presence xmlnode for the id and
children" (`lib.h:529`), but begins behind the entry of a user (`pproxy.c:192`);
`xmlnode_cmp` "compares a and b for equality" (`lib.h:374`), but walks on to the
siblings of both (`xmlnode.c:749`); `pool_cleanup` is commented as first in, first out
(`pool.c:346`) and puts its function before those registered earlier.

**Bounds.** `MaxPfds` 2 to 8 for 8000: the last slot, recycling and a cut batch all
occur. `Batch` 1, 2 and 3 for the batch of `add_conns` (a multiple, a remainder and
single slots). `MaxPacks` 1 for 10: queues reach, pass and stay above the limit.
`MaxWriter` is the longest queue explored; a handler that would go beyond is not
taken. It is at least `MaxPacks` + 2, so refused writes occur, and at least 3 so that
the logout's three packets fit. Two users are enough for two to compete for a slot and for
one to inherit the other's; the theorems cover any number. In `core_live` the one
user moves between slots and the loop is checked without symmetry, which is unsound
for liveness.

In `Repeater.cfg` two repeaters are enough for either to be the nearer; frequencies are
none, zero, and one with a deviation; `MaxNow` leaves time for two to four activations
after the first. A session needs one repeater to connect, and one to kill before the third uses
it: `RepeaterWalk.cfg` has three, of these kinds only, without limits.

In `Parts.cfg` and `Library.cfg` each constant is the smallest that lets the case of its
part happen, and is commented in its module. `IdLimit` 2 of `MaxTmpid` 4: identifiers
repeat. Two jids in one bucket, whole rosters of up to two items (`MaxRoster`), and tables of one and two buckets. Three versions; three users
and two signals. Packets of 0 to 2 bytes into a socket of 2; records of 1 and 3 into
lines of 2. Patterns of up to five symbols inside the brackets. Karma to 3 and penalty -2 over
six seconds. Heaps of 0, 12 and 24 bytes: without heap, with a rest that the rounding
passes, and with room. Four registration keys go twice round a ring of two. Trees of four nodes, streams of nine tokens in pieces of two,
declarations of ten tokens from four alphabets, texts of five bytes after fourteen beginnings.
The texts of identifiers are made of fourteen `Characters`, those on which jid.c decides and a letter more,
and parts are up to two long for 64 and 255.
`MaxTmpid`, `MaxArrived`, `MaxClock` and the other bounds of histories are named in the modules'
CONSTANTS, and stand as guards in the actions. CHECK_DEADLOCK is FALSE in both: a part
stops when its history is full.

**Fairness.** Weak fairness of `user_do_login`, `user_wait_login` and `stat_printf`:
the loop gives each user its turn and prints at intervals for ever. Weak fairness of
`WriteAll(loc)`: a socket that stays writable with a queue is sent at last (the
server goes on reading); if packets keep arriving the action stays enabled, and the
whole queue goes in one call when the socket does not block. Nothing is assumed of
what the server says, of repeaters, or of the network's errors. For a repeater, weak
fairness of `Turn`: the loop gives the user its turn and walks the list to the end; the
clock need not move. All of this supposes that the system's clock is not set back
(`users_check_timestamp` compares readings of `gettimeofday`), and a build with NCURSES,
as `configure` makes it: without it `stat_printf` is not called and events never start.

## 4. Proofs

All theorems hold for every value of the constants under `SlotConstants` (both
positive) and `SimulatorConstants` (a finite set of users, natural bounds, NULL a
value of its own); those on repeaters under `RepeaterConstants` (at least one repeater,
integers, `HalfSpread` below `Grain` as 1500 is below 10000, `NEVER` before the start).

- `Simulator_proofs`, slots: `SlotsInv` adds to the properties that every slot up to any slot
  handed out is open or free (`NoLostSlot`): without it a new batch, numbered from
  `mpfd`, could repeat a recycled one. From it: `SlotsNeverShared`, `FdsPolled`,
  `CrashMeansFull`, `SlotsNeverLost`, `SlotsTyped`.
- `Simulator_proofs`, users and connections: `Inv` joins the slots' invariant, `TypeOK`, `Linked`,
  `PolloutIffQueued`, `LoggedOnStream`, `RepliesFitState` and `NothingOutlivesConn`.
  None is inductive alone: a handler reaches a user through `conn`, so what it does to
  one keeps the others only while they are linked. The handlers fall into six *kinds*
  of step (`Kill`, `Update` of one connection and its user, `Connect`, `MeetFull`,
  `Expect`, `Quiet`); `KindsInv` shows that each kind keeps `Inv`, and
  `NextKinds` that each handler is of one of the kinds.
  In the second half every step of the simulator is a step of `SlotsSpec` and of
  `Sessions!Spec`, or a stutter; the counters and the queue limit follow.
  `PacketsCounted` is proved by kinds too: a kind changes the queues of one connection,
  and the sum over all of them by what `inQueues` changes (`SumChanged`); `Kill` empties
  the queue that it takes off the sum.
- `Connection_proofs`, repeaters: the invariant adds that a repeater that was called is next due a
  frequency later at least (`NextCallSpaced`) and that a user past CAN_LOGIN has a
  connection. `DeviationLeast` is the arithmetic of the deviation, `WalkKeeps` the step of
  the walk. The theorems hold for any list of any length and a clock without bound:
  `Punctual`, `CountersHold`, `CallsAreSpaced`, `SessionsAreConnected`.

- `User_proofs`, requests: `PendingInv` says why looking up by the identifier alone works: serial
  numbers are unique (`SerialsInv`); an identifier tells the callback, up to the two of
  add and del, and those of a logout's sets that have none (`CallbacksInv`); a login is outstanding only alone (`LoginInv`); fixed
  identifiers are used once in a session and numbers are distinct until one is cut
  (`UniqueInv`). `EveryAnswerExpected` compares cardinalities of sets that change by one element:
  the lemmas on these come first. `PendingAnswers` holds for any base, limit and number of requests.
- `User_proofs`, exit: `ShutdownInv` follows the making of the users (`BeforeInv`: nothing is freed
  while they are made) and the deletion: users before `at` are freed and
  disconnected (`DeletedInv`), and exactly once as long as no call has started again behind
  the first; `StatusInv` keeps the flags with the status. `AllLeave` is for any number of
  users and signals, and for every caller of `exit_app`; a process that crashes (a signal
  before `users[]` is cleared, a failing `poll`) does not get to `exit`, and nothing is said of it.
- `User_proofs`, private roster: `VersionsInv` is the arithmetic of what is on its way (list and number
  alternate, the server is behind by the pairs to come), `GroupsInv` counts group items
  with the one that may be lost. `PrivRosterSafe` is for any contacts, groups and versions.
- `User_proofs`, public roster: the hash is a table of `Tables_proofs`, whose lemmas are cited through
  `P == INSTANCE Tables_proofs` with the jids as keys and the items as values. `RosterIs` ties
  the three parts together: the table finds each live item under the jid inside it, and finds
  nothing else; the count is that of the keys found; a pointer leads to the private contact of its jid.
  So there are no more live items than jids, and a new one can be allocated (`FreshItem`). The old item of
  a jid is taken out (`TakenOut`) before the new one is put in (`PutIn`): that keeps one item
  to a jid, and the count right. After n items of a list the table has the keys on which they
  had the last word (`KeysLeft`), which gives `FullLoadReplaces`. `RosterInv` adds that the private
  contacts come once a connection, before which no item points anywhere. `RosterAssumption` asks
  for a table size that is no smaller than the longest roster, since `fit_prime` reads beyond
  its primes for more than 2147483399 items. `RosterStaysKept` is for rosters of any length.
- `User_proofs`, start: `ConfigInv` says that there are no users before all generators were read, and what
  names and users are. A name is renewed by one generator more as `Generate` does it (`NameRenewed`,
  with the greatest of the generators that cover it); a group's pass over the names meets each
  admitted one once (`AdmittedIs`), so that users and admitting groups grow by one together
  (`OneUserMore`, `OneGroupMore`); `ReverseConcat` is the list of the users. For the events, `PayloadInv` says that what
  was made is made of the event's data, and `BodyIs` what that is, kind by kind.
  `StartStaysAsConfigured` is for any generators, groups, sizes of the arrays and lengths of texts and
  files; `ConfigAssumption` and `PayloadAssumption` only say that these are numbers.
- `Connection_proofs`, bytes: in `QueueInv` what was sent and the flattened queue are what was accepted
  (`BytesInOrder`), with what ended the connection; in `StreamInv` what was eaten, what is in
  OpenSSL and what is whole in the kernel are what came, and the rest of a record is shorter than
  a record (why a quiet socket that was not read to its end is inside one). `WriterSends` and
  `ReaderReads` hold for packets, records, lines and buffers of any size. They stand on
  `DataLemmas`: cutting a packet in two, or taking the first one off, keeps the flattened queue.
- `Counts_proofs`: three invariants side by side, since the three parts share no state.
  `EchoInv`: every message on its way has a serial number of its own, was echoed once if it is
  an echo, was not measured, and has the names that `handle_message` looks for; the
  counters differ by the cardinality of these. It supposes that no user is called
  Administrator. `RingOK`: the j-th newest value is j places behind `stat_pos`, so what
  `add_stat` overwrites is the oldest, or 0 while the ring is not full, and the sum is that of the
  newest (`WindowMoves`); `TimerOK` with the arithmetic of two cuts (`CutsLose`). `KarmaOK`:
  who is punished has read more than the smallest budget, and is below the last bad karma,
  which is why one step up never absolves (`KarmaAssumption`: karma rises by 1 and the
  penalty is below -1, as `karma_new` makes every karma); `RateOK`: nothing is let through that
  was not counted. `TrafficIsCounted` is for any number of messages, size of ring, interval,
  budget and rate.
- `Library_proofs`, pools: `HeapsInv` (a heap is used up to the end of its last block), and
  `ListInv` (the list of cleanups holds each heap, raw block and function once, functions first).
  `PoolMemory` proves `BlocksApart` and `FreedOnce`; `PoolIsSound` adds that `pool_size` is the sum of the
  heaps and raw blocks, for any size of heap and request.
- `Library_proofs`, stanzas: `StanzaInv` says that the packet is what `jpacket_reset` makes of the stanza,
  perhaps with its subtype filled in, and that a stanza of jutil still has the form
  it was built in; hiding `type='available'` changes nothing of that (`HiddenReadsSame`).
  `KeyInv` says what each slot holds: the key whose number is the greatest of those that
  came to it (`Number`), or nothing before the first round. The numbers of the slots are the
  last Keybuf ones, each once (`NumbersAre`), so the slots that accept are the newest keys that
  were not accepted, in any round (`KeysAccounted`). `PacketsAssumption`: the missing attribute is no type, and a hash is not that of a
  blank slot. `PacketsAreUnderstood` is for any addresses, seeds and number of slots.
- `Library_proofs`, texts: `TextInv` only types the text and says what the spool holds; the work is in
  the conversions. `EscapedFits` compares the sums of two passes symbol by symbol. For base 64,
  `DigitsAre` says which bits are in the i-th digit that a peer writes, `DecodedSoFar` what
  `str_b64decode` has put together after k of them, and `DigitDecoded` is one round of its loop;
  the loop also shows that the byte written is never ahead of the digit read. `TextsComeBack`
  is for texts of any length and one other seven-bit character anywhere among the digits; `TextAssumption`
  says that octets are bytes and that a letter is no whole entity.
- `Library_proofs`, documents: `StreamIs` relates what xstream.c and expat hold to the whole stream
  eaten so far, token by token. While nothing has gone wrong (`Good`) both levels are that of
  the last token, what is in hand is the element that is open, from its tag to that token, and
  those that are closed were given away, the n-th by the call behind the n-th; that an element
  once closed stays the n-th, and that no two are open, is arithmetic of the levels
  (`ElementsGrow`, `NumbersStay`, `OpenedIsLast`). How the stream was cut does not matter
  because a piece is its tokens one by one (`FedKept`); only the check of the size comes
  at its end (`Settled`). For files, `FileInv` ties the tree and the level to what was read of the file
  (`NestedJoins`: the level behind two pieces is that of the second from the level behind the first), and what is
  in the temporary file to the tree that is being saved. `DocumentsStayDelivered` is for any bounds
  of depth and size, any buffer, and any documents.
- `Tables_proofs`, xhash.c: `IsTable` says that every chain has its head, that the keys in it are of its
  bucket and each in one node, and that it has no more nodes than the bucket has keys (one,
  the head, where it has none), since a freed node is reused before one is linked. `xhash_put` writes over a
  node (`NodeReplaced`) or links one behind the head (`NodeLinked`), and then what is
  found under other keys stays (`Differs`). The walk is a flattened sequence of chains without
  their dead nodes, in which a key comes once (`Joined`), so it has as many entries as there are
  keys with a value. `xhash_resize` is that walk, copied node by node: the copies
  made so far hold exactly the entries walked so far. `HashIsMap` is for any hash function.
- `Tables_proofs`, hashtable.c: in `IsNames` no name is there twice and no slot on the way from a
  name's hash down to the name is free; `RoundTwice` is the arithmetic of that way round the
  end of the table. A table at most half full has a free slot (`FreeLeft`), so `lookup`'s loop
  ends, with the name or where the name may be written (`ProbeIs`); the larger table gets the
  old one's names one by one (`RehashIs`). The counters and sizes are unbounded in
  the proof, as the code's are but for the width of `size_t`.
- `Identities_proofs`, jid.c: `AddressInv` says that the identifier in hand is `Clean` (no part is empty
  or too long, the server is lower-case and of the characters that `jid_safe` allows, the user
  has none of those it refuses), that a cached text is that of its parts now, that the list holds
  each once, and that `jid_append` only goes on for ever for a user with a slash. The rest is about
  operators. A text cut at the first of a character that its first part has not gives back both parts
  (`Parted`), so the text of a clean identifier is parsed into the same parts (`ReadBack`).
  `jid_xres` is a loop of turns, each of which cuts off one attribute and leaves a shorter text, so
  as many turns as there are characters suffice (`TurnsRun`); a query as it is written
  gives its pairs (`QueryReads`), which are put one after the other, each over the one of its
  name (`PairIsPut`). `AddressesAssumption`: the lengths are positive, the letters of the
  code are among the `Characters`, a missing part is no text.
- `Identities_proofs`, pproxy.c: in `DbInv` an identifier has one entry (`Once`), the entry of a user
  points to the newest of its resources and each of these to the one made before it (`Linked`), except for
  users with a slash, which `jid_cmp` never finds again. So a walk along these pointers goes down in number and
  meets every resource once (`ChainRuns`, `WalkMeets`); the primary presence is the highest on
  that walk (`HighestIs`). `LoopInv` is on the static variable of `ppdb_get`: what an undisturbed
  loop has returned are the resources from where it is upwards, each once.
  `AddressesStayAgreed` is for any texts, lengths, priorities and numbers of entries.

`DataLemmas` has the inductions. The library's induction theorems take an operator as
parameter, but that a well-founded relation has minimal elements is a statement on sets,
and from it follow induction on numbers and on the length of a sequence in the form
"a set that has 0 (or the empty sequence) and with each one the next has all"
(`CountingUp`, `SmallerFirst`, `GrowingSequence`). With these the folds of the community
modules get their equations: `SumFunctionOnSet` of one element more or less, of the same values,
of one value changed; `FlattenSeq` of a sequence that grows at either end, or whose members have no
key in common; and the existence of recursive functions on numbers and of the steps of a fold (`StepsExist`).

Only model-checked: liveness (`core_live`, `repeater_walk`), which these provers do not do;
everything in `XmlTree`, `NamePattern`, `XmlTok` and `XmlScan`, which are written with RECURSIVE
operators, where the SMT solver is not available: the runs' `TreesAgree`, `PatternsComputed` and
`XmlAsWritten`. `XmlProlog` states what it promises in `XmlAsWritten` with the two others, and is checked only.

## 5. Not modelled

- *Encodings of expat* (`xmltok.c`, `xmltok_ns.c`, the tables): conversions between UTF-8, UTF-16 and
  Latin-1, byte by byte from tables; `XmlTok` keeps the kinds of bytes that the scans tell
  apart. Name spaces (`addBinding` in `xmlparse.c`) are never switched on: no code calls
  `XML_ParserCreateNS`.
- *The rest of `xmlparse.c`*: its buffers, string pools and the content's processors only hand
  the tokens of `XmlTok` to the handlers that `XStream` and `XmlFile` take from there; external
  and parameter entities have no handler in this program.
- *`snprintf.c`, `sha.c`*: formatting of numbers and a digest, functions of their
  arguments. *`socket.c`*: system calls that jab_simul replaces by its own.
- *OpenSSL*: its start, certificates and handshakes; only its reads and writes have results
  that the program tells apart.
- *The display* (`stat_printf`, curses, `pool_stat`), the log files and the command
  line: output and input without an effect on what is modelled.
- *Headers* (`lib.h`, `xmlparse.h`, ...): declarations; the constants and structures in use
  are mapped where they are used.
- *The round of the loop with everything in it*: `Simulator` has the free choice of events,
  `Repeater` the schedule of one user; their product with the bytes of `Writer` and
  `Reader` is out of TLC's reach. What the parts rely on of each other is in the environment
  that each part's module describes.
