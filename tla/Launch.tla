------------------------------- MODULE Launch -------------------------------
(***************************************************************************)
(* daemon.c, nsstc.c, nsst.c: the daemon that opens a window for each      *)
(* client and the clients, that send a command line over a socket, one     *)
(* message for each option and argument, and may start the daemon.         *)
(*                                                                         *)
(* A client connects once, so its connection has its name. The socket is   *)
(* of type SOCK_SEQPACKET: messages are kept apart and in order, and those *)
(* of a client that has gone are still read.                               *)
(***************************************************************************)
EXTENDS Integers, Sequences, SequencesExt, FiniteSets

CONSTANTS
    Sessions,           \* clients that may run at the same time, and the daemon that already does
    Kills               \* processes may be killed

(* A client: demand is -d, ends what it does with its connection, "open",  *)
(* "usage", "version" or "quit", items its options and arguments           *)

(* l: path is the daemon that the socket file is of, or 0. The state of    *)
(* daemons and clients is their place in the code; queue has what a client *)
(* sent, accepted the one it is accepted by, launch the options and        *)
(* arguments the daemon holds; windows are those opened. refused are those *)
(* that could not connect while a daemon listened, told those answered.    *)
VARIABLE l
Ds(v) == DOMAIN v.daemon
Cs(v) == DOMAIN v.client

None == [held |-> FALSE, opts |-> <<>>, args |-> <<>>]
Init == \E s \in Sessions :
    l = [s |-> s, path |-> IF s.running THEN 1 ELSE 0,
         daemon |-> [d \in 1..s.daemons |-> IF s.running /\ d = 1 THEN "up" ELSE "none"],
         client |-> [c \in DOMAIN s.clients |-> "start"], sent |-> [c \in DOMAIN s.clients |-> 0],
         queue |-> [c \in DOMAIN s.clients |-> <<>>], at |-> [c \in DOMAIN s.clients |-> 0],
         launch |-> [c \in DOMAIN s.clients |-> None], waiting |-> <<>>,
         windows |-> <<>>, refused |-> {}, told |-> {}]

Who(c) == l.s.clients[c]

----------------------------------------------------------------------------
(* nsstc: main() *)

(* A daemon that was told to exit still listens until it does *)
Up(d) == d # 0 /\ l.daemon[d] \in {"up", "stopping"}
(* try_connect(): the connection waits until it is accepted *)
Connected(c, v) == [v EXCEPT !.client[c] = "sending", !.at[c] = v.path, !.waiting = Append(@, c)]
try_connect(c, from, otherwise) ==
    /\ l.client[c] = from
    /\ l' = IF Up(l.path) THEN Connected(c, l)
            ELSE [l EXCEPT !.client[c] = otherwise,
                           !.refused = IF otherwise = "failed" /\ \E d \in Ds(l) : Up(d) THEN @ \cup {c} ELSE @]

(* do_fork(): the client waits for the file, for a time *)
Unused == {d \in Ds(l) : l.daemon[d] = "none"}
do_fork(c) ==
    /\ l.client[c] = "fork"
    /\ \E d \in Unused : (\A k \in Unused : d <= k) /\ l' = [l EXCEPT !.client[c] = "wait", !.daemon[d] = "forked"]
WaitForSocket(c) == l.client[c] = "wait" /\ l' = [l EXCEPT !.client[c] = "again"]

(* The messages of parse_args() for options and arguments *)
send_char(kind) == [kind |-> kind, value |-> ""]
send_header == send_char("SOH")
send_opt(value) == [kind |-> "GS", value |-> value]
send_short_opt(value) == [kind |-> "FS", value |-> value]
send_arg(value) == [kind |-> "RS", value |-> value]
Message(item) ==
    CASE item.kind = "long" -> send_opt(item.value)
      [] item.kind = "short" -> send_short_opt(item.value)
      [] item.kind = "arg" -> send_arg(item.value)
End(ends) == [open |-> "ETX", usage |-> "NAK", version |-> "ENQ"][ends]
parse_args(client) ==
    <<send_header>> \o [k \in DOMAIN client.items |-> Message(client.items[k])] \o <<send_char(End(client.ends))>>
Script(client) == IF client.ends = "quit" THEN <<send_char("EM")>> ELSE parse_args(client)
Gone(v, c) == v.at[c] = -1
(* A connection that the daemon has closed ends the client (SIGPIPE) *)
Send(c) ==
    /\ l.client[c] = "sending" /\ ~Gone(l, c)
    /\ LET k == l.sent[c] + 1
           m == Script(Who(c))[k]
       IN  l' = [l EXCEPT !.sent[c] = k, !.queue[c] = Append(@, m),
                          !.client[c] = IF k < Len(Script(Who(c))) THEN @ ELSE IF m.kind \in {"NAK", "ENQ"} THEN "reading" ELSE "done"]
Broken(c) == l.client[c] = "sending" /\ Gone(l, c) /\ l' = [l EXCEPT !.client[c] = "killed"]
(* recv_response(): until the daemon closes the connection *)
recv_response(c) == l.client[c] = "reading" /\ Gone(l, c) /\ l' = [l EXCEPT !.client[c] = "done"]

Connect(c) == try_connect(c, "start", IF Who(c).demand THEN "fork" ELSE "failed")
ConnectAgain(c) == try_connect(c, "again", "failed")
KillClient(c) == Kills /\ l.client[c] \in {"sending", "reading"} /\ l' = [l EXCEPT !.client[c] = "killed"]

----------------------------------------------------------------------------
(* nsst: init_daemon(). A name that is taken, by whatever file, is an      *)
(* error, and the program ends by way of free_daemon().                    *)
Bind(d) ==
    /\ l.daemon[d] = "forked"
    /\ l' = IF l.path = 0 THEN [l EXCEPT !.path = d, !.daemon[d] = "bound"] ELSE [l EXCEPT !.daemon[d] = "ending"]
Listen(d) == l.daemon[d] = "bound" /\ l' = [l EXCEPT !.daemon[d] = "up"]

(* free_daemon() closes its connections, also those that wait, and removes *)
(* the file of that name.                                                  *)
Closed(v, d) == [c \in Cs(v) |-> IF v.at[c] = d THEN -1 ELSE v.at[c]]
Dropped(v, d) == [c \in Cs(v) |-> IF v.at[c] = d THEN None ELSE v.launch[c]]
Over(v, d) ==
    [v EXCEPT !.daemon[d] = "gone", !.at = Closed(v, d), !.launch = Dropped(v, d)]
free_daemon(d) == l.daemon[d] \in {"ending", "stopping"} /\ l' = [Over(l, d) EXCEPT !.path = 0]
handle_term(d) == Kills /\ Up(d) /\ l' = [Over(l, d) EXCEPT !.path = 0]
KillDaemon(d) == Kills /\ l.daemon[d] \in {"bound", "up"} /\ l' = Over(l, d)

(* accept_pending_launch() *)
accept(d) ==
    /\ Up(d)
    /\ \E k \in DOMAIN l.waiting :
        /\ l.at[l.waiting[k]] = d /\ \A j \in 1..k - 1 : l.at[l.waiting[j]] # d
        /\ l' = [l EXCEPT !.launch[l.waiting[k]] = [None EXCEPT !.held = TRUE], !.waiting = RemoveAt(@, k)]

free_pending_launch(v, c) == [v EXCEPT !.launch[c] = None, !.at[c] = -1]

(* Mutant: the launch is kept after its window was opened *)
Opened_kept(v, c) == [v EXCEPT !.windows = Append(@, [client |-> c, opts |-> v.launch[c].opts, args |-> v.launch[c].args])]
Opened(v, c) ==
    free_pending_launch([v EXCEPT !.windows = Append(@, [client |-> c, opts |-> v.launch[c].opts, args |-> v.launch[c].args])], c)

(* append_pending_launch(): an argument without a byte is no argument, and *)
(* the value of a short option keeps its "="                               *)
Taken(v, c, m) ==
    CASE m.kind = "SOH" -> v
      [] m.kind = "GS" -> [v EXCEPT !.launch[c].opts = Append(@, [value |-> m.value, equals |-> FALSE])]
      [] m.kind = "FS" -> [v EXCEPT !.launch[c].opts = Append(@, [value |-> m.value, equals |-> TRUE])]
      [] m.kind = "RS" -> IF m.value = "" THEN v ELSE [v EXCEPT !.launch[c].args = Append(@, m.value)]
      [] m.kind = "ETX" -> Opened(v, c)
      [] m.kind \in {"NAK", "ENQ"} -> free_pending_launch([v EXCEPT !.told = IF v.client[c] = "killed" THEN @ ELSE @ \cup {c}], c)
      [] OTHER -> free_pending_launch([v EXCEPT !.daemon[v.at[c]] = "stopping"], c)
handle_launch(c) ==
    /\ l.launch[c].held /\ Up(l.at[c]) /\ l.queue[c] # <<>>
    /\ l' = Taken([l EXCEPT !.queue[c] = Tail(@)], c, Head(l.queue[c]))

----------------------------------------------------------------------------
Client(Step(_)) == \E c \in Cs(l) : Step(c)
Daemon(Step(_)) == \E d \in Ds(l) : Step(d)
Next ==
    \/ Client(Connect) \/ Client(ConnectAgain) \/ Client(do_fork) \/ Client(WaitForSocket)
    \/ Client(Send) \/ Client(Broken) \/ Client(recv_response) \/ Client(KillClient) \/ Client(handle_launch)
    \/ Daemon(Bind) \/ Daemon(Listen) \/ Daemon(accept) \/ Daemon(free_daemon) \/ Daemon(handle_term) \/ Daemon(KillDaemon)
Spec == Init /\ [][Next]_l

----------------------------------------------------------------------------
Windows(c) == {k \in DOMAIN l.windows : l.windows[k].client = c}

(* The first n items: those of a kind, and the arguments and options in    *)
(* their order. Arguments that are empty are dropped, and the values of    *)
(* short options keep their "=": see the README.                           *)
Of(items, kinds, n) == {k \in 1..n : items[k].kind \in kinds /\ (items[k].kind = "arg" => items[k].value # "")}
Arguments(items, n) == Of(items, {"arg"}, n)
Options(items, n) == Of(items, {"long", "short"}, n)
HasArguments(args, items, n) ==
    /\ Len(args) = Cardinality(Arguments(items, n))
    /\ \A k \in Arguments(items, n) : args[Cardinality(Arguments(items, k))] = items[k].value
HasOptions(opts, items, n) ==
    /\ Len(opts) = Cardinality(Options(items, n))
    /\ \A k \in Options(items, n) :
        opts[Cardinality(Options(items, k))] = [value |-> items[k].value, equals |-> items[k].kind = "short"]

(* A window has all the options and arguments of one client, in order, a   *)
(* client has one window at most, and it did send the end of its command   *)
(* line: whatever the steps of clients are between, and whoever is killed. *)
WholeCommand ==
    \A c \in Cs(l) :
        /\ Cardinality(Windows(c)) <= 1
        /\ \A k \in Windows(c) :
            /\ Who(c).ends = "open" /\ l.sent[c] = Len(Script(Who(c)))
            /\ HasArguments(l.windows[k].args, Who(c).items, Len(Who(c).items))
            /\ HasOptions(l.windows[k].opts, Who(c).items, Len(Who(c).items))

(* When a client has sent all it does its daemon holds nothing of it once  *)
(* that was read, so no client waits for ever, and has opened its window   *)
(* or given its answer, unless the daemon has gone. What clients that were *)
(* killed sent is held for ever: see the README.                           *)
Settled ==
    \A c \in Cs(l) : l.client[c] \in {"done", "reading"} /\ l.queue[c] = <<>> =>
        /\ ~l.launch[c].held
        /\ \/ Windows(c) # {} \/ c \in l.told \/ Who(c).ends = "quit"
           \/ \E d \in Ds(l) : l.daemon[d] \in {"gone", "stopping"}

(* Where one daemon is started at most the one that runs has the socket.   *)
Reachable ==
    Cardinality({d \in Ds(l) : l.daemon[d] # "none"}) = 1 => \A d \in Ds(l) : Up(d) => l.path = d

(* A client that may start the daemon (-d) ends with its command sent when *)
(* a daemon listens: "Daemon can be auto-launched by nsstc on demand".     *)
OnDemand == \A c \in l.refused : ~Who(c).demand
=============================================================================
