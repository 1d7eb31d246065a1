--------------------------- MODULE FrontendProofs ---------------------------
(***************************************************************************)
(* Windows and the daemon, of the parts that MCFrontend checks. What       *)
(* clients tell daemons to open, with any clients and daemons. And what a  *)
(* window shows and hides for a time, with the titles it saves, for any    *)
(* configurations that WindowsAssumption has and any titles.               *)
(***************************************************************************)
EXTENDS MCFrontend, FiniteSetTheorems, SequenceTheorems, WellFoundedInduction, TLAPS

(* What the modules below MCFrontend have of the libraries is the same. *)
LEMMA SameCount == \A S : Daemon!Cardinality(S) = Cardinality(S)
BY Zenon DEF Daemon!Cardinality, Cardinality

(* The same of removing an element. *)
LEMMA SameRemove == \A s, k : Daemon!RemoveAt(s, k) = RemoveAt(s, k)
BY Zenon DEF Daemon!RemoveAt, RemoveAt

Texts == STRING \cup {""}
AnyMessage == [kind : {"SOH", "GS", "FS", "RS", "ETX", "NAK", "ENQ", "EM"}, value : Texts]
AnyOption == [value : Texts, equals : BOOLEAN]
AnyPending == [held : BOOLEAN, opts : Seq(AnyOption), args : Seq(Texts)]
DaemonPlaces == {"none", "forked", "bound", "up", "stopping", "ending", "gone"}
NotSending == {"start", "fork", "wait", "again"}
ClientPlaces == NotSending \cup {"failed", "sending", "reading", "done", "killed"}
LaunchTypes(v) ==
    LET clients == DOMAIN v.s.clients
    IN  v \in [s : Launches, path : 0..v.s.daemons, daemon : [1..v.s.daemons -> DaemonPlaces],
               client : [clients -> ClientPlaces], sent : [clients -> Nat], queue : [clients -> Seq(AnyMessage)],
               at : [clients -> -1..v.s.daemons], launch : [clients -> AnyPending], waiting : Seq(clients),
               windows : Seq([client : clients, opts : Seq(AnyOption), args : Seq(Texts)]),
               refused : SUBSET clients, told : SUBSET clients]

(* Of a client: who it is, its place, how much it has sent, what is not    *)
(* read of that, its daemon, its launch, whether its connection waits,     *)
(* whether its window was opened, and whether it was answered.             *)
ItemsRead(n) == IF n = 0 THEN 0 ELSE n - 1
ClientRight(who, place, sent, queue, at, launch, waits, opened, told) ==
    LET script == Daemon!Script(who)
        read == sent - Len(queue)
    IN  /\ sent <= Len(script) /\ Len(queue) <= sent
        /\ \A i \in 1..Len(queue) : queue[i] = script[read + i]
        /\ place \in NotSending => sent = 0 /\ ~ waits /\ ~ launch.held /\ ~ opened
        /\ place \in {"reading", "done"} => sent = Len(script)
        /\ place = "sending" => sent < Len(script)
        /\ waits => read = 0 /\ ~ launch.held /\ ~ opened
        /\ launch.held =>
            /\ at > 0 /\ ~ opened
            /\ who.ends # "quit" =>
                /\ Daemon!HasArguments(launch.args, who.items, ItemsRead(read))
                /\ Daemon!HasOptions(launch.opts, who.items, ItemsRead(read))
        /\ read = Len(script) => ~ launch.held /\ (opened \/ told \/ who.ends = "quit" \/ place = "killed")

Waits(v, c) == \E k \in DOMAIN v.waiting : v.waiting[k] = c
HasWindow(v, c) == \E k \in DOMAIN v.windows : v.windows[k].client = c
EachClient(v, c) ==
    ClientRight(v.s.clients[c], v.client[c], v.sent[c], v.queue[c], v.at[c], v.launch[c], Waits(v, c),
                HasWindow(v, c), c \in v.told)
Distinct(v) == \A j, k \in DOMAIN v.waiting : v.waiting[j] = v.waiting[k] => j = k

WindowRight(who, sent, window) ==
    /\ who.ends = "open" /\ sent = Len(Daemon!Script(who))
    /\ Daemon!HasArguments(window.args, who.items, Len(who.items))
    /\ Daemon!HasOptions(window.opts, who.items, Len(who.items))
EachWindow(v) ==
    /\ \A k \in DOMAIN v.windows :
        LET c == v.windows[k].client IN WindowRight(v.s.clients[c], v.sent[c], v.windows[k])
    /\ \A j, k \in DOMAIN v.windows : v.windows[j].client = v.windows[k].client => j = k

(* The socket is of the daemon that has it, or there are others. *)
Sockets(v) ==
    /\ v.path # 0 => v.daemon[v.path] \notin {"none", "forked"}
    /\ \A d \in Daemon!Ds(v) : v.daemon[d] \in {"bound", "up", "stopping"} =>
        v.path = d \/ \E e \in Daemon!Ds(v) \ {d} : v.daemon[e] # "none"

LaunchInv(v) ==
    /\ LaunchTypes(v) /\ (\A c \in Daemon!Cs(v) : EachClient(v, c)) /\ Distinct(v) /\ EachWindow(v) /\ Sockets(v)

----------------------------------------------------------------------------
Fits(items, kinds, k) == items[k].kind \in kinds /\ (items[k].kind = "arg" => items[k].value # "")

(* What is counted of one item more. *)
LEMMA OfNext ==
    ASSUME NEW items, NEW kinds, NEW n \in Nat
    PROVE  /\ Cardinality(Daemon!Of(items, kinds, n)) \in Nat
           /\ Daemon!Of(items, kinds, 0) = {} /\ Cardinality(Daemon!Of(items, kinds, 0)) = 0
           /\ Fits(items, kinds, n + 1) =>
                /\ Daemon!Of(items, kinds, n + 1) = Daemon!Of(items, kinds, n) \cup {n + 1}
                /\ Cardinality(Daemon!Of(items, kinds, n + 1)) = Cardinality(Daemon!Of(items, kinds, n)) + 1
           /\ ~ Fits(items, kinds, n + 1) => Daemon!Of(items, kinds, n + 1) = Daemon!Of(items, kinds, n)
           /\ \A k \in Daemon!Of(items, kinds, n) :
                Cardinality(Daemon!Of(items, kinds, k)) \in 1..Cardinality(Daemon!Of(items, kinds, n))
<1> DEFINE fits(k) == Fits(items, kinds, k)
           of(k) == Daemon!Of(items, kinds, k)
<1>0. \A k : of(k) = {j \in 1..k : fits(j)}
  BY DEF Daemon!Of, Fits
<1> HIDE DEF of, fits
<1>1. \A k \in Nat : IsFiniteSet(of(k)) /\ Cardinality(of(k)) \in Nat
  <2> TAKE k \in Nat
  <2>1. IsFiniteSet(1..k)
    BY FS_Interval
  <2>2. of(k) \subseteq 1..k
    BY <1>0
  <2> QED BY <2>1, <2>2, FS_Subset, FS_CardinalityType
<1>2. of(0) = {} /\ Cardinality(of(0)) = 0
  <2>1. of(0) = {}
    BY <1>0
  <2> QED BY <2>1, FS_EmptySet
<1>3. ASSUME fits(n + 1)
      PROVE  of(n + 1) = of(n) \cup {n + 1} /\ Cardinality(of(n + 1)) = Cardinality(of(n)) + 1
  <2>1. of(n + 1) = of(n) \cup {n + 1}
    BY <1>0, <1>3
  <2>2. n + 1 \notin of(n)
    BY <1>0
  <2> QED BY <1>1, <2>1, <2>2, FS_AddElement
<1>4. ASSUME ~ fits(n + 1)
      PROVE  of(n + 1) = of(n)
  BY <1>0, <1>4
<1>5. ASSUME NEW k \in of(n)
      PROVE  Cardinality(of(k)) \in 1..Cardinality(of(n))
  <2>1. k \in Nat /\ k \in of(k) /\ of(k) \subseteq of(n)
    BY <1>0, <1>5
  <2>2. Cardinality(of(k)) <= Cardinality(of(n)) /\ Cardinality(of(k)) # 0
    BY <1>1, <2>1, FS_Subset, FS_EmptySet
  <2> QED BY <1>1, <2>1, <2>2
<1> QED BY <1>1, <1>2, <1>3, <1>4, <1>5 DEF of, fits

(* Nothing is had of no items. *)
LEMMA HasNone ==
    ASSUME NEW items \in Seq(AnyItem)
    PROVE  Daemon!HasArguments(<<>>, items, 0) /\ Daemon!HasOptions(<<>>, items, 0)
BY OfNext, SameCount DEF Daemon!HasArguments, Daemon!HasOptions, Daemon!Arguments, Daemon!Options

(* One item more. *)
LEMMA HasNextArgument ==
    ASSUME NEW items, NEW n \in Nat, NEW args \in Seq(Texts), Daemon!HasArguments(args, items, n),
           items[n + 1] \in AnyItem
    PROVE  IF items[n + 1].kind = "arg" /\ items[n + 1].value # ""
           THEN Daemon!HasArguments(Append(args, items[n + 1].value), items, n + 1)
           ELSE Daemon!HasArguments(args, items, n + 1)
<1> DEFINE count(k) == Cardinality(Daemon!Arguments(items, k))
           m == n + 1
           text(k) == items[k].value
<1>1. text(m) \in Texts
  BY DEF AnyItem, Texts
<1>2. /\ count(n) \in Nat /\ \A k \in Daemon!Arguments(items, n) : count(k) \in 1..count(n)
  BY OfNext DEF Daemon!Arguments
<1>3. Len(args) = count(n) /\ \A k \in Daemon!Arguments(items, n) : args[count(k)] = text(k)
  BY SameCount DEF Daemon!HasArguments
<1>4. CASE items[m].kind = "arg" /\ items[m].value # ""
  <2> DEFINE new == Append(args, text(m))
  <2>1. Fits(items, {"arg"}, m)
    BY <1>4 DEF Fits
  <2>2. Daemon!Arguments(items, m) = Daemon!Arguments(items, n) \cup {m} /\ count(m) = count(n) + 1
    BY <2>1, OfNext DEF Daemon!Arguments
  <2> HIDE DEF text, count
  <2>3. Len(new) = count(m) /\ new[count(m)] = text(m)
    BY <1>1, <1>2, <1>3, <2>2
  <2>4. \A k \in Daemon!Arguments(items, n) : new[count(k)] = text(k)
    BY <1>1, <1>2, <1>3
  <2> HIDE DEF new
  <2>5. Daemon!HasArguments(new, items, m)
    BY <2>2, <2>3, <2>4, SameCount DEF Daemon!HasArguments, text, count
  <2> QED BY <1>4, <2>5 DEF new, text
<1>5. CASE ~ (items[m].kind = "arg" /\ items[m].value # "")
  <2>1. ~ Fits(items, {"arg"}, m)
    BY <1>5 DEF Fits
  <2>2. Daemon!Arguments(items, m) = Daemon!Arguments(items, n)
    BY <2>1, OfNext DEF Daemon!Arguments
  <2> QED BY <1>5, <2>2 DEF Daemon!HasArguments
<1> QED BY <1>4, <1>5

(* The same of the options. *)
LEMMA HasNextOption ==
    ASSUME NEW items, NEW n \in Nat, NEW opts \in Seq(AnyOption), Daemon!HasOptions(opts, items, n),
           items[n + 1] \in AnyItem
    PROVE  IF items[n + 1].kind = "arg"
           THEN Daemon!HasOptions(opts, items, n + 1)
           ELSE Daemon!HasOptions(Append(opts, [value |-> items[n + 1].value,
                                                equals |-> items[n + 1].kind = "short"]), items, n + 1)
<1> DEFINE count(k) == Cardinality(Daemon!Options(items, k))
           m == n + 1
           as(k) == [value |-> items[k].value, equals |-> items[k].kind = "short"]
<1>1. as(m) \in AnyOption
  <2>1. (items[m].kind = "short") \in BOOLEAN
    BY Zenon
  <2>2. items[m].value \in Texts
    BY DEF AnyItem, Texts
  <2> QED BY <2>1, <2>2, Zenon DEF AnyOption
<1>2. /\ count(n) \in Nat /\ \A k \in Daemon!Options(items, n) : count(k) \in 1..count(n)
  BY OfNext DEF Daemon!Options
<1>3. Len(opts) = count(n) /\ \A k \in Daemon!Options(items, n) : opts[count(k)] = as(k)
  BY SameCount DEF Daemon!HasOptions
<1>4. CASE items[m].kind # "arg"
  <2> DEFINE new == Append(opts, as(m))
  <2>1. Fits(items, {"long", "short"}, m)
    BY <1>4 DEF Fits, AnyItem
  <2>2. Daemon!Options(items, m) = Daemon!Options(items, n) \cup {m} /\ count(m) = count(n) + 1
    BY <2>1, OfNext DEF Daemon!Options
  <2> HIDE DEF as, count
  <2>3. Len(new) = count(m) /\ new[count(m)] = as(m)
    BY <1>1, <1>2, <1>3, <2>2
  <2>4. \A k \in Daemon!Options(items, n) : new[count(k)] = as(k)
    BY <1>1, <1>2, <1>3
  <2> HIDE DEF new
  <2>5. Daemon!HasOptions(new, items, m)
    BY <2>2, <2>3, <2>4, SameCount DEF Daemon!HasOptions, as, count
  <2> QED BY <1>4, <2>5 DEF new, as
<1>5. CASE items[m].kind = "arg"
  <2>1. ~ Fits(items, {"long", "short"}, m)
    BY <1>5 DEF Fits
  <2>2. Daemon!Options(items, m) = Daemon!Options(items, n)
    BY <2>1, OfNext DEF Daemon!Options
  <2> QED BY <1>5, <2>2 DEF Daemon!HasOptions
<1> QED BY <1>4, <1>5

(* What a client sends. *)
LEMMA ScriptDoes ==
    ASSUME NEW who \in AnyClient
    PROVE  LET script == Daemon!Script(who)
               n == Len(who.items)
           IN  /\ script \in Seq(AnyMessage) /\ n \in Nat /\ who.items \in Seq(AnyItem)
               /\ who.ends = "quit" => Len(script) = 1 /\ script[1].kind = "EM"
               /\ who.ends # "quit" =>
                   /\ Len(script) = n + 2 /\ script[1].kind = "SOH" /\ script[n + 2].kind = Daemon!End(who.ends)
                   /\ \A j \in 1..n : script[j + 1] = Daemon!Message(who.items[j])
<1> DEFINE items == who.items
           n == Len(items)
           mid == [k \in DOMAIN items |-> Daemon!Message(items[k])]
<1>1. items \in Seq(AnyItem) /\ n \in Nat /\ who.ends \in {"open", "usage", "version", "quit"}
  BY DEF AnyClient
<1>2. \A k \in 1..n : Daemon!Message(items[k]) \in AnyMessage
  <2> TAKE k \in 1..n
  <2>1. items[k] \in AnyItem
    BY <1>1
  <2> QED BY <2>1 DEF Daemon!Message, Daemon!send_opt, Daemon!send_short_opt, Daemon!send_arg, AnyMessage,
      AnyItem, Texts
<1>3. mid \in Seq(AnyMessage) /\ Len(mid) = n /\ \A k \in 1..n : mid[k] = Daemon!Message(items[k])
  BY <1>1, <1>2
<1>4. Daemon!send_header \in AnyMessage /\ Daemon!send_header.kind = "SOH"
      /\ Daemon!send_char("EM") \in AnyMessage /\ Daemon!send_char("EM").kind = "EM"
  BY DEF Daemon!send_header, Daemon!send_char, AnyMessage, Texts
<1>5. CASE who.ends = "quit"
  BY <1>1, <1>4, <1>5 DEF Daemon!Script
<1>6. CASE who.ends # "quit"
  <2> DEFINE last == Daemon!send_char(Daemon!End(who.ends))
  <2>1. last \in AnyMessage /\ last.kind = Daemon!End(who.ends)
    BY <1>1, <1>6 DEF Daemon!send_char, AnyMessage, Daemon!End, Texts
  <2>2. Daemon!Script(who) = <<Daemon!send_header>> \o mid \o <<last>>
    BY <1>6 DEF Daemon!Script, Daemon!parse_args
  <2> HIDE DEF mid, last
  <2>3. <<Daemon!send_header>> \in Seq(AnyMessage) /\ <<last>> \in Seq(AnyMessage)
    BY <1>4, <2>1
  <2> DEFINE script == <<Daemon!send_header>> \o mid \o <<last>>
  <2>4. script \in Seq(AnyMessage) /\ Len(script) = n + 2
    BY <1>1, <1>3, <2>3
  <2>5. script[1] = Daemon!send_header /\ script[n + 2] = last /\ \A j \in 1..n : script[j + 1] = mid[j]
    BY <1>1, <1>3, <2>3
  <2> QED BY <1>1, <1>3, <1>4, <1>6, <2>1, <2>2, <2>4, <2>5
<1> QED BY <1>5, <1>6

----------------------------------------------------------------------------
(* A step that is about one client leaves the invariant where it is right  *)
(* of that client.                                                         *)
OtherClients(v, w, c) ==
    \A b \in Daemon!Cs(v) \ {c} :
        /\ w.client[b] = v.client[b] /\ w.sent[b] = v.sent[b] /\ w.queue[b] = v.queue[b]
        /\ w.at[b] = v.at[b] /\ w.launch[b] = v.launch[b]
        /\ Waits(w, b) = Waits(v, b) /\ (b \in w.told) = (b \in v.told)

(* A step of one client, also one that opens its window. *)
LEMMA OneClientOpens ==
    ASSUME NEW v, NEW w, LaunchInv(v), LaunchTypes(w), w.s = v.s, NEW c \in Daemon!Cs(v), OtherClients(v, w, c),
           \A b \in Daemon!Cs(v) \ {c} : HasWindow(w, b) = HasWindow(v, b),
           Distinct(w), EachClient(w, c), Sockets(w), EachWindow(w)
    PROVE  LaunchInv(w)
<1>1. ASSUME NEW b \in Daemon!Cs(v), b # c
      PROVE  EachClient(w, b)
  <2>1. EachClient(v, b)
    BY DEF LaunchInv
  <2> QED BY <1>1, <2>1 DEF EachClient, OtherClients
<1>2. Daemon!Cs(w) = Daemon!Cs(v)
  BY DEF LaunchInv, LaunchTypes, Daemon!Cs
<1> QED BY <1>1, <1>2 DEF LaunchInv

(* A step of one client that opens no window. *)
LEMMA OneClient ==
    ASSUME NEW v, NEW w, LaunchInv(v), LaunchTypes(w), w.s = v.s, w.windows = v.windows, NEW c \in Daemon!Cs(v),
           OtherClients(v, w, c),
           Distinct(w), EachClient(w, c), Sockets(w), w.sent[c] = v.sent[c] \/ ~ HasWindow(v, c)
    PROVE  LaunchInv(w)
<1>1. \A b : HasWindow(w, b) = HasWindow(v, b)
  BY DEF HasWindow
<1>2. EachWindow(w)
  <2> DEFINE Window == [client : Daemon!Cs(v), opts : Seq(AnyOption), args : Seq(Texts)]
  <2>0. \A x \in Window : x.client \in Daemon!Cs(v)
    OBVIOUS
  <2> HIDE DEF Window
  <2>1. EachWindow(v) /\ v.windows \in Seq(Window)
    BY DEF LaunchInv, LaunchTypes, Daemon!Cs, Window
  <2>2. \A k \in DOMAIN v.windows : w.sent[v.windows[k].client] = v.sent[v.windows[k].client]
    <3> TAKE k \in DOMAIN v.windows
    <3>1. v.windows[k] \in Window
      BY <2>1
    <3>2. v.windows[k].client \in Daemon!Cs(v)
      BY <2>0, <3>1
    <3>3. HasWindow(v, v.windows[k].client)
      BY DEF HasWindow
    <3> QED BY <3>2, <3>3 DEF OtherClients
  <2> QED BY <2>1, <2>2 DEF EachWindow
<1> QED BY <1>1, <1>2, OneClientOpens

(* Only the place of a client changes. *)
LEMMA PlaceKeeps ==
    ASSUME NEW v, NEW w, LaunchInv(v), NEW c \in Daemon!Cs(v), NEW q \in ClientPlaces,
           NEW refused \in SUBSET Daemon!Cs(v),
           w = [v EXCEPT !.client[c] = q, !.refused = refused],
           q \in NotSending => v.client[c] \in NotSending,
           q \in {"reading", "done"} => v.client[c] \in {"reading", "done"},
           q # "sending", v.client[c] # "killed"
    PROVE  LaunchInv(w)
<1>1. /\ LaunchTypes(v) /\ EachClient(v, c) /\ Distinct(v) /\ Sockets(v)
  BY DEF LaunchInv
<1>2. LaunchTypes(w)
  BY <1>1 DEF LaunchTypes, Daemon!Cs
<1>3. /\ w.s = v.s /\ w.windows = v.windows /\ w.waiting = v.waiting /\ w.told = v.told
      /\ w.sent = v.sent /\ w.queue = v.queue /\ w.at = v.at /\ w.launch = v.launch
      /\ w.path = v.path /\ w.daemon = v.daemon /\ w.client = [v.client EXCEPT ![c] = q]
  BY <1>1 DEF LaunchTypes
<1>4. w.client[c] = q /\ \A b \in Daemon!Cs(v) \ {c} : w.client[b] = v.client[b]
  BY <1>1, <1>3 DEF LaunchTypes, Daemon!Cs
<1>5. (\A b : Waits(w, b) = Waits(v, b)) /\ (\A b : HasWindow(w, b) = HasWindow(v, b)) /\ Distinct(w) /\ Sockets(w)
  BY <1>1, <1>3 DEF Waits, HasWindow, Distinct, Sockets, Daemon!Ds
<1>6. OtherClients(v, w, c)
  BY <1>3, <1>4, <1>5 DEF OtherClients
<1>7. EachClient(w, c)
  <2>1. ClientRight(v.s.clients[c], v.client[c], v.sent[c], v.queue[c], v.at[c], v.launch[c], Waits(v, c),
                    HasWindow(v, c), c \in v.told)
    BY <1>1 DEF EachClient
  <2>2. ClientRight(v.s.clients[c], q, v.sent[c], v.queue[c], v.at[c], v.launch[c], Waits(v, c),
                    HasWindow(v, c), c \in v.told)
    BY <2>1 DEF ClientRight, NotSending
  <2> QED BY <1>3, <1>4, <1>5, <2>2 DEF EachClient
<1> QED BY <1>2, <1>3, <1>5, <1>6, <1>7, OneClient

(* Only daemons and the socket change. *)
LEMMA DaemonsKeep ==
    ASSUME NEW v, NEW w, LaunchInv(v), LaunchTypes(w), w.s = v.s, w.windows = v.windows, w.waiting = v.waiting,
           w.told = v.told, w.at = v.at, w.sent = v.sent, w.queue = v.queue, w.launch = v.launch, w.client = v.client,
           Sockets(w)
    PROVE  LaunchInv(w)
<1>1. Daemon!Cs(w) = Daemon!Cs(v) /\ Distinct(w) /\ EachWindow(w)
  BY DEF LaunchInv, Daemon!Cs, Distinct, EachWindow
<1>2. ASSUME NEW c \in Daemon!Cs(v) PROVE EachClient(w, c)
  <2>1. EachClient(v, c)
    BY DEF LaunchInv
  <2>2. Waits(w, c) = Waits(v, c) /\ HasWindow(w, c) = HasWindow(v, c)
    BY DEF Waits, HasWindow
  <2> QED BY <2>1, <2>2 DEF EachClient
<1> QED BY <1>1, <1>2 DEF LaunchInv

----------------------------------------------------------------------------
(* try_connect() *)
LEMMA ConnectKeeps ==
    ASSUME LaunchInv(state), NEW c \in Daemon!Cs(state), NEW from \in {"start", "again"},
           NEW otherwise \in {"fork", "failed"},
           Daemon!try_connect(c, from, otherwise)
    PROVE  LaunchInv(state')
<1>1. /\ LaunchTypes(state) /\ EachClient(state, c) /\ Distinct(state) /\ Sockets(state) /\ state.client[c] = from
  BY DEF LaunchInv, Daemon!try_connect
<1>2. CASE ~ Daemon!Up(state.path)
  <2>1. PICK refused \in SUBSET Daemon!Cs(state) : state' = [state EXCEPT !.client[c] = otherwise, !.refused = refused]
    <3> DEFINE r == IF otherwise = "failed" /\ \E d \in Daemon!Ds(state) : Daemon!Up(d)
                    THEN state.refused \cup {c} ELSE state.refused
    <3>1. state' = [state EXCEPT !.client[c] = otherwise, !.refused = r]
      BY <1>2 DEF Daemon!try_connect
    <3>2. r \in SUBSET Daemon!Cs(state)
      BY <1>1 DEF LaunchTypes, Daemon!Cs
    <3> QED BY <3>1, <3>2
  <2> DEFINE q == otherwise
             w == [state EXCEPT !.client[c] = otherwise, !.refused = refused]
  <2>2. /\ q \in ClientPlaces /\ (q \in NotSending => state.client[c] \in NotSending)
           /\ q \notin {"reading", "done", "sending"}
        /\ state.client[c] # "killed"
    BY <1>1 DEF ClientPlaces, NotSending
  <2>3. LaunchInv(w)
    BY <2>2, PlaceKeeps
  <2> QED BY <2>1, <2>3
<1>3. CASE Daemon!Up(state.path)
  <2> DEFINE w == [state EXCEPT !.client[c] = "sending", !.at[c] = state.path, !.waiting = Append(@, c)]
  <2>1. state' = w
    BY <1>3 DEF Daemon!try_connect, Daemon!Connected
  <2>2. /\ w.s = state.s /\ w.windows = state.windows /\ w.waiting = Append(state.waiting, c) /\ w.told = state.told
        /\ w.sent = state.sent /\ w.queue = state.queue /\ w.launch = state.launch
        /\ w.path = state.path /\ w.daemon = state.daemon /\ w.client = [state.client EXCEPT ![c] = "sending"]
        /\ w.at = [state.at EXCEPT ![c] = state.path]
    BY <1>1 DEF LaunchTypes
  <2>3. LaunchTypes(w)
    <3>1. state.path \in -1..state.s.daemons /\ Append(state.waiting, c) \in Seq(Daemon!Cs(state))
          /\ "sending" \in ClientPlaces
      BY <1>1, LaunchesAssumption DEF LaunchTypes, Daemon!Cs, ClientPlaces, AnyLaunch
    <3> QED BY <1>1, <3>1 DEF LaunchTypes, Daemon!Cs
  <2> HIDE DEF w
  <2>4. /\ state.waiting \in Seq(Daemon!Cs(state)) /\ ~ Waits(state, c) /\ ~ HasWindow(state, c)
        /\ ~ state.launch[c].held /\ state.sent[c] = 0
    BY <1>1 DEF LaunchTypes, Daemon!Cs, EachClient, ClientRight, NotSending
  <2>5. Waits(w, c) /\ \A b \in Daemon!Cs(state) \ {c} : Waits(w, b) = Waits(state, b)
    BY <2>2, <2>4 DEF Waits
  <2>6. Distinct(w)
    BY <1>1, <2>2, <2>4 DEF Distinct, Waits
  <2>7. Sockets(w)
    BY <1>1, <2>2 DEF Sockets, Daemon!Ds
  <2>8. /\ w.client[c] = "sending" /\ OtherClients(state, w, c) /\ HasWindow(w, c) = HasWindow(state, c)
    BY <1>1, <2>2, <2>5 DEF OtherClients, HasWindow, LaunchTypes, Daemon!Cs
  <2>9. EachClient(w, c)
    <3>1. ClientRight(state.s.clients[c], state.client[c], state.sent[c], state.queue[c], state.at[c],
                      state.launch[c], FALSE, FALSE, c \in state.told)
      BY <1>1, <2>4 DEF EachClient, ClientRight
    <3>2. Len(state.queue[c]) \in Nat /\ Len(Daemon!Script(state.s.clients[c])) > 0
      <4>1. state.s.clients[c] \in AnyClient /\ state.queue[c] \in Seq(AnyMessage)
        BY <1>1, LaunchesAssumption DEF LaunchTypes, Daemon!Cs, AnyLaunch
      <4>2. Len(Daemon!Script(state.s.clients[c])) > 0
        BY <4>1, ScriptDoes
      <4> QED BY <4>1, <4>2
    <3>3. ClientRight(state.s.clients[c], "sending", state.sent[c], state.queue[c], state.path, state.launch[c],
                      TRUE, FALSE, c \in state.told)
      BY <1>1, <2>4, <3>1, <3>2 DEF ClientRight, NotSending
    <3>4. ClientRight(w.s.clients[c], w.client[c], w.sent[c], w.queue[c], w.at[c], w.launch[c], TRUE, FALSE,
                      c \in w.told)
      BY <1>1, <2>2, <2>8, <3>3 DEF LaunchTypes, Daemon!Cs
    <3> QED BY <2>4, <2>5, <2>8, <3>4 DEF EachClient, ClientRight
  <2>10. LaunchInv(w)
    BY <2>2, <2>3, <2>4, <2>6, <2>7, <2>8, <2>9, OneClient
  <2> QED BY <2>1, <2>10
<1> QED BY <1>2, <1>3

(* do_fork() starts the first daemon that is not. *)
LEMMA ForkKeeps ==
    ASSUME LaunchInv(state), NEW c \in Daemon!Cs(state), Daemon!do_fork(c)
    PROVE  LaunchInv(state')
<1>1. /\ LaunchTypes(state) /\ EachClient(state, c) /\ Distinct(state) /\ Sockets(state) /\ state.client[c] = "fork"
  BY DEF LaunchInv, Daemon!do_fork
<1>2. PICK d \in Daemon!Ds(state) : state.daemon[d] = "none"
           /\ state' = [state EXCEPT !.client[c] = "wait", !.daemon[d] = "forked"]
  BY DEF Daemon!do_fork, Daemon!Unused
<1> DEFINE v == [state EXCEPT !.daemon[d] = "forked"]
           w == [v EXCEPT !.client[c] = "wait", !.refused = v.refused]
<1>3. /\ v.s = state.s /\ v.windows = state.windows /\ v.waiting = state.waiting /\ v.told = state.told
      /\ v.at = state.at
      /\ v.sent = state.sent /\ v.queue = state.queue /\ v.launch = state.launch /\ v.client = state.client
      /\ v.path = state.path /\ v.daemon = [state.daemon EXCEPT ![d] = "forked"] /\ v.refused = state.refused
  BY <1>1 DEF LaunchTypes
<1>4. LaunchTypes(v)
  BY <1>1 DEF LaunchTypes, DaemonPlaces
<1>5. state' = w
  <2>1. w = [v EXCEPT !.client[c] = "wait"]
    BY <1>4 DEF LaunchTypes
  <2> QED BY <1>1, <1>2, <2>1 DEF LaunchTypes
<1> HIDE DEF v
<1>6. Sockets(v)
  BY <1>1, <1>2, <1>3 DEF Sockets, Daemon!Ds, LaunchTypes
<1>7. LaunchInv(v)
  BY <1>3, <1>4, <1>6, DaemonsKeep
<1>8. LaunchInv(w)
  <2>1. v.refused \in SUBSET Daemon!Cs(v) /\ "wait" \in ClientPlaces /\ v.client[c] = "fork" /\ c \in Daemon!Cs(v)
    BY <1>1, <1>3, <1>4 DEF LaunchTypes, Daemon!Cs, ClientPlaces, NotSending
  <2>2. v.client[c] \in NotSending /\ v.client[c] # "killed"
    BY <2>1 DEF NotSending
  <2> DEFINE q == "wait"
  <2>3. w = [v EXCEPT !.client[c] = q, !.refused = v.refused] /\ q \in ClientPlaces
        /\ q \notin {"reading", "done", "sending"}
    BY <2>1
  <2> HIDE DEF q, w
  <2> QED BY <1>7, <2>1, <2>2, <2>3, PlaceKeeps
<1> QED BY <1>5, <1>8

(* The other steps of a client that change its place only. *)
LEMMA PlacesKeep ==
    ASSUME LaunchInv(state), NEW c \in Daemon!Cs(state),
           Daemon!WaitForSocket(c) \/ Daemon!Broken(c) \/ Daemon!recv_response(c) \/ Daemon!KillClient(c)
    PROVE  LaunchInv(state')
<1>1. LaunchTypes(state) /\ state.refused \in SUBSET Daemon!Cs(state)
  BY DEF LaunchInv, LaunchTypes, Daemon!Cs
<1>2. PICK q \in {"again", "killed", "done"} :
        /\ state' = [state EXCEPT !.client[c] = q] /\ state.client[c] # "killed"
        /\ q = "again" => state.client[c] = "wait"
        /\ q = "done" => state.client[c] = "reading"
  BY DEF Daemon!WaitForSocket, Daemon!Broken, Daemon!recv_response, Daemon!KillClient
<1>3. state' = [state EXCEPT !.client[c] = q, !.refused = state.refused]
  BY <1>1, <1>2 DEF LaunchTypes
<1> DEFINE w == [state EXCEPT !.client[c] = q, !.refused = state.refused]
<1>4. LaunchInv(w)
  BY <1>1, <1>2, PlaceKeeps DEF ClientPlaces, NotSending
<1> QED BY <1>3, <1>4

(* A message more is on its way. *)
LEMMA SendKeeps ==
    ASSUME LaunchInv(state), NEW c \in Daemon!Cs(state), Daemon!Send(c)
    PROVE  LaunchInv(state')
<1> DEFINE who == state.s.clients[c]
           script == Daemon!Script(who)
           k == state.sent[c] + 1
           m == script[k]
           q == IF k < Len(script) THEN "sending" ELSE IF m.kind \in {"NAK", "ENQ"} THEN "reading" ELSE "done"
           queue == Append(state.queue[c], m)
           w == [state EXCEPT !.sent[c] = k, !.queue[c] = queue, !.client[c] = q]
<1>1. /\ LaunchTypes(state) /\ EachClient(state, c) /\ Distinct(state) /\ Sockets(state) /\ state.client[c] = "sending"
  BY DEF LaunchInv, Daemon!Send
<1>2. state' = w
  BY <1>1 DEF Daemon!Send, LaunchTypes, Daemon!Who, Daemon!Cs
<1>3. who \in AnyClient /\ script \in Seq(AnyMessage) /\ Len(script) \in Nat
  <2>1. who \in AnyClient
    BY <1>1, LaunchesAssumption DEF LaunchTypes, Daemon!Cs, AnyLaunch
  <2> QED BY <2>1, ScriptDoes
<1>4. state.queue[c] \in Seq(AnyMessage) /\ state.sent[c] \in Nat /\ q \in {"sending", "reading", "done"}
      /\ (q = "sending" <=> k < Len(script))
  BY <1>1 DEF LaunchTypes, Daemon!Cs
<1>5. /\ w.s = state.s /\ w.windows = state.windows /\ w.waiting = state.waiting /\ w.told = state.told
      /\ w.sent = [state.sent EXCEPT ![c] = k] /\ w.queue = [state.queue EXCEPT ![c] = queue] /\ w.at = state.at
      /\ w.launch = state.launch /\ w.path = state.path /\ w.daemon = state.daemon
      /\ w.client = [state.client EXCEPT ![c] = q]
  BY <1>1 DEF LaunchTypes
<1>6. ClientRight(who, "sending", state.sent[c], state.queue[c], state.at[c], state.launch[c], Waits(state, c),
                  HasWindow(state, c), c \in state.told)
  BY <1>1 DEF EachClient
<1> HIDE DEF who, script, q
<1>7. state.sent[c] < Len(script) /\ Len(state.queue[c]) <= state.sent[c]
  BY <1>6 DEF ClientRight, script
<1>8. m \in AnyMessage
  BY <1>3, <1>4, <1>7
<1> HIDE DEF m
<1>9. /\ queue \in Seq(AnyMessage) /\ Len(queue) = Len(state.queue[c]) + 1 /\ queue[Len(queue)] = m
      /\ \A i \in 1..Len(state.queue[c]) : queue[i] = state.queue[c][i]
      /\ Len(state.queue[c]) \in Nat
  BY <1>4, <1>8
<1> HIDE DEF queue
<1>10. LaunchTypes(w)
  <2>1. q \in ClientPlaces /\ k \in Nat
    BY <1>4 DEF ClientPlaces
  <2> HIDE DEF k
  <2> QED BY <1>1, <1>9, <2>1 DEF LaunchTypes, Daemon!Cs
<1> HIDE DEF w
<1>11. /\ w.client[c] = q /\ w.sent[c] = k /\ w.queue[c] = queue
       /\ \A b \in Daemon!Cs(state) \ {c} : w.client[b] = state.client[b] /\ w.sent[b] = state.sent[b]
          /\ w.queue[b] = state.queue[b]
  BY <1>1, <1>5 DEF LaunchTypes, Daemon!Cs
<1>12. (\A b : Waits(w, b) = Waits(state, b)) /\ (\A b : HasWindow(w, b) = HasWindow(state, b)) /\ Distinct(w)
       /\ Sockets(w)
  BY <1>1, <1>5 DEF Waits, HasWindow, Distinct, Sockets, Daemon!Ds
<1>13. OtherClients(state, w, c)
  BY <1>5, <1>11, <1>12 DEF OtherClients
<1>14. ClientRight(who, q, k, queue, state.at[c], state.launch[c], Waits(state, c), HasWindow(state, c),
                   c \in state.told)
  <2> DEFINE n == state.sent[c]
             old == state.queue[c]
             a == Len(old)
             b == Len(queue)
             end == Len(script)
  <2>1. /\ \A i \in 1..a : old[i] = script[n - a + i]
        /\ n <= end /\ a <= n /\ n \in Nat /\ a \in Nat /\ n < end /\ end \in Nat
    BY <1>3, <1>4, <1>6, <1>7, <1>9 DEF ClientRight, script
  <2>2. /\ b = a + 1 /\ queue[b] = script[k] /\ (\A i \in 1..a : queue[i] = old[i]) /\ k = n + 1
    BY <1>9 DEF m
  <2>3. ClientRight(who, "sending", n, old, state.at[c], state.launch[c], Waits(state, c), HasWindow(state, c),
                    c \in state.told)
    BY <1>6
  <2>4. q \notin NotSending
    BY <1>4 DEF NotSending
  <2>5. q \in {"sending", "reading", "done"} /\ (q = "sending" <=> k < end)
    BY <1>4
  <2> HIDE DEF a, b, end, old, n, k
  <2>6. k - b = n - a
    BY <2>1, <2>2
  <2>7. \A i \in 1..b : queue[i] = script[n - a + i]
    <3> TAKE i \in 1..b
    <3>1. CASE i \in 1..a
      BY <2>1, <2>2, <3>1
    <3>2. CASE i = b
      <4>1. n - a + i = k
        BY <2>1, <2>2, <3>2
      <4> QED BY <2>2, <3>2, <4>1
    <3> QED BY <2>1, <2>2, <3>1, <3>2
  <2>8. n - a # end /\ n - a <= n /\ (q # "sending" => k = end) /\ (q = "sending" => k < end) /\ k <= end /\ b <= k
    BY <2>1, <2>2, <2>5
  <2> QED BY <2>1, <2>2, <2>3, <2>4, <2>5, <2>6, <2>7, <2>8 DEF ClientRight, script, a, b, end
<1>16. EachClient(w, c)
  BY <1>5, <1>11, <1>12, <1>14 DEF EachClient, who
<1>17. ~ HasWindow(state, c)
  <2>1. EachWindow(state) /\ \A j \in DOMAIN state.windows : state.windows[j].client = c => state.sent[c] = Len(script)
    BY DEF LaunchInv, EachWindow, WindowRight, script, who
  <2> QED BY <1>4, <1>7, <1>3, <2>1 DEF HasWindow
<1>18. LaunchInv(w)
  BY <1>5, <1>10, <1>12, <1>13, <1>16, <1>17, OneClient
<1> QED BY <1>2, <1>18

(* A sequence without one of its elements. *)
LEMMA WithoutOne ==
    ASSUME NEW S, NEW s \in Seq(S), NEW k \in 1..Len(s)
    PROVE  /\ RemoveAt(s, k) \in Seq(S) /\ Len(RemoveAt(s, k)) = Len(s) - 1
           /\ \A j \in 1..Len(s) - 1 : RemoveAt(s, k)[j] = IF j < k THEN s[j] ELSE s[j + 1]
<1> DEFINE n == Len(s)
           a == SubSeq(s, 1, k - 1)
           b == SubSeq(s, k + 1, n)
<1>1. n \in Nat /\ k \in 1..n
  OBVIOUS
<1>2. a \in Seq(S) /\ Len(a) = k - 1 /\ \A j \in 1..k - 1 : a[j] = s[j]
  OBVIOUS
<1>3. b \in Seq(S) /\ Len(b) = n - k /\ \A j \in 1..n - k : b[j] = s[k + j]
  OBVIOUS
<1>4. RemoveAt(s, k) = a \o b
  BY DEF RemoveAt
<1> HIDE DEF a, b, n
<1>5. /\ a \o b \in Seq(S) /\ Len(a \o b) = Len(a) + Len(b)
      /\ \A j \in 1..Len(a) + Len(b) : (a \o b)[j] = IF j <= Len(a) THEN a[j] ELSE b[j - Len(a)]
  BY <1>2, <1>3, ConcatProperties
<1>6. ASSUME NEW j \in 1..n - 1
      PROVE  (a \o b)[j] = IF j < k THEN s[j] ELSE s[j + 1]
  <2>1. CASE j < k
    BY <1>1, <1>2, <1>3, <1>5, <2>1
  <2>2. CASE ~ (j < k)
    <3>1. (a \o b)[j] = b[j - (k - 1)] /\ j - (k - 1) \in 1..n - k /\ k + (j - (k - 1)) = j + 1
      BY <1>1, <1>2, <1>3, <1>5, <2>2
    <3> QED BY <1>3, <2>2, <3>1
  <2> QED BY <2>1, <2>2
<1> QED BY <1>1, <1>2, <1>3, <1>4, <1>5, <1>6 DEF n

(* accept_pending_launch() *)
LEMMA AcceptKeeps ==
    ASSUME LaunchInv(state), NEW d \in Daemon!Ds(state), Daemon!accept(d)
    PROVE  LaunchInv(state')
<1>1. /\ LaunchTypes(state) /\ Distinct(state) /\ Sockets(state) /\ state.waiting \in Seq(Daemon!Cs(state))
  BY DEF LaunchInv, LaunchTypes, Daemon!Cs
<1>2. PICK k \in DOMAIN state.waiting :
        /\ state.at[state.waiting[k]] = d
        /\ state' = [state EXCEPT !.launch[state.waiting[k]] = [Daemon!None EXCEPT !.held = TRUE],
                     !.waiting = RemoveAt(@, k)]
  BY SameRemove DEF Daemon!accept
<1> DEFINE c == state.waiting[k]
           launch == [Daemon!None EXCEPT !.held = TRUE]
           waiting == RemoveAt(state.waiting, k)
           w == [state EXCEPT !.launch[c] = launch, !.waiting = waiting]
<1>3. state' = w
  BY <1>2
<1>4. c \in Daemon!Cs(state) /\ state.at[c] = d /\ EachClient(state, c) /\ Waits(state, c)
      /\ k \in 1..Len(state.waiting)
  BY <1>1, <1>2 DEF LaunchInv, Waits
<1>5. launch \in AnyPending /\ launch.held /\ launch.args = <<>> /\ launch.opts = <<>>
  <2>1. launch.held /\ launch.args = <<>> /\ launch.opts = <<>> /\ DOMAIN launch = {"held", "opts", "args"}
    BY DEF Daemon!None
  <2>2. <<>> \in Seq(AnyOption) /\ <<>> \in Seq(Texts)
    OBVIOUS
  <2>3. Daemon!None \in AnyPending
    BY <2>2 DEF Daemon!None, AnyPending
  <2>4. launch \in AnyPending
    BY <2>3 DEF AnyPending
  <2> QED BY <2>1, <2>4
<1>6. /\ waiting \in Seq(Daemon!Cs(state)) /\ Len(waiting) = Len(state.waiting) - 1
      /\ \A j \in 1..Len(waiting) : waiting[j] = IF j < k THEN state.waiting[j] ELSE state.waiting[j + 1]
  BY <1>1, <1>4, WithoutOne
<1> HIDE DEF launch, waiting
<1>7. /\ w.s = state.s /\ w.windows = state.windows /\ w.waiting = waiting /\ w.told = state.told
      /\ w.sent = state.sent /\ w.queue = state.queue /\ w.at = state.at
      /\ w.launch = [state.launch EXCEPT ![c] = launch]
      /\ w.path = state.path /\ w.daemon = state.daemon /\ w.client = state.client
  BY <1>1 DEF LaunchTypes
<1>8. LaunchTypes(w)
  BY <1>1, <1>4, <1>5, <1>6 DEF LaunchTypes, Daemon!Cs
<1> HIDE DEF w, c
<1>9. w.launch[c] = launch /\ \A b \in Daemon!Cs(state) \ {c} : w.launch[b] = state.launch[b]
  BY <1>1, <1>4, <1>7 DEF LaunchTypes, Daemon!Cs
<1>10. ~ Waits(w, c) /\ (\A b \in Daemon!Cs(state) \ {c} : Waits(w, b) = Waits(state, b)) /\ Distinct(w)
  <2>1. \A j \in 1..Len(state.waiting) : j # k => state.waiting[j] # c
    BY <1>1, <1>4 DEF Distinct, c
  <2>2. ASSUME NEW b \in Daemon!Cs(state) \ {c} PROVE Waits(w, b) = Waits(state, b)
    <3>1. Waits(state, b) => Waits(w, b)
      <4>1. SUFFICES ASSUME NEW j \in 1..Len(state.waiting), state.waiting[j] = b
                     PROVE  Waits(w, b)
        BY <1>1 DEF Waits
      <4>2. j # k
        BY <2>2, <4>1 DEF c
      <4>3. CASE j < k
        BY <1>4, <1>6, <1>7, <4>1, <4>3 DEF Waits
      <4>4. CASE j > k
        <5>1. j - 1 \in 1..Len(waiting) /\ waiting[j - 1] = b
          BY <1>4, <1>6, <4>1, <4>4
        <5> QED BY <1>6, <1>7, <5>1 DEF Waits
      <4> QED BY <1>4, <4>2, <4>3, <4>4
    <3>2. Waits(w, b) => Waits(state, b)
      BY <1>1, <1>4, <1>6, <1>7 DEF Waits
    <3> QED BY <3>1, <3>2 DEF Waits
  <2>3. ~ Waits(w, c)
    BY <1>1, <1>4, <1>6, <1>7, <2>1 DEF Waits
  <2>4. Distinct(w)
    <3> DEFINE old(j) == IF j < k THEN j ELSE j + 1
    <3>1. \A j \in 1..Len(waiting) : old(j) \in 1..Len(state.waiting) /\ waiting[j] = state.waiting[old(j)]
      BY <1>4, <1>6
    <3>2. \A i, j \in 1..Len(waiting) : old(i) = old(j) => i = j
      BY <1>4, <1>6
    <3> HIDE DEF old
    <3>3. \A i, j \in 1..Len(waiting) : waiting[i] = waiting[j] => i = j
      BY <1>1, <3>1, <3>2 DEF Distinct
    <3> QED BY <1>6, <1>7, <3>3 DEF Distinct
  <2> QED BY <2>2, <2>3, <2>4
<1>11. (\A b : HasWindow(w, b) = HasWindow(state, b)) /\ Sockets(w)
  BY <1>1, <1>7 DEF HasWindow, Sockets, Daemon!Ds
<1>12. OtherClients(state, w, c)
  BY <1>7, <1>9, <1>10 DEF OtherClients
<1>13. EachClient(w, c)
  <2> DEFINE who == state.s.clients[c]
  <2>1. ClientRight(who, state.client[c], state.sent[c], state.queue[c], state.at[c], state.launch[c], TRUE,
                    HasWindow(state, c), c \in state.told)
    BY <1>4 DEF EachClient, ClientRight
  <2>2. who \in AnyClient /\ state.sent[c] \in Nat /\ state.queue[c] \in Seq(AnyMessage) /\ d > 0
    <3>1. state.s \in AnyLaunch /\ DOMAIN state.daemon = 1..state.s.daemons /\ c \in DOMAIN state.s.clients
      BY <1>1, <1>4, LaunchesAssumption DEF LaunchTypes, Daemon!Cs
    <3>2. who \in AnyClient /\ state.s.daemons \in Nat
      BY <3>1 DEF AnyLaunch
    <3>3. d > 0
      BY <3>1, <3>2 DEF Daemon!Ds
    <3>4. state.sent[c] \in Nat /\ state.queue[c] \in Seq(AnyMessage)
      BY <1>1, <1>4 DEF LaunchTypes, Daemon!Cs
    <3> QED BY <3>2, <3>3, <3>4
  <2>3. Daemon!HasArguments(launch.args, who.items, 0) /\ Daemon!HasOptions(launch.opts, who.items, 0)
        /\ Len(Daemon!Script(who)) > 0
    BY <1>5, <2>2, HasNone, ScriptDoes
  <2> HIDE DEF who
  <2>4. ClientRight(who, state.client[c], state.sent[c], state.queue[c], d, launch, FALSE, HasWindow(state, c),
                    c \in state.told)
    BY <1>5, <2>1, <2>2, <2>3 DEF ClientRight, ItemsRead
  <2>5. ClientRight(w.s.clients[c], w.client[c], w.sent[c], w.queue[c], w.at[c], w.launch[c], FALSE,
                    HasWindow(state, c), c \in w.told)
    BY <1>4, <1>7, <1>9, <2>4 DEF who
  <2> QED BY <1>10, <1>11, <2>5 DEF EachClient, ClientRight
<1>14. LaunchInv(w)
  BY <1>4, <1>7, <1>8, <1>10, <1>11, <1>12, <1>13, OneClient
<1> QED BY <1>3, <1>14

----------------------------------------------------------------------------
(* A message of a client is read. *)
LEMMA ReadOne ==
    ASSUME NEW who \in AnyClient, NEW place, NEW sent \in Nat, NEW queue \in Seq(AnyMessage), queue # <<>>,
           NEW at, NEW launch,
           NEW waits \in BOOLEAN, NEW opened \in BOOLEAN, NEW told \in BOOLEAN, launch.held,
           ClientRight(who, place, sent, queue, at, launch, waits, opened, told),
           NEW newat, NEW new, NEW nowopened \in BOOLEAN, NEW nowtold \in BOOLEAN,
           LET read == sent - Len(queue) + 1
           IN  /\ new.held =>
                    /\ newat > 0 /\ ~ nowopened /\ read # Len(Daemon!Script(who))
                    /\ who.ends # "quit" =>
                        /\ Daemon!HasArguments(new.args, who.items, ItemsRead(read))
                        /\ Daemon!HasOptions(new.opts, who.items, ItemsRead(read))
               /\ read = Len(Daemon!Script(who)) => nowopened \/ nowtold \/ who.ends = "quit" \/ place = "killed"
    PROVE  ClientRight(who, place, sent, Tail(queue), newat, new, waits, nowopened, nowtold)
<1> DEFINE script == Daemon!Script(who)
           n == Len(queue)
           rest == Tail(queue)
<1>1. Len(script) \in Nat
  BY ScriptDoes
<1>2. n \in Nat /\ n > 0 /\ Len(rest) = n - 1 /\ \A i \in 1..n - 1 : rest[i] = queue[i + 1]
  OBVIOUS
<1> HIDE DEF rest, n, script
<1>3. /\ sent <= Len(script) /\ n <= sent /\ ~ waits /\ place \notin NotSending
      /\ place \in {"reading", "done"} => sent = Len(script)
      /\ place = "sending" => sent < Len(script)
      /\ \A i \in 1..n : queue[i] = script[sent - n + i]
  BY DEF ClientRight, script, n
<1>4. \A i \in 1..n - 1 : rest[i] = script[sent - (n - 1) + i]
  <2> TAKE i \in 1..n - 1
  <2>1. i + 1 \in 1..n /\ sent - n + (i + 1) = sent - (n - 1) + i
    BY <1>2
  <2> QED BY <1>2, <1>3, <2>1
<1>5. sent - n + 1 = sent - (n - 1)
  BY <1>2
<1> DEFINE read == sent - n + 1
           end == Len(script)
<1>6. /\ new.held =>
            /\ newat > 0 /\ ~ nowopened /\ read # end
            /\ who.ends # "quit" =>
                /\ Daemon!HasArguments(new.args, who.items, ItemsRead(read))
                /\ Daemon!HasOptions(new.opts, who.items, ItemsRead(read))
      /\ read = end => nowopened \/ nowtold \/ who.ends = "quit" \/ place = "killed"
  BY DEF n, script
<1>7. Len(rest) = n - 1 /\ sent - (n - 1) = read /\ Len(rest) <= sent /\ sent <= end
  BY <1>1, <1>2, <1>3
<1>8. \A i \in 1..Len(rest) : rest[i] = script[read + i]
  BY <1>4, <1>7
<1>9. sent - Len(rest) = read
  BY <1>7
<1> HIDE DEF read, end
<1> QED BY <1>3, <1>6, <1>7, <1>8, <1>9 DEF ClientRight, rest, script, end

(* The message that is read next. *)
LEMMA NextMessage ==
    ASSUME LaunchInv(state), NEW c \in Daemon!Cs(state), state.queue[c] # <<>>
    PROVE  LET who == state.s.clients[c]
               n == Len(who.items)
               read == state.sent[c] - Len(state.queue[c])
               m == Head(state.queue[c])
           IN  /\ who \in AnyClient /\ n \in Nat /\ who.items \in Seq(AnyItem) /\ state.sent[c] \in Nat
               /\ state.queue[c] \in Seq(AnyMessage)
               /\ read \in Nat /\ read < Len(Daemon!Script(who)) /\ m \in AnyMessage
               /\ who.ends = "quit" => m.kind = "EM" /\ read = 0 /\ Len(Daemon!Script(who)) = 1
               /\ who.ends # "quit" =>
                   /\ Len(Daemon!Script(who)) = n + 2
                   /\ read = 0 => m.kind = "SOH"
                   /\ read \in 1..n => m = Daemon!Message(who.items[read])
                   /\ read = n + 1 => m.kind = Daemon!End(who.ends) /\ state.sent[c] = n + 2
<1> DEFINE who == state.s.clients[c]
           n == Len(who.items)
           queue == state.queue[c]
           read == state.sent[c] - Len(queue)
           m == Head(queue)
           script == Daemon!Script(who)
<1>1. LaunchTypes(state) /\ EachClient(state, c)
  BY DEF LaunchInv
<1>2. who \in AnyClient /\ state.sent[c] \in Nat /\ queue \in Seq(AnyMessage)
  BY <1>1, LaunchesAssumption DEF LaunchTypes, Daemon!Cs, AnyLaunch
<1>3. /\ script \in Seq(AnyMessage) /\ n \in Nat /\ who.items \in Seq(AnyItem)
      /\ who.ends = "quit" => Len(script) = 1 /\ script[1].kind = "EM"
      /\ who.ends # "quit" =>
          /\ Len(script) = n + 2 /\ script[1].kind = "SOH" /\ script[n + 2].kind = Daemon!End(who.ends)
          /\ \A j \in 1..n : script[j + 1] = Daemon!Message(who.items[j])
  BY <1>2, ScriptDoes
<1>4. state.sent[c] <= Len(script) /\ Len(queue) <= state.sent[c]
      /\ \A i \in 1..Len(queue) : queue[i] = script[read + i]
  BY <1>1 DEF EachClient, ClientRight
<1> HIDE DEF who, script, n
<1>5. Len(queue) \in Nat /\ Len(queue) > 0 /\ m = queue[1] /\ m \in AnyMessage
  BY <1>2
<1>6. Len(script) \in Nat
  BY <1>3
<1> HIDE DEF m, queue
<1>7. m = script[read + 1] /\ read \in Nat /\ read < Len(script)
  BY <1>2, <1>4, <1>5, <1>6
<1>8. read = n + 1 /\ Len(script) = n + 2 => state.sent[c] = n + 2
  BY <1>2, <1>3, <1>4, <1>5
<1> HIDE DEF read
<1>9. who.ends = "quit" => read = 0 /\ m.kind = "EM"
  <2>1. Len(script) = 1 => read + 1 = 1
    BY <1>7
  <2> QED BY <1>3, <1>7, <2>1
<1>10. who.ends # "quit" =>
        /\ read = 0 => m.kind = "SOH"
        /\ read \in 1..n => m = Daemon!Message(who.items[read])
        /\ read = n + 1 => m.kind = Daemon!End(who.ends)
  <2> SUFFICES ASSUME who.ends # "quit"
               PROVE  /\ read = 0 => m.kind = "SOH"
                      /\ read \in 1..n => m = Daemon!Message(who.items[read])
                      /\ read = n + 1 => m.kind = Daemon!End(who.ends)
    OBVIOUS
  <2>1. /\ read = 0 => read + 1 = 1
        /\ read = n + 1 => read + 1 = n + 2
    BY <1>3
  <2>2. m = script[read + 1] /\ script[1].kind = "SOH" /\ script[n + 2].kind = Daemon!End(who.ends)
    BY <1>3, <1>7
  <2>3. read \in 1..n => m = Daemon!Message(who.items[read])
    BY <1>3, <1>7
  <2> QED BY <2>1, <2>2, <2>3
<1> QED BY <1>2, <1>3, <1>5, <1>7, <1>8, <1>9, <1>10 DEF who, n, queue, read, m, script

(* What the daemon may do when it has read a message of a client. *)
MayHold(v, w, c) ==
    LET who == v.s.clients[c]
        read == v.sent[c] - Len(v.queue[c]) + 1
    IN  /\ w.launch[c].held =>
            /\ w.at[c] > 0 /\ ~ HasWindow(w, c) /\ read # Len(Daemon!Script(who))
            /\ who.ends # "quit" =>
                /\ Daemon!HasArguments(w.launch[c].args, who.items, ItemsRead(read))
                /\ Daemon!HasOptions(w.launch[c].opts, who.items, ItemsRead(read))
        /\ read = Len(Daemon!Script(who)) =>
             HasWindow(w, c) \/ c \in w.told \/ who.ends = "quit" \/ v.client[c] = "killed"

(* For the backends: both are true or false. *)
LEMMA Truths == \A v, c : HasWindow(v, c) \in BOOLEAN /\ Waits(v, c) \in BOOLEAN
BY DEF HasWindow, Waits

(* A message is read and its launch is changed: what is to be shown. *)
LEMMA ReadKeeps ==
    ASSUME LaunchInv(state), NEW c \in Daemon!Cs(state), state.launch[c].held, state.queue[c] # <<>>, NEW w,
           LaunchTypes(w),
           w.s = state.s, w.client = state.client, w.sent = state.sent, w.waiting = state.waiting,
           w.queue[c] = Tail(state.queue[c]),
           OtherClients(state, w, c), \A b \in Daemon!Cs(state) \ {c} : HasWindow(w, b) = HasWindow(state, b),
           Sockets(w), EachWindow(w), MayHold(state, w, c)
    PROVE  LaunchInv(w)
<1>1. LaunchTypes(state) /\ EachClient(state, c) /\ Distinct(state)
  BY DEF LaunchInv
<1>3. (\A b : Waits(w, b) = Waits(state, b)) /\ Distinct(w)
  BY <1>1 DEF Waits, Distinct
<1>5. EachClient(w, c)
  <2> DEFINE who == state.s.clients[c]
             sent == state.sent[c]
             queue == state.queue[c]
             opened == HasWindow(w, c)
             told == c \in w.told
             wasopened == HasWindow(state, c)
             wastold == c \in state.told
             waits == Waits(state, c)
             place == state.client[c]
             wasat == state.at[c]
             was == state.launch[c]
             at == w.at[c]
             launch == w.launch[c]
  <2>1. who \in AnyClient /\ sent \in Nat /\ queue \in Seq(AnyMessage)
    BY NextMessage
  <2>2. opened \in BOOLEAN /\ told \in BOOLEAN /\ waits \in BOOLEAN /\ wasopened \in BOOLEAN /\ wastold \in BOOLEAN
    BY Truths
  <2>3. ClientRight(who, place, sent, queue, wasat, was, waits, wasopened, wastold)
    BY <1>1 DEF EachClient
  <2>4. LET read == sent - Len(queue) + 1
        IN  /\ launch.held =>
                 /\ at > 0 /\ ~ opened /\ read # Len(Daemon!Script(who))
                 /\ who.ends # "quit" =>
                     /\ Daemon!HasArguments(launch.args, who.items, ItemsRead(read))
                     /\ Daemon!HasOptions(launch.opts, who.items, ItemsRead(read))
            /\ read = Len(Daemon!Script(who)) => opened \/ told \/ who.ends = "quit" \/ place = "killed"
    BY DEF MayHold
  <2>5. was.held /\ queue # <<>>
    OBVIOUS
  <2> HIDE DEF who, sent, queue, opened, told, waits, wasopened, wastold, place, wasat, was, at, launch
  <2>6. ClientRight(who, place, sent, Tail(queue), at, launch, waits, opened, told)
    BY <2>1, <2>2, <2>3, <2>4, <2>5, ReadOne
  <2> QED BY <1>3, <2>6 DEF EachClient, who, sent, queue, opened, told, waits, place, at, launch
<1> QED BY <1>3, <1>5, OneClientOpens

(* An option or an argument is added, or nothing is. *)
LEMMA HoldsKeeps ==
    ASSUME LaunchInv(state), NEW c \in Daemon!Cs(state), state.launch[c].held, state.queue[c] # <<>>,
           NEW launch \in AnyPending, launch.held,
           LET who == state.s.clients[c]
               read == state.sent[c] - Len(state.queue[c]) + 1
           IN  /\ read # Len(Daemon!Script(who))
               /\ Daemon!HasArguments(launch.args, who.items, ItemsRead(read))
               /\ Daemon!HasOptions(launch.opts, who.items, ItemsRead(read))
    PROVE  LaunchInv([state EXCEPT !.queue[c] = Tail(@), !.launch[c] = launch])
<1> DEFINE rest == Tail(state.queue[c])
           w == [state EXCEPT !.queue[c] = rest, !.launch[c] = launch]
<1>1. LaunchTypes(state) /\ EachClient(state, c) /\ Sockets(state) /\ EachWindow(state)
  BY DEF LaunchInv
<1>2. /\ w.s = state.s /\ w.windows = state.windows /\ w.waiting = state.waiting /\ w.told = state.told
      /\ w.sent = state.sent /\ w.queue = [state.queue EXCEPT ![c] = rest] /\ w.at = state.at
      /\ w.launch = [state.launch EXCEPT ![c] = launch] /\ w.path = state.path /\ w.daemon = state.daemon
      /\ w.client = state.client
  BY <1>1 DEF LaunchTypes
<1>3. LaunchTypes(w)
  <2>1. state.queue[c] \in Seq(AnyMessage) /\ rest \in Seq(AnyMessage)
    BY <1>1 DEF LaunchTypes, Daemon!Cs
  <2> HIDE DEF rest
  <2> QED BY <1>1, <2>1 DEF LaunchTypes, Daemon!Cs
<1> HIDE DEF w
<1>4. (\A b : HasWindow(w, b) = HasWindow(state, b)) /\ Sockets(w) /\ EachWindow(w)
  BY <1>1, <1>2 DEF HasWindow, Sockets, Daemon!Ds, EachWindow
<1>5. w.at = [state.at EXCEPT ![c] = state.at[c]] /\ state.at[c] > 0 /\ ~ HasWindow(state, c)
  BY <1>1, <1>2 DEF LaunchTypes, Daemon!Cs, EachClient, ClientRight
<1>6. w.queue[c] = rest /\ w.launch[c] = launch /\ OtherClients(state, w, c)
  <2>1. /\ w.queue[c] = rest /\ w.launch[c] = launch
        /\ \A b \in Daemon!Cs(state) \ {c} : w.queue[b] = state.queue[b] /\ w.launch[b] = state.launch[b]
    BY <1>1, <1>2 DEF LaunchTypes, Daemon!Cs
  <2> QED BY <1>2, <2>1 DEF OtherClients, Waits
<1>7. MayHold(state, w, c)
  BY <1>2, <1>4, <1>5, <1>6 DEF MayHold
<1>8. LaunchInv(w)
  BY <1>2, <1>3, <1>4, <1>6, <1>7, ReadKeeps
<1> QED BY <1>8 DEF w

(* free_pending_launch() after an answer or a command to quit *)
LEMMA FreesKeeps ==
    ASSUME LaunchInv(state), NEW c \in Daemon!Cs(state), state.launch[c].held, state.queue[c] # <<>>,
           NEW told \in {state.told, state.told \cup {c}}, NEW daemon,
           \/ daemon = state.daemon
           \/ state.at[c] \in Daemon!Ds(state) /\ state.daemon[state.at[c]] \in {"up", "stopping"}
              /\ daemon = [state.daemon EXCEPT ![state.at[c]] = "stopping"],
           c \in told \/ state.s.clients[c].ends = "quit" \/ state.client[c] = "killed"
    PROVE  LaunchInv([state EXCEPT !.queue[c] = Tail(@), !.launch[c] = Daemon!None, !.at[c] = -1, !.told = told,
                      !.daemon = daemon])
<1> DEFINE rest == Tail(state.queue[c])
           w == [state EXCEPT !.queue[c] = rest, !.launch[c] = Daemon!None, !.at[c] = -1, !.told = told,
                 !.daemon = daemon]
<1>1. LaunchTypes(state) /\ EachClient(state, c) /\ Sockets(state) /\ EachWindow(state)
  BY DEF LaunchInv
<1>2. /\ w.s = state.s /\ w.windows = state.windows /\ w.waiting = state.waiting /\ w.told = told
      /\ w.sent = state.sent /\ w.queue = [state.queue EXCEPT ![c] = rest] /\ w.at = [state.at EXCEPT ![c] = -1]
      /\ w.launch = [state.launch EXCEPT ![c] = Daemon!None] /\ w.path = state.path /\ w.daemon = daemon
      /\ w.client = state.client
  BY <1>1 DEF LaunchTypes
<1>3. LaunchTypes(w)
  <2>1. state.queue[c] \in Seq(AnyMessage) /\ rest \in Seq(AnyMessage)
    BY <1>1 DEF LaunchTypes, Daemon!Cs
  <2>2. Daemon!None \in AnyPending
    BY DEF Daemon!None, AnyPending
  <2>3. daemon \in [1..state.s.daemons -> DaemonPlaces]
    <3>1. state.daemon \in [1..state.s.daemons -> DaemonPlaces] /\ "stopping" \in DaemonPlaces
      BY <1>1 DEF LaunchTypes, DaemonPlaces
    <3> QED BY <3>1
  <2>4. told \subseteq Daemon!Cs(state) /\ -1 \in -1..state.s.daemons
    <3>1. state.s.daemons \in Nat
      BY <1>1, LaunchesAssumption DEF LaunchTypes, AnyLaunch
    <3>2. state.told \subseteq Daemon!Cs(state)
      BY <1>1 DEF LaunchTypes, Daemon!Cs
    <3> QED BY <3>1, <3>2
  <2>5. [state.at EXCEPT ![c] = -1] \in [DOMAIN state.s.clients -> -1..state.s.daemons]
    BY <1>1, <2>4 DEF LaunchTypes, Daemon!Cs
  <2>6. [state.queue EXCEPT ![c] = rest] \in [DOMAIN state.s.clients -> Seq(AnyMessage)]
    BY <1>1, <2>1 DEF LaunchTypes, Daemon!Cs
  <2>7. [state.launch EXCEPT ![c] = Daemon!None] \in [DOMAIN state.s.clients -> AnyPending]
    BY <1>1, <2>2 DEF LaunchTypes, Daemon!Cs
  <2> DEFINE at == [state.at EXCEPT ![c] = -1]
             queue == [state.queue EXCEPT ![c] = rest]
             launch == [state.launch EXCEPT ![c] = Daemon!None]
  <2>8. w = [state EXCEPT !.queue = queue, !.launch = launch, !.at = at, !.told = told, !.daemon = daemon]
    BY <1>1 DEF LaunchTypes
  <2> HIDE DEF at, queue, launch
  <2>9. told \in SUBSET DOMAIN state.s.clients
    BY <1>1, <2>4 DEF LaunchTypes, Daemon!Cs
  <2> QED BY <1>1, <2>3, <2>5, <2>6, <2>7, <2>8, <2>9 DEF LaunchTypes, at, queue, launch
<1> HIDE DEF w
<1>4. Sockets(w)
  <2>1. DOMAIN daemon = Daemon!Ds(state) /\ \A d \in Daemon!Ds(state) :
            daemon[d] = state.daemon[d] \/ (state.daemon[d] \in {"up", "stopping"} /\ daemon[d] = "stopping")
    BY <1>1 DEF LaunchTypes, Daemon!Ds
  <2>2. state.path # 0 => state.path \in Daemon!Ds(state)
    BY <1>1, LaunchesAssumption DEF LaunchTypes, Daemon!Ds, AnyLaunch
  <2> QED BY <1>1, <1>2, <2>1, <2>2 DEF Sockets, Daemon!Ds
<1>5. (\A b : HasWindow(w, b) = HasWindow(state, b)) /\ EachWindow(w)
  BY <1>1, <1>2 DEF HasWindow, EachWindow
<1>6. w.queue[c] = rest /\ w.launch[c] = Daemon!None /\ OtherClients(state, w, c)
  <2>1. /\ w.queue[c] = rest /\ w.launch[c] = Daemon!None
        /\ \A b \in Daemon!Cs(state) \ {c} : w.queue[b] = state.queue[b] /\ w.launch[b] = state.launch[b]
           /\ w.at[b] = state.at[b]
    BY <1>1, <1>2 DEF LaunchTypes, Daemon!Cs
  <2> QED BY <1>2, <2>1 DEF OtherClients, Waits
<1>7. ~ Daemon!None.held
  BY DEF Daemon!None
<1>8. MayHold(state, w, c)
  BY <1>2, <1>6, <1>7 DEF MayHold
<1>9. LaunchInv(w)
  BY <1>2, <1>3, <1>4, <1>5, <1>6, <1>8, ReadKeeps
<1> QED BY <1>9 DEF w

(* The window of a client is opened. *)
LEMMA OpensKeeps ==
    ASSUME LaunchInv(state), NEW c \in Daemon!Cs(state), state.launch[c].held, state.queue[c] # <<>>,
           LET who == state.s.clients[c]
               n == Len(who.items)
           IN  who.ends = "open" /\ state.sent[c] - Len(state.queue[c]) = n + 1 /\ state.sent[c] = n + 2
    PROVE  LaunchInv([state EXCEPT !.queue[c] = Tail(@), !.launch[c] = Daemon!None, !.at[c] = -1,
                               !.windows = Append(@, [client |-> c, opts |-> state.launch[c].opts,
                                                      args |-> state.launch[c].args])])
<1> DEFINE rest == Tail(state.queue[c])
           who == state.s.clients[c]
           n == Len(who.items)
           Window == [client : Daemon!Cs(state), opts : Seq(AnyOption), args : Seq(Texts)]
           new == [client |-> c, opts |-> state.launch[c].opts, args |-> state.launch[c].args]
           windows == Append(state.windows, new)
           w == [state EXCEPT !.queue[c] = rest, !.launch[c] = Daemon!None, !.at[c] = -1, !.windows = windows]
<1>1. LaunchTypes(state) /\ EachClient(state, c) /\ Sockets(state) /\ EachWindow(state)
  BY DEF LaunchInv
<1>2. /\ w.s = state.s /\ w.windows = windows /\ w.waiting = state.waiting /\ w.told = state.told
      /\ w.sent = state.sent /\ w.queue = [state.queue EXCEPT ![c] = rest] /\ w.at = [state.at EXCEPT ![c] = -1]
      /\ w.launch = [state.launch EXCEPT ![c] = Daemon!None] /\ w.path = state.path /\ w.daemon = state.daemon
      /\ w.client = state.client
  BY <1>1 DEF LaunchTypes
<1>3. new \in Window /\ state.windows \in Seq(Window)
  BY <1>1 DEF LaunchTypes, Daemon!Cs, AnyPending
<1>4. who \in AnyClient /\ n \in Nat /\ Len(Daemon!Script(who)) = n + 2 /\ state.sent[c] \in Nat
  BY NextMessage
<1>5. WindowRight(who, state.sent[c], new) /\ ~ HasWindow(state, c)
  <2>1. Daemon!HasArguments(state.launch[c].args, who.items, n)
        /\ Daemon!HasOptions(state.launch[c].opts, who.items, n) /\ ~ HasWindow(state, c)
    <3>1. ItemsRead(n + 1) = n
      BY <1>4 DEF ItemsRead
    <3> HIDE DEF n
    <3>2. who.ends # "quit" /\ state.sent[c] - Len(state.queue[c]) = n + 1
      BY DEF n
    <3> QED BY <1>1, <3>1, <3>2 DEF EachClient, ClientRight
  <2> QED BY <1>4, <2>1 DEF WindowRight
<1>6. /\ windows \in Seq(Window) /\ Len(windows) = Len(state.windows) + 1 /\ Len(state.windows) \in Nat
      /\ windows[Len(windows)] = new /\ \A k \in 1..Len(state.windows) : windows[k] = state.windows[k]
  <2> HIDE DEF Window, new
  <2> QED BY <1>3
<1>7. new.client = c /\ \A x \in Window : x.client \in Daemon!Cs(state)
  OBVIOUS
<1> HIDE DEF windows, new, Window
<1>8. LaunchTypes(w)
  <2>1. state.queue[c] \in Seq(AnyMessage) /\ rest \in Seq(AnyMessage)
    BY <1>1 DEF LaunchTypes, Daemon!Cs
  <2>2. Daemon!None \in AnyPending
    BY DEF Daemon!None, AnyPending
  <2>3. windows \in Seq([client : DOMAIN state.s.clients, opts : Seq(AnyOption), args : Seq(Texts)])
    BY <1>1, <1>6 DEF Window, LaunchTypes, Daemon!Cs
  <2>4. -1 \in -1..state.s.daemons
    BY <1>1, LaunchesAssumption DEF LaunchTypes, AnyLaunch
  <2>5. [state.at EXCEPT ![c] = -1] \in [DOMAIN state.s.clients -> -1..state.s.daemons]
    BY <1>1, <2>4 DEF LaunchTypes, Daemon!Cs
  <2>6. [state.queue EXCEPT ![c] = rest] \in [DOMAIN state.s.clients -> Seq(AnyMessage)]
    BY <1>1, <2>1 DEF LaunchTypes, Daemon!Cs
  <2>7. [state.launch EXCEPT ![c] = Daemon!None] \in [DOMAIN state.s.clients -> AnyPending]
    BY <1>1, <2>2 DEF LaunchTypes, Daemon!Cs
  <2> DEFINE at == [state.at EXCEPT ![c] = -1]
             queue == [state.queue EXCEPT ![c] = rest]
             launch == [state.launch EXCEPT ![c] = Daemon!None]
  <2>8. w = [state EXCEPT !.queue = queue, !.launch = launch, !.at = at, !.windows = windows]
    BY <1>1 DEF LaunchTypes
  <2> HIDE DEF at, queue, launch
  <2> QED BY <1>1, <2>3, <2>5, <2>6, <2>7, <2>8 DEF LaunchTypes, Daemon!Cs, at, queue, launch
<1> HIDE DEF w
<1>9. \A k \in 1..Len(windows) : k = Len(windows) \/ k \in 1..Len(state.windows)
  BY <1>6
<1>10. (\A b \in Daemon!Cs(state) \ {c} : HasWindow(w, b) = HasWindow(state, b)) /\ HasWindow(w, c)
  <2>1. ASSUME NEW b \in Daemon!Cs(state) \ {c} PROVE HasWindow(w, b) = HasWindow(state, b)
    <3>0. DOMAIN w.windows = 1..Len(windows) /\ DOMAIN state.windows = 1..Len(state.windows) /\ w.windows = windows
      BY <1>2, <1>3, <1>6
    <3>1. HasWindow(state, b) => HasWindow(w, b)
      BY <1>6, <3>0 DEF HasWindow
    <3>2. HasWindow(w, b) => HasWindow(state, b)
      BY <1>6, <1>7, <1>9, <3>0 DEF HasWindow
    <3> QED BY <3>1, <3>2 DEF HasWindow
  <2>2. HasWindow(w, c)
    BY <1>2, <1>6, <1>7 DEF HasWindow
  <2> QED BY <2>1, <2>2
<1>11. EachWindow(w)
  <2>1. ASSUME NEW k \in 1..Len(windows)
        PROVE  WindowRight(state.s.clients[windows[k].client], state.sent[windows[k].client], windows[k])
    <3>1. CASE k = Len(windows)
      BY <1>5, <1>6, <1>7, <3>1
    <3>2. CASE k \in 1..Len(state.windows)
      BY <1>1, <1>3, <1>6, <3>2 DEF EachWindow
    <3> QED BY <1>9, <3>1, <3>2
  <2>2. ASSUME NEW j \in 1..Len(windows), NEW k \in 1..Len(windows), windows[j].client = windows[k].client
        PROVE  j = k
    <3>1. \A i \in 1..Len(state.windows) : windows[i].client # c
      BY <1>3, <1>5, <1>6 DEF HasWindow
    <3>2. CASE j = Len(windows)
      BY <1>6, <1>7, <1>9, <2>2, <3>1, <3>2
    <3>3. CASE k = Len(windows)
      BY <1>6, <1>7, <1>9, <2>2, <3>1, <3>3
    <3>4. CASE j \in 1..Len(state.windows) /\ k \in 1..Len(state.windows)
      BY <1>1, <1>3, <1>6, <2>2, <3>4 DEF EachWindow
    <3> QED BY <1>9, <3>2, <3>3, <3>4
  <2>3. DOMAIN w.windows = 1..Len(windows)
    BY <1>2, <1>6
  <2> QED BY <1>2, <2>1, <2>2, <2>3, Zenon DEF EachWindow
<1>12. Sockets(w)
  BY <1>1, <1>2 DEF Sockets, Daemon!Ds
<1>13. ~ Daemon!None.held
  BY DEF Daemon!None
<1>14. w.queue[c] = rest /\ w.launch[c] = Daemon!None /\ OtherClients(state, w, c)
  <2>1. /\ w.queue[c] = rest /\ w.launch[c] = Daemon!None
        /\ \A b \in Daemon!Cs(state) \ {c} : w.queue[b] = state.queue[b] /\ w.launch[b] = state.launch[b]
           /\ w.at[b] = state.at[b]
    BY <1>1, <1>2 DEF LaunchTypes, Daemon!Cs
  <2> QED BY <1>2, <2>1 DEF OtherClients, Waits
<1>15. MayHold(state, w, c)
  BY <1>10, <1>13, <1>14 DEF MayHold
<1>16. LaunchInv(w)
  BY <1>2, <1>8, <1>10, <1>11, <1>12, <1>14, <1>15, ReadKeeps
<1> QED BY <1>16 DEF w, windows, new

(* What a message does, as the record it leaves. *)
LEMMA TakenIs ==
    ASSUME LaunchTypes(state), NEW c \in Daemon!Cs(state)
    PROVE  LET was == state.launch[c]
               m == Head(state.queue[c])
               rest == Tail(state.queue[c])
               v == [state EXCEPT !.queue[c] = rest]
           IN  /\ m.kind = "SOH" => Daemon!Taken(v, c, m) = [state EXCEPT !.queue[c] = rest, !.launch[c] = was]
               /\ m.kind = "GS" =>
                    Daemon!Taken(v, c, m) = [state EXCEPT !.queue[c] = rest,
                        !.launch[c] = [was EXCEPT !.opts = Append(was.opts, [value |-> m.value, equals |-> FALSE])]]
               /\ m.kind = "FS" =>
                    Daemon!Taken(v, c, m) = [state EXCEPT !.queue[c] = rest,
                        !.launch[c] = [was EXCEPT !.opts = Append(was.opts, [value |-> m.value, equals |-> TRUE])]]
               /\ m.kind = "RS" =>
                    Daemon!Taken(v, c, m) = [state EXCEPT !.queue[c] = rest,
                        !.launch[c] = IF m.value = "" THEN was ELSE [was EXCEPT !.args = Append(was.args, m.value)]]
               /\ m.kind = "ETX" =>
                    Daemon!Taken(v, c, m) = [state EXCEPT !.queue[c] = rest, !.launch[c] = Daemon!None, !.at[c] = -1,
                        !.windows = Append(@, [client |-> c, opts |-> was.opts, args |-> was.args])]
               /\ m.kind \in {"NAK", "ENQ"} =>
                    Daemon!Taken(v, c, m) = [state EXCEPT !.queue[c] = rest, !.launch[c] = Daemon!None, !.at[c] = -1,
                        !.told = IF state.client[c] = "killed" THEN state.told ELSE state.told \cup {c}]
               /\ m.kind = "EM" =>
                    Daemon!Taken(v, c, m) = [state EXCEPT !.queue[c] = rest, !.launch[c] = Daemon!None, !.at[c] = -1,
                        !.daemon[state.at[c]] = "stopping"]
<1> DEFINE was == state.launch[c]
           m == Head(state.queue[c])
           rest == Tail(state.queue[c])
           v == [state EXCEPT !.queue[c] = rest]
<1> HIDE DEF m, rest
<1>1. ASSUME m.kind = "SOH"
      PROVE  Daemon!Taken(v, c, m) = [state EXCEPT !.queue[c] = rest, !.launch[c] = was]
  BY <1>1 DEF Daemon!Taken, LaunchTypes, Daemon!Cs
<1>2. ASSUME m.kind = "GS"
      PROVE  Daemon!Taken(v, c, m) = [state EXCEPT !.queue[c] = rest,
            !.launch[c] = [was EXCEPT !.opts = Append(was.opts, [value |-> m.value, equals |-> FALSE])]]
  <2> DEFINE option == [value |-> m.value, equals |-> FALSE]
  <2>1. Daemon!Taken(v, c, m) = [v EXCEPT !.launch[c].opts = Append(@, option)]
    BY <1>2 DEF Daemon!Taken
  <2> HIDE DEF option
  <2>2. [v EXCEPT !.launch[c].opts = Append(@, option)]
            = [state EXCEPT !.queue[c] = rest, !.launch[c] = [was EXCEPT !.opts = Append(was.opts, option)]]
    BY DEF LaunchTypes, Daemon!Cs
  <2> QED BY <1>2, <2>1, <2>2 DEF option
<1>3. ASSUME m.kind = "FS"
      PROVE  Daemon!Taken(v, c, m) = [state EXCEPT !.queue[c] = rest,
            !.launch[c] = [was EXCEPT !.opts = Append(was.opts, [value |-> m.value, equals |-> TRUE])]]
  <2> DEFINE option == [value |-> m.value, equals |-> TRUE]
  <2>1. Daemon!Taken(v, c, m) = [v EXCEPT !.launch[c].opts = Append(@, option)]
    BY <1>3 DEF Daemon!Taken
  <2> HIDE DEF option
  <2>2. [v EXCEPT !.launch[c].opts = Append(@, option)]
            = [state EXCEPT !.queue[c] = rest, !.launch[c] = [was EXCEPT !.opts = Append(was.opts, option)]]
    BY DEF LaunchTypes, Daemon!Cs
  <2> QED BY <1>3, <2>1, <2>2 DEF option
<1>4. ASSUME m.kind = "RS"
      PROVE  Daemon!Taken(v, c, m) = [state EXCEPT !.queue[c] = rest,
            !.launch[c] = IF m.value = "" THEN was ELSE [was EXCEPT !.args = Append(was.args, m.value)]]
  <2>1. CASE m.value = ""
    BY <1>4, <2>1 DEF Daemon!Taken, LaunchTypes, Daemon!Cs
  <2>2. CASE m.value # ""
    <3>1. Daemon!Taken(v, c, m) = [v EXCEPT !.launch[c].args = Append(@, m.value)]
      BY <1>4, <2>2 DEF Daemon!Taken
    <3>2. [v EXCEPT !.launch[c].args = Append(@, m.value)]
            = [state EXCEPT !.queue[c] = rest, !.launch[c] = [was EXCEPT !.args = Append(was.args, m.value)]]
      BY DEF LaunchTypes, Daemon!Cs
    <3> QED BY <1>4, <2>2, <3>1, <3>2
  <2> QED BY <2>1, <2>2
<1>5. ASSUME m.kind = "ETX"
      PROVE  Daemon!Taken(v, c, m) = [state EXCEPT !.queue[c] = rest, !.launch[c] = Daemon!None, !.at[c] = -1,
            !.windows = Append(@, [client |-> c, opts |-> was.opts, args |-> was.args])]
  <2> DEFINE new == [client |-> c, opts |-> was.opts, args |-> was.args]
  <2>1. v.launch[c] = was
    BY DEF LaunchTypes
  <2>2. Daemon!Taken(v, c, m) = [[v EXCEPT !.windows = Append(@, new)] EXCEPT !.launch[c] = Daemon!None, !.at[c] = -1]
    BY <1>5, <2>1 DEF Daemon!Taken, Daemon!Opened, Daemon!free_pending_launch
  <2> HIDE DEF new
  <2>3. [[v EXCEPT !.windows = Append(@, new)] EXCEPT !.launch[c] = Daemon!None, !.at[c] = -1]
            = [state EXCEPT !.queue[c] = rest, !.launch[c] = Daemon!None, !.at[c] = -1, !.windows = Append(@, new)]
    BY DEF LaunchTypes
  <2> QED BY <1>5, <2>2, <2>3 DEF new
<1>6. ASSUME m.kind \in {"NAK", "ENQ"}
      PROVE  Daemon!Taken(v, c, m) = [state EXCEPT !.queue[c] = rest, !.launch[c] = Daemon!None, !.at[c] = -1,
            !.told = IF state.client[c] = "killed" THEN state.told ELSE state.told \cup {c}]
  <2> DEFINE told == IF state.client[c] = "killed" THEN state.told ELSE state.told \cup {c}
  <2>1. v.told = state.told /\ v.client = state.client
    BY DEF LaunchTypes
  <2>2. Daemon!Taken(v, c, m) = [[v EXCEPT !.told = told] EXCEPT !.launch[c] = Daemon!None, !.at[c] = -1]
    BY <1>6, <2>1 DEF Daemon!Taken, Daemon!free_pending_launch
  <2> HIDE DEF told
  <2>3. [[v EXCEPT !.told = told] EXCEPT !.launch[c] = Daemon!None, !.at[c] = -1]
            = [state EXCEPT !.queue[c] = rest, !.launch[c] = Daemon!None, !.at[c] = -1, !.told = told]
    BY DEF LaunchTypes
  <2> QED BY <1>6, <2>2, <2>3 DEF told
<1>7. ASSUME m.kind = "EM"
      PROVE  Daemon!Taken(v, c, m) = [state EXCEPT !.queue[c] = rest, !.launch[c] = Daemon!None, !.at[c] = -1,
            !.daemon[state.at[c]] = "stopping"]
  <2>1. v.at = state.at
    BY DEF LaunchTypes
  <2>2. Daemon!Taken(v, c, m) = [[v EXCEPT !.daemon[state.at[c]] = "stopping"] EXCEPT !.launch[c] = Daemon!None,
                                 !.at[c] = -1]
    BY <1>7, <2>1 DEF Daemon!Taken, Daemon!free_pending_launch
  <2>3. [[v EXCEPT !.daemon[state.at[c]] = "stopping"] EXCEPT !.launch[c] = Daemon!None, !.at[c] = -1]
            = [state EXCEPT !.queue[c] = rest, !.launch[c] = Daemon!None, !.at[c] = -1,
               !.daemon[state.at[c]] = "stopping"]
    BY DEF LaunchTypes
  <2> QED BY <1>7, <2>2, <2>3
<1> QED BY <1>1, <1>2, <1>3, <1>4, <1>5, <1>6, <1>7, Zenon DEF m, rest

(* A message is read and does what it does: handle_read(). *)
LEMMA HandleKeeps ==
    ASSUME LaunchInv(state), NEW c \in Daemon!Cs(state), Daemon!handle_launch(c)
    PROVE  LaunchInv(state')
<1> DEFINE who == state.s.clients[c]
           n == Len(who.items)
           read == state.sent[c] - Len(state.queue[c])
           m == Head(state.queue[c])
           was == state.launch[c]
           rest == Tail(state.queue[c])
           base == [state EXCEPT !.queue[c] = rest]
<1>1. LaunchTypes(state) /\ EachClient(state, c)
  BY DEF LaunchInv
<1>2. was.held /\ state.queue[c] # <<>> /\ state' = Daemon!Taken(base, c, m)
      /\ state.at[c] \in Daemon!Ds(state) /\ state.daemon[state.at[c]] \in {"up", "stopping"}
  <2>1. was.held /\ state.queue[c] # <<>> /\ state' = Daemon!Taken(base, c, m) /\ Daemon!Up(state.at[c])
    BY DEF Daemon!handle_launch
  <2>2. state.at[c] \in -1..state.s.daemons /\ state.at[c] > 0 /\ Daemon!Ds(state) = 1..state.s.daemons
        /\ state.s.daemons \in Nat
    <3>1. state.at[c] \in -1..state.s.daemons /\ Daemon!Ds(state) = 1..state.s.daemons /\ state.s.daemons \in Nat
      BY <1>1, LaunchesAssumption DEF LaunchTypes, Daemon!Cs, Daemon!Ds, AnyLaunch
    <3>2. state.at[c] > 0
      BY <1>1, <2>1 DEF EachClient, ClientRight
    <3> QED BY <3>1, <3>2
  <2> QED BY <2>1, <2>2 DEF Daemon!Up
<1>3. /\ who \in AnyClient /\ n \in Nat /\ who.items \in Seq(AnyItem) /\ state.sent[c] \in Nat
      /\ read \in Nat /\ read < Len(Daemon!Script(who)) /\ m \in AnyMessage
      /\ who.ends = "quit" => m.kind = "EM" /\ read = 0 /\ Len(Daemon!Script(who)) = 1
      /\ who.ends # "quit" =>
          /\ Len(Daemon!Script(who)) = n + 2
          /\ read = 0 => m.kind = "SOH"
          /\ read \in 1..n => m = Daemon!Message(who.items[read])
          /\ read = n + 1 => m.kind = Daemon!End(who.ends) /\ state.sent[c] = n + 2
  BY <1>2, NextMessage
<1>4. was \in AnyPending /\ was.args \in Seq(Texts) /\ was.opts \in Seq(AnyOption)
  BY <1>1 DEF LaunchTypes, Daemon!Cs, AnyPending
<1>5. who.ends # "quit" =>
        Daemon!HasArguments(was.args, who.items, ItemsRead(read))
        /\ Daemon!HasOptions(was.opts, who.items, ItemsRead(read))
  BY <1>1, <1>2 DEF EachClient, ClientRight
<1>6. LaunchTypes(state) /\ state' = Daemon!Taken(base, c, m)
  BY <1>1, <1>2
<1>7. CASE who.ends = "quit"
  <2> DEFINE daemon == [state.daemon EXCEPT ![state.at[c]] = "stopping"]
             w == [state EXCEPT !.queue[c] = rest, !.launch[c] = Daemon!None, !.at[c] = -1, !.told = state.told,
                   !.daemon = daemon]
  <2>1. LaunchInv(w)
    BY <1>2, <1>7, FreesKeeps
  <2>2. state' = w
    <3>1. m.kind = "EM"
      BY <1>3, <1>7
    <3>2. state' = [state EXCEPT !.queue[c] = rest, !.launch[c] = Daemon!None, !.at[c] = -1,
                    !.daemon[state.at[c]] = "stopping"]
      BY <1>6, <3>1, TakenIs, Zenon
    <3> QED BY <1>1, <3>2 DEF LaunchTypes
  <2> QED BY <2>1, <2>2
<1>8. CASE who.ends # "quit" /\ read = 0
  <2> DEFINE w == [state EXCEPT !.queue[c] = rest, !.launch[c] = was]
  <2>1. LaunchInv(w)
    <3>1. ItemsRead(0) = ItemsRead(0 + 1) /\ read + 1 # Len(Daemon!Script(who)) /\ read + 1 = 0 + 1
      BY <1>3, <1>8 DEF ItemsRead
    <3> QED BY <1>2, <1>4, <1>5, <1>8, <3>1, HoldsKeeps
  <2>2. state' = w
    <3>1. m.kind = "SOH"
      BY <1>3, <1>8
    <3> QED BY <1>6, <3>1, TakenIs, Zenon
  <2> QED BY <2>1, <2>2
<1>9. CASE who.ends # "quit" /\ read \in 1..n
  <2> DEFINE item == who.items[read]
             opts == IF item.kind = "arg" THEN was.opts
                     ELSE Append(was.opts, [value |-> item.value, equals |-> item.kind = "short"])
             args == IF item.kind = "arg" /\ item.value # "" THEN Append(was.args, item.value) ELSE was.args
             launch == [was EXCEPT !.opts = opts, !.args = args]
             w == [state EXCEPT !.queue[c] = rest, !.launch[c] = launch]
  <2>1. item \in AnyItem /\ m = Daemon!Message(item) /\ ItemsRead(read) = read - 1
        /\ ItemsRead(read + 1) = read /\ read + 1 # Len(Daemon!Script(who))
    <3>1. item \in AnyItem /\ m = Daemon!Message(item)
      BY <1>3, <1>9
    <3>2. read \in Nat /\ read # 0 /\ Len(Daemon!Script(who)) = n + 2 /\ read # n + 1
      BY <1>3, <1>9
    <3> DEFINE end == Len(Daemon!Script(who))
    <3> HIDE DEF read, end, n
    <3>3. ItemsRead(read) = read - 1 /\ ItemsRead(read + 1) = read /\ read + 1 # end
      BY <1>3, <3>2 DEF ItemsRead, end
    <3> QED BY <3>1, <3>3 DEF end
  <2>2. Daemon!HasArguments(args, who.items, read) /\ Daemon!HasOptions(opts, who.items, read)
    <3> DEFINE k == read - 1
    <3>1. k \in Nat /\ k + 1 = read /\ Daemon!HasArguments(was.args, who.items, k)
          /\ Daemon!HasOptions(was.opts, who.items, k)
      BY <1>5, <1>9, <2>1
    <3>2. who.items[k + 1] \in AnyItem
      BY <2>1, <3>1
    <3> HIDE DEF k, was, who
    <3>3. IF who.items[k + 1].kind = "arg" /\ who.items[k + 1].value # ""
          THEN Daemon!HasArguments(Append(was.args, who.items[k + 1].value), who.items, k + 1)
          ELSE Daemon!HasArguments(was.args, who.items, k + 1)
      BY <1>4, <3>1, <3>2, HasNextArgument
    <3>4. IF who.items[k + 1].kind = "arg"
          THEN Daemon!HasOptions(was.opts, who.items, k + 1)
          ELSE Daemon!HasOptions(Append(was.opts, [value |-> who.items[k + 1].value,
                                                   equals |-> who.items[k + 1].kind = "short"]), who.items, k + 1)
      BY <1>4, <3>1, <3>2, HasNextOption
    <3> HIDE DEF read
    <3> QED BY <3>1, <3>3, <3>4, Zenon
  <2>3. item.value \in Texts /\ (item.kind = "short") \in BOOLEAN
    BY <2>1 DEF AnyItem, Texts
  <2>4. args \in Seq(Texts) /\ opts \in Seq(AnyOption)
    <3> DEFINE option == [value |-> item.value, equals |-> item.kind = "short"]
    <3>1. option \in AnyOption
      BY <2>3, Zenon DEF AnyOption
    <3> HIDE DEF option
    <3>2. args \in Seq(Texts)
      <4> DEFINE value == item.value
      <4>1. value \in Texts
        BY <2>3
      <4> HIDE DEF value
      <4>2. Append(was.args, value) \in Seq(Texts)
        BY <1>4, <4>1
      <4> QED BY <1>4, <4>2 DEF value
    <3>3. Append(was.opts, option) \in Seq(AnyOption)
      BY <1>4, <3>1
    <3> QED BY <1>4, <3>2, <3>3 DEF option
  <2>5. launch \in AnyPending /\ launch.held /\ launch.args = args /\ launch.opts = opts
    <3> HIDE DEF args, opts
    <3> QED BY <1>2, <1>4, <2>4 DEF AnyPending
  <2>6. LaunchInv(w)
    <3> HIDE DEF launch, args, opts
    <3> QED BY <1>2, <2>1, <2>2, <2>5, HoldsKeeps
  <2>7. state' = w
    <3>1. CASE item.kind = "long"
      <4>1. m.kind = "GS" /\ m.value = item.value
        BY <2>1, <3>1 DEF Daemon!Message, Daemon!send_opt
      <4>2. launch = [was EXCEPT !.opts = Append(was.opts, [value |-> m.value, equals |-> FALSE])]
        BY <1>4, <3>1, <4>1 DEF AnyPending
      <4> QED BY <1>6, <4>1, <4>2, TakenIs, Zenon DEF was
    <3>2. CASE item.kind = "short"
      <4>1. m.kind = "FS" /\ m.value = item.value
        BY <2>1, <3>2 DEF Daemon!Message, Daemon!send_short_opt
      <4>2. launch = [was EXCEPT !.opts = Append(was.opts, [value |-> m.value, equals |-> TRUE])]
        BY <1>4, <3>2, <4>1 DEF AnyPending
      <4> QED BY <1>6, <4>1, <4>2, TakenIs, Zenon DEF was
    <3>3. CASE item.kind = "arg"
      <4>1. m.kind = "RS" /\ m.value = item.value
        BY <2>1, <3>3 DEF Daemon!Message, Daemon!send_arg
      <4>2. launch = IF m.value = "" THEN was ELSE [was EXCEPT !.args = Append(was.args, m.value)]
        BY <1>4, <3>3, <4>1 DEF AnyPending
      <4> QED BY <1>6, <4>1, <4>2, TakenIs, Zenon DEF was
    <3> QED BY <2>1, <3>1, <3>2, <3>3 DEF AnyItem
  <2> QED BY <2>6, <2>7
<1>10. CASE who.ends # "quit" /\ read = n + 1 /\ who.ends = "open"
  <2> DEFINE new == [client |-> c, opts |-> was.opts, args |-> was.args]
             w == [state EXCEPT !.queue[c] = rest, !.launch[c] = Daemon!None, !.at[c] = -1, !.windows = Append(@, new)]
  <2>1. LaunchInv(w)
    BY <1>2, <1>3, <1>10, OpensKeeps
  <2>2. state' = w
    <3>1. m.kind = "ETX"
      BY <1>3, <1>10 DEF Daemon!End
    <3> QED BY <1>6, <3>1, TakenIs, Zenon DEF was
  <2> QED BY <2>1, <2>2
<1>11. CASE who.ends \in {"usage", "version"} /\ read = n + 1
  <2> DEFINE told == IF state.client[c] = "killed" THEN state.told ELSE state.told \cup {c}
             w == [state EXCEPT !.queue[c] = rest, !.launch[c] = Daemon!None, !.at[c] = -1, !.told = told,
                   !.daemon = state.daemon]
  <2>1. LaunchInv(w)
    <3> DEFINE daemon == state.daemon
    <3>1. told \in {state.told, state.told \cup {c}} /\ (c \in told \/ state.client[c] = "killed")
      OBVIOUS
    <3>2. w = [state EXCEPT !.queue[c] = Tail(@), !.launch[c] = Daemon!None, !.at[c] = -1, !.told = told,
               !.daemon = daemon] /\ daemon = state.daemon
      BY DEF w
    <3> HIDE DEF told, w, daemon
    <3> QED BY <1>2, <3>1, <3>2, FreesKeeps
  <2>2. state' = w
    <3>1. m.kind \in {"NAK", "ENQ"}
      BY <1>3, <1>11 DEF Daemon!End
    <3>2. state' = [state EXCEPT !.queue[c] = rest, !.launch[c] = Daemon!None, !.at[c] = -1, !.told = told]
      BY <1>6, <3>1, TakenIs, Zenon DEF told
    <3> QED BY <1>1, <3>2 DEF LaunchTypes
  <2> QED BY <2>1, <2>2
<1>12. who.ends \in {"open", "usage", "version", "quit"}
  BY <1>3 DEF AnyClient
<1>13. who.ends # "quit" => read = 0 \/ read \in 1..n \/ read = n + 1
  <2> HIDE DEF read, who, n
  <2> QED BY <1>3
<1> QED BY <1>7, <1>8, <1>9, <1>10, <1>11, <1>12, <1>13

----------------------------------------------------------------------------
(* The steps of a daemon. *)
LEMMA BindKeeps ==
    ASSUME LaunchInv(state), NEW d \in Daemon!Ds(state), Daemon!Bind(d)
    PROVE  LaunchInv(state')
<1>1. LaunchTypes(state) /\ Sockets(state) /\ state.daemon[d] = "forked" /\ d # 0
  BY LaunchesAssumption DEF LaunchInv, LaunchTypes, Daemon!Bind, Daemon!Ds, AnyLaunch
<1>2. CASE state.path = 0
  <2> DEFINE w == [state EXCEPT !.path = d, !.daemon[d] = "bound"]
  <2>1. /\ w.s = state.s /\ w.windows = state.windows /\ w.waiting = state.waiting /\ w.told = state.told
        /\ w.at = state.at
        /\ w.sent = state.sent /\ w.queue = state.queue /\ w.launch = state.launch /\ w.client = state.client
        /\ w.path = d /\ w.daemon = [state.daemon EXCEPT ![d] = "bound"]
    BY <1>1 DEF LaunchTypes
  <2>2. LaunchTypes(w)
    <3>1. d \in 0..state.s.daemons
      BY <1>1, LaunchesAssumption DEF LaunchTypes, Daemon!Ds, AnyLaunch
    <3> QED BY <1>1, <3>1 DEF LaunchTypes, Daemon!Ds, DaemonPlaces
  <2> HIDE DEF w
  <2>3. Sockets(w)
    BY <1>1, <1>2, <2>1 DEF Sockets, Daemon!Ds, LaunchTypes
  <2>4. LaunchInv(w)
    BY <2>1, <2>2, <2>3, DaemonsKeep
  <2> QED BY <1>2, <2>4 DEF Daemon!Bind, w
<1>3. CASE state.path # 0
  <2> DEFINE w == [state EXCEPT !.daemon[d] = "ending"]
  <2>1. /\ w.s = state.s /\ w.windows = state.windows /\ w.waiting = state.waiting /\ w.told = state.told
        /\ w.at = state.at
        /\ w.sent = state.sent /\ w.queue = state.queue /\ w.launch = state.launch /\ w.client = state.client
        /\ w.path = state.path /\ w.daemon = [state.daemon EXCEPT ![d] = "ending"]
    BY <1>1 DEF LaunchTypes
  <2>2. LaunchTypes(w)
    BY <1>1 DEF LaunchTypes, Daemon!Ds, DaemonPlaces
  <2> HIDE DEF w
  <2>3. Sockets(w)
    BY <1>1, <1>3, <2>1 DEF Sockets, Daemon!Ds, LaunchTypes
  <2>4. LaunchInv(w)
    BY <2>1, <2>2, <2>3, DaemonsKeep
  <2> QED BY <1>3, <2>4 DEF Daemon!Bind, w
<1> QED BY <1>2, <1>3

(* The daemon listens, as its log tells. *)
LEMMA ListenKeeps ==
    ASSUME LaunchInv(state), NEW d \in Daemon!Ds(state), Daemon!Listen(d)
    PROVE  LaunchInv(state')
<1>1. LaunchTypes(state) /\ Sockets(state) /\ state.daemon[d] = "bound"
  BY DEF LaunchInv, Daemon!Listen
<1> DEFINE w == [state EXCEPT !.daemon[d] = "up"]
<1>2. /\ w.s = state.s /\ w.windows = state.windows /\ w.waiting = state.waiting /\ w.told = state.told
      /\ w.at = state.at
      /\ w.sent = state.sent /\ w.queue = state.queue /\ w.launch = state.launch /\ w.client = state.client
      /\ w.path = state.path /\ w.daemon = [state.daemon EXCEPT ![d] = "up"]
  BY <1>1 DEF LaunchTypes
<1>3. LaunchTypes(w)
  BY <1>1 DEF LaunchTypes, Daemon!Ds, DaemonPlaces
<1> HIDE DEF w
<1>4. Sockets(w)
  BY <1>1, <1>2 DEF Sockets, Daemon!Ds, LaunchTypes
<1>5. LaunchInv(w)
  BY <1>2, <1>3, <1>4, DaemonsKeep
<1> QED BY <1>5 DEF Daemon!Listen, w

(* A daemon ends, and its connections with it. *)
LEMMA OverKeeps ==
    ASSUME LaunchInv(state), NEW d \in Daemon!Ds(state), state.daemon[d] \notin {"none", "forked"},
           NEW path \in {0, state.path}
    PROVE  LaunchInv([Daemon!Over(state, d) EXCEPT !.path = path])
<1> DEFINE at == Daemon!Closed(state, d)
           launch == Daemon!Dropped(state, d)
           daemon == [state.daemon EXCEPT ![d] = "gone"]
           w == [state EXCEPT !.daemon = daemon, !.at = at, !.launch = launch, !.path = path]
<1>1. LaunchTypes(state) /\ Distinct(state) /\ EachWindow(state) /\ Sockets(state)
  BY DEF LaunchInv
<1>2. [Daemon!Over(state, d) EXCEPT !.path = path] = w
  BY <1>1 DEF Daemon!Over, LaunchTypes
<1>3. \A c \in Daemon!Cs(state) : at[c] = (IF state.at[c] = d THEN -1 ELSE state.at[c])
      /\ launch[c] = (IF state.at[c] = d THEN Daemon!None ELSE state.launch[c])
  BY DEF Daemon!Closed, Daemon!Dropped
<1>4. at \in [DOMAIN state.s.clients -> -1..state.s.daemons] /\ launch \in [DOMAIN state.s.clients -> AnyPending]
  <2>1. Daemon!None \in AnyPending
    BY DEF Daemon!None, AnyPending
  <2>2. -1 \in -1..state.s.daemons
    BY <1>1, LaunchesAssumption DEF LaunchTypes, AnyLaunch
  <2>3. at \in [DOMAIN state.s.clients -> -1..state.s.daemons]
    BY <1>1, <2>2 DEF Daemon!Closed, LaunchTypes, Daemon!Cs
  <2>4. launch \in [DOMAIN state.s.clients -> AnyPending]
    BY <1>1, <2>1 DEF Daemon!Dropped, LaunchTypes, Daemon!Cs
  <2> QED BY <2>3, <2>4
<1>5. daemon \in [1..state.s.daemons -> DaemonPlaces] /\ path \in 0..state.s.daemons
  <2>1. state.s.daemons \in Nat
    BY <1>1, LaunchesAssumption DEF LaunchTypes, AnyLaunch
  <2>2. path \in 0..state.s.daemons
    BY <1>1, <2>1 DEF LaunchTypes
  <2>3. daemon \in [1..state.s.daemons -> DaemonPlaces]
    BY <1>1 DEF LaunchTypes, DaemonPlaces
  <2> QED BY <2>2, <2>3
<1>6. daemon[d] = "gone" /\ DOMAIN daemon = Daemon!Ds(state)
      /\ \A e \in Daemon!Ds(state) \ {d} : daemon[e] = state.daemon[e]
  BY <1>1 DEF LaunchTypes, Daemon!Ds
<1> HIDE DEF at, launch, daemon
<1>7. /\ w.s = state.s /\ w.windows = state.windows /\ w.waiting = state.waiting /\ w.told = state.told /\ w.at = at
      /\ w.sent = state.sent /\ w.queue = state.queue /\ w.launch = launch /\ w.client = state.client
      /\ w.path = path /\ w.daemon = daemon
  BY <1>1 DEF LaunchTypes
<1>8. LaunchTypes(w)
  BY <1>1, <1>4, <1>5 DEF LaunchTypes
<1> HIDE DEF w
<1>9. Distinct(w) /\ EachWindow(w) /\ Daemon!Cs(w) = Daemon!Cs(state)
  BY <1>1, <1>7 DEF Distinct, EachWindow, Daemon!Cs
<1>10. Sockets(w)
  <2>1. state.path # 0 => state.path \in Daemon!Ds(state)
    BY <1>1, LaunchesAssumption DEF LaunchTypes, Daemon!Ds, AnyLaunch
  <2>2. path # 0 => daemon[path] \notin {"none", "forked"}
    BY <1>1, <1>6, <2>1 DEF Sockets
  <2>3. ASSUME NEW e \in Daemon!Ds(state), daemon[e] \in {"bound", "up", "stopping"}
        PROVE  path = e \/ \E f \in Daemon!Ds(state) \ {e} : daemon[f] # "none"
    <3>1. e # d
      BY <1>6, <2>3
    <3> QED BY <1>6, <3>1
  <2> QED BY <1>6, <1>7, <2>2, <2>3 DEF Sockets, Daemon!Ds
<1>11. ASSUME NEW c \in Daemon!Cs(state)
       PROVE  EachClient(w, c)
  <2>1. ClientRight(state.s.clients[c], state.client[c], state.sent[c], state.queue[c], state.at[c],
                    state.launch[c], Waits(state, c), HasWindow(state, c), c \in state.told)
    BY DEF LaunchInv, EachClient
  <2>2. Waits(w, c) = Waits(state, c) /\ HasWindow(w, c) = HasWindow(state, c)
    BY <1>7 DEF Waits, HasWindow
  <2>3. ~ Daemon!None.held
    BY DEF Daemon!None
  <2>4. ClientRight(state.s.clients[c], state.client[c], state.sent[c], state.queue[c], at[c], launch[c],
                    Waits(state, c), HasWindow(state, c), c \in state.told)
    <3>1. CASE state.at[c] = d
      <4>1. ClientRight(state.s.clients[c], state.client[c], state.sent[c], state.queue[c], at[c], Daemon!None,
                        Waits(state, c), HasWindow(state, c), c \in state.told)
        BY <2>1, <2>3 DEF ClientRight
      <4> QED BY <1>3, <3>1, <4>1
    <3>2. CASE state.at[c] # d
      BY <1>3, <2>1, <3>2
    <3> QED BY <3>1, <3>2
  <2> QED BY <1>7, <2>2, <2>4 DEF EachClient
<1>12. LaunchInv(w)
  BY <1>8, <1>9, <1>10, <1>11 DEF LaunchInv
<1> QED BY <1>2, <1>12

(* The three ways in which a daemon ends. *)
LEMMA EndKeeps ==
    ASSUME LaunchInv(state), NEW d \in Daemon!Ds(state),
           Daemon!free_daemon(d) \/ Daemon!handle_term(d) \/ Daemon!KillDaemon(d)
    PROVE  LaunchInv(state')
<1>1. state.daemon[d] \notin {"none", "forked"}
  BY DEF Daemon!free_daemon, Daemon!handle_term, Daemon!KillDaemon, Daemon!Up
<1>2. state' = [Daemon!Over(state, d) EXCEPT !.path = 0] \/ state' = Daemon!Over(state, d)
  BY DEF Daemon!free_daemon, Daemon!handle_term, Daemon!KillDaemon
<1>3. Daemon!Over(state, d) = [Daemon!Over(state, d) EXCEPT !.path = state.path]
  BY DEF Daemon!Over, LaunchInv, LaunchTypes
<1>4. LaunchInv([Daemon!Over(state, d) EXCEPT !.path = 0])
      /\ LaunchInv([Daemon!Over(state, d) EXCEPT !.path = state.path])
  BY <1>1, OverKeeps
<1> QED BY <1>2, <1>3, <1>4

(* Where the clients start, the invariant holds. *)
LEMMA StartsRight ==
    ASSUME Daemon!Init
    PROVE  LaunchInv(state)
<1>1. PICK s \in Launches :
        state = [s |-> s, path |-> IF s.running THEN 1 ELSE 0,
             daemon |-> [d \in 1..s.daemons |-> IF s.running /\ d = 1 THEN "up" ELSE "none"],
             client |-> [c \in DOMAIN s.clients |-> "start"], sent |-> [c \in DOMAIN s.clients |-> 0],
             queue |-> [c \in DOMAIN s.clients |-> <<>>], at |-> [c \in DOMAIN s.clients |-> 0],
             launch |-> [c \in DOMAIN s.clients |-> Daemon!None], waiting |-> <<>>,
             windows |-> <<>>, refused |-> {}, told |-> {}]
  BY DEF Daemon!Init
<1>2. s.daemons \in Nat /\ (s.running => s.daemons > 0) /\ s.running \in BOOLEAN /\ s.clients \in Seq(AnyClient)
  BY LaunchesAssumption DEF AnyLaunch
<1>3. /\ state.s = s /\ state.path = (IF s.running THEN 1 ELSE 0) /\ state.waiting = <<>>
      /\ state.windows = <<>> /\ state.refused = {} /\ state.told = {}
      /\ state.daemon = [d \in 1..s.daemons |-> IF s.running /\ d = 1 THEN "up" ELSE "none"]
      /\ state.client = [c \in DOMAIN s.clients |-> "start"] /\ state.sent = [c \in DOMAIN s.clients |-> 0]
      /\ state.queue = [c \in DOMAIN s.clients |-> <<>>] /\ state.at = [c \in DOMAIN s.clients |-> 0]
      /\ state.launch = [c \in DOMAIN s.clients |-> Daemon!None]
  BY <1>1
<1>4. LaunchTypes(state)
  <2>1. Daemon!None \in AnyPending
    BY DEF Daemon!None, AnyPending
  <2>2. state.daemon \in [1..s.daemons -> DaemonPlaces] /\ state.path \in 0..s.daemons
    BY <1>2, <1>3 DEF DaemonPlaces
  <2>3. state.client \in [DOMAIN s.clients -> ClientPlaces] /\ state.sent \in [DOMAIN s.clients -> Nat]
        /\ state.at \in [DOMAIN s.clients -> -1..s.daemons]
    BY <1>2, <1>3 DEF ClientPlaces, NotSending
  <2>4. state.queue \in [DOMAIN s.clients -> Seq(AnyMessage)] /\ state.launch \in [DOMAIN s.clients -> AnyPending]
    BY <1>3, <2>1
  <2>5. state.waiting \in Seq(DOMAIN s.clients) 
        /\ state.windows \in Seq([client : DOMAIN s.clients, opts : Seq(AnyOption), args : Seq(Texts)])
    BY <1>3
  <2>6. state = [s |-> s, path |-> state.path, daemon |-> state.daemon, client |-> state.client,
                 sent |-> state.sent, queue |-> state.queue, at |-> state.at,
             launch |-> state.launch, waiting |-> state.waiting, windows |-> state.windows, refused |-> {}, told |-> {}]
    BY <1>1
  <2>7. state.refused \in SUBSET DOMAIN s.clients /\ state.told \in SUBSET DOMAIN s.clients
    BY <1>3
  <2> HIDE <1>1
  <2> QED BY <1>3, <2>2, <2>3, <2>4, <2>5, <2>6, <2>7 DEF LaunchTypes
<1>5. (\A c : ~ Waits(state, c) /\ ~ HasWindow(state, c)) /\ Distinct(state) /\ EachWindow(state)
  BY <1>3 DEF Waits, HasWindow, Distinct, EachWindow
<1>6. Sockets(state)
  BY <1>2, <1>3 DEF Sockets, Daemon!Ds
<1>7. ASSUME NEW c \in Daemon!Cs(state)
      PROVE  EachClient(state, c)
  <2>1. c \in DOMAIN s.clients /\ s.clients[c] \in AnyClient
    BY <1>2, <1>3, <1>7 DEF Daemon!Cs
  <2>2. state.client[c] = "start" /\ state.sent[c] = 0 /\ state.queue[c] = <<>> /\ ~ state.launch[c].held
    BY <1>3, <2>1 DEF Daemon!None
  <2>3. Len(Daemon!Script(s.clients[c])) \in Nat /\ Len(Daemon!Script(s.clients[c])) > 0
    BY <2>1, ScriptDoes
  <2>4. Len(<<>>) = 0 /\ state.s = s
    BY <1>3
  <2> QED BY <1>5, <2>2, <2>3, <2>4 DEF EachClient, ClientRight
<1> QED BY <1>4, <1>5, <1>6, <1>7 DEF LaunchInv

----------------------------------------------------------------------------
(* Every step keeps it. *)
LEMMA LaunchNext ==
    ASSUME LaunchInv(state), [Daemon!Next]_state
    PROVE  LaunchInv(state')
<1>1. CASE UNCHANGED state
  BY <1>1
<1>2. CASE \E c \in Daemon!Cs(state) : Daemon!Connect(c) \/ Daemon!ConnectAgain(c)
  <2>1. PICK c \in Daemon!Cs(state) : Daemon!Connect(c) \/ Daemon!ConnectAgain(c)
    BY <1>2
  <2>2. CASE Daemon!Connect(c)
    <3>1. CASE Daemon!Who(c).demand
      BY <2>2, <3>1, ConnectKeeps DEF Daemon!Connect
    <3>2. CASE ~ Daemon!Who(c).demand
      BY <2>2, <3>2, ConnectKeeps DEF Daemon!Connect
    <3> QED BY <3>1, <3>2
  <2>3. CASE Daemon!ConnectAgain(c)
    BY <2>3, ConnectKeeps DEF Daemon!ConnectAgain
  <2> QED BY <2>1, <2>2, <2>3
<1>3. CASE \E c \in Daemon!Cs(state) : Daemon!do_fork(c)
  BY <1>3, ForkKeeps
<1>4. CASE \E c \in Daemon!Cs(state) :
              Daemon!WaitForSocket(c) \/ Daemon!Broken(c) \/ Daemon!recv_response(c) \/ Daemon!KillClient(c)
  BY <1>4, PlacesKeep
<1>5. CASE \E c \in Daemon!Cs(state) : Daemon!Send(c)
  BY <1>5, SendKeeps
<1>6. CASE \E c \in Daemon!Cs(state) : Daemon!handle_launch(c)
  BY <1>6, HandleKeeps
<1>7. CASE \E d \in Daemon!Ds(state) : Daemon!Bind(d)
  BY <1>7, BindKeeps
<1>8. CASE \E d \in Daemon!Ds(state) : Daemon!Listen(d)
  BY <1>8, ListenKeeps
<1>9. CASE \E d \in Daemon!Ds(state) : Daemon!accept(d)
  BY <1>9, AcceptKeeps
<1>10. CASE \E d \in Daemon!Ds(state) : Daemon!free_daemon(d) \/ Daemon!handle_term(d) \/ Daemon!KillDaemon(d)
  BY <1>10, EndKeeps
<1> QED BY <1>1, <1>2, <1>3, <1>4, <1>5, <1>6, <1>7, <1>8, <1>9, <1>10, Zenon DEF Daemon!Next, Daemon!Client,
    Daemon!Daemon

(* The three parts of what the runs check. *)
LEMMA LaunchImplied ==
    ASSUME LaunchInv(state)
    PROVE  Daemon!WholeCommand /\ Daemon!Settled /\ Daemon!Reachable
<1>1. LaunchTypes(state) /\ EachWindow(state) /\ Sockets(state)
  BY DEF LaunchInv
<1>2. ASSUME NEW c \in Daemon!Cs(state)
      PROVE  /\ Cardinality(Daemon!Windows(c)) <= 1
             /\ \A k \in Daemon!Windows(c) :
                 /\ Daemon!Who(c).ends = "open" /\ state.sent[c] = Len(Daemon!Script(Daemon!Who(c)))
                 /\ Daemon!HasArguments(state.windows[k].args, Daemon!Who(c).items, Len(Daemon!Who(c).items))
                 /\ Daemon!HasOptions(state.windows[k].opts, Daemon!Who(c).items, Len(Daemon!Who(c).items))
  <2>1. Cardinality(Daemon!Windows(c)) <= 1
    <3>1. Daemon!Windows(c) = {} \/ \E k : Daemon!Windows(c) = {k}
      BY <1>1 DEF EachWindow, Daemon!Windows
    <3>2. Cardinality(Daemon!Windows(c)) \in {0, 1}
      BY <3>1, FS_EmptySet, FS_Singleton
    <3> QED BY <3>2
  <2>2. ASSUME NEW k \in Daemon!Windows(c)
        PROVE  WindowRight(Daemon!Who(c), state.sent[c], state.windows[k])
    BY <1>1 DEF EachWindow, Daemon!Windows, Daemon!Who
  <2> QED BY <2>1, <2>2 DEF WindowRight
<1>3. Daemon!WholeCommand
  BY <1>2, SameCount DEF Daemon!WholeCommand
<1>4. Daemon!Settled
  <2> SUFFICES ASSUME NEW c \in Daemon!Cs(state), state.client[c] \in {"done", "reading"}, state.queue[c] = <<>>
               PROVE  /\ ~ state.launch[c].held
                      /\ (Daemon!Windows(c) # {} \/ c \in state.told \/ Daemon!Who(c).ends = "quit")
    BY DEF Daemon!Settled
  <2>1. EachClient(state, c) /\ state.sent[c] \in Nat
    BY <1>1 DEF LaunchInv, LaunchTypes, Daemon!Cs
  <2>2. state.sent[c] - Len(state.queue[c]) = Len(Daemon!Script(state.s.clients[c]))
    BY <2>1 DEF EachClient, ClientRight
  <2>3. ~ state.launch[c].held /\ (HasWindow(state, c) \/ c \in state.told \/ Daemon!Who(c).ends = "quit")
    BY <2>1, <2>2 DEF EachClient, ClientRight, Daemon!Who
  <2> QED BY <2>3 DEF HasWindow, Daemon!Windows
<1>5. Daemon!Reachable
  <2> DEFINE started == {d \in Daemon!Ds(state) : state.daemon[d] # "none"}
  <2> SUFFICES ASSUME Cardinality(started) = 1, NEW d \in Daemon!Ds(state), Daemon!Up(d)
               PROVE  state.path = d
    BY SameCount DEF Daemon!Reachable
  <2>1. IsFiniteSet(started)
    <3>1. Daemon!Ds(state) = 1..state.s.daemons /\ state.s.daemons \in Nat
      BY <1>1, LaunchesAssumption DEF LaunchTypes, Daemon!Ds, AnyLaunch
    <3>2. IsFiniteSet(1..state.s.daemons)
      <4>1. \A n \in Nat : IsFiniteSet(1..n)
        BY FS_Interval
      <4> QED BY <3>1, <4>1
    <3>3. started \subseteq 1..state.s.daemons
      BY <3>1
    <3> QED BY <3>2, <3>3, FS_Subset
  <2>2. PICK e : started = {e}
    BY <2>1, FS_Singleton
  <2>3. state.daemon[d] \in {"up", "stopping"} /\ d \in started
    BY DEF Daemon!Up
  <2>4. state.path = d \/ \E f \in Daemon!Ds(state) \ {d} : state.daemon[f] # "none"
    BY <1>1, <2>3 DEF Sockets
  <2> QED BY <2>2, <2>3, <2>4
<1> QED BY <1>3, <1>4, <1>5

LaunchesInv == part = "daemon" => LaunchInv(state)

(* A window has the options and arguments of the one client it is of, none *)
(* is left without what it asked for, and a daemon that was started alone  *)
(* has the socket: for any clients, command lines and daemons, whatever    *)
(* the order of their steps and whoever is killed (accept_pending_launch() *)
(* and append_pending_launch(), init_daemon(), free_daemon(); nsstc).      *)
THEOREM LaunchesAreRight == FrontSpec => []LaunchRight
<1>1. FrontInit => LaunchesInv
  BY StartsRight DEF FrontInit, Chosen, LaunchesInv
<1>2. LaunchesInv /\ [FrontNext]_all => LaunchesInv'
  <2> SUFFICES ASSUME LaunchesInv, [FrontNext]_all, part' = "daemon"
               PROVE  LaunchInv(state')
    BY DEF LaunchesInv
  <2>1. part = "daemon" /\ (Daemon!Next \/ state' = state)
    BY DEF FrontNext, all
  <2> QED BY <2>1, LaunchNext DEF LaunchesInv
<1>3. LaunchesInv => LaunchRight
  BY LaunchImplied DEF LaunchesInv, LaunchRight
<1> QED BY <1>1, <1>2, <1>3, PTL DEF FrontSpec

----------------------------------------------------------------------------
(* What a window hides for a time and shows again: Effects. *)
AllTitles == WindowTitles \cup {"nsst"}
TitleItem == [title : AllTitles \cup {Looks!NULL}, icon : AllTitles \cup {Looks!NULL}]
TitleDue == [which : Looks!Which, title : AllTitles, icon : AllTitles]
LooksTypes(v) ==
    v \in [s : WindowSessions, cfg : AnyCfg, blink_timer : {"none", "off", "on"}, blink : BOOLEAN, committed : BOOLEAN,
           inhibit : BOOLEAN, blink_inhibit_timer : BOOLEAN, event : BOOLEAN, moved : BOOLEAN, hidden : BOOLEAN,
           prev_hidden : BOOLEAN, drawn : BOOLEAN, shown : BOOLEAN, text : BOOLEAN, lit : BOOLEAN,
           pointer_inhibit : BOOLEAN, pointer_inhibit_timer : BOOLEAN,
           pointer_mode : {"never", "no_tracking", "always"},
           tracking : BOOLEAN, pointer_is_hidden : BOOLEAN, selected : BOOLEAN, refused : BOOLEAN, title : AllTitles, icon : AllTitles,
           stack : Seq(TitleItem), due : Seq(TitleDue), popped : Seq(TitleDue), cut : BOOLEAN, n : Nat]

(* Of the pointer: it is hidden as asked, and comes back. *)
PointerOK(v) ==
    /\ Looks!Hide(v) => v.pointer_is_hidden
    /\ v.pointer_is_hidden => Looks!Hide(v) \/ v.refused
    /\ ~ v.cut => (v.pointer_inhibit => v.pointer_inhibit_timer)

(* Of the cursor: what a cell that was drawn shows, when nothing is left   *)
(* to be drawn, and which timers there are then.                           *)
CursorOK(v) ==
    /\ Supported(v.cfg) /\ (v.cfg = v.s.cfg \/ v.cfg = v.s.next)
    /\ (v.blink_timer = "none" <=> ~ v.cfg.allow_blinking) /\ (~ v.cfg.allow_blinking => ~ v.blink)
    /\ ~ v.cut => (v.inhibit => v.blink_inhibit_timer)
    /\ v.drawn /\ v.prev_hidden => ~ v.shown
    /\ v.drawn /\ ~ v.cfg.blinking_shape => (v.shown <=> ~ v.prev_hidden)
    /\ ~ v.event =>
        /\ v.drawn /\ (v.prev_hidden <=> v.hidden)
        /\ v.blink_timer # "on" /\ v.text => v.blink_timer = "none" /\ v.lit
        /\ v.cfg.blinking_shape /\ ~ v.hidden /\ ~ v.inhibit => v.blink_timer = "on"

(* Of titles: each item has what was saved of the titles of its time. *)
TitlesOK(v) ==
    /\ DOMAIN v.stack = DOMAIN v.due
    /\ \A k \in DOMAIN v.stack :
        v.stack[k] = [title |-> IF "title" \in v.due[k].which THEN v.due[k].title ELSE Looks!NULL,
                      icon |-> IF "icon" \in v.due[k].which THEN v.due[k].icon ELSE Looks!NULL]
    /\ v.popped # <<>> =>
        /\ "title" \in v.popped[1].which => v.title = v.popped[1].title
        /\ "icon" \in v.popped[1].which => v.icon = v.popped[1].icon

EffectsInv(v) == LooksTypes(v) /\ PointerOK(v) /\ CursorOK(v) /\ TitlesOK(v)

(* The four parts of what the runs check. *)
LEMMA LooksImplied ==
    ASSUME EffectsInv(state)
    PROVE  Looks!InhibitEnds /\ Looks!CursorSettles /\ Looks!PointerAsAsked /\ Looks!TitleRestored
<1>1. Looks!InhibitEnds
  BY DEF EffectsInv, PointerOK, CursorOK, Looks!InhibitEnds
<1>2. Looks!CursorSettles
  BY DEF EffectsInv, CursorOK, Looks!CursorSettles, Supported
<1>3. Looks!PointerAsAsked
  BY DEF EffectsInv, PointerOK, Looks!PointerAsAsked
<1>4. Looks!TitleRestored
  BY DEF EffectsInv, TitlesOK, Looks!TitleRestored
<1> QED BY <1>1, <1>2, <1>3, <1>4

SameCursor(v, u) ==
    /\ u.s = v.s /\ u.cfg = v.cfg /\ u.blink_timer = v.blink_timer /\ u.blink = v.blink /\ u.committed = v.committed
    /\ u.inhibit = v.inhibit /\ u.blink_inhibit_timer = v.blink_inhibit_timer /\ u.event = v.event /\ u.moved = v.moved
    /\ u.hidden = v.hidden /\ u.prev_hidden = v.prev_hidden /\ u.drawn = v.drawn /\ u.shown = v.shown
    /\ u.text = v.text /\ u.lit = v.lit /\ u.cut = v.cut
SamePointer(v, u) ==
    /\ u.cfg = v.cfg /\ u.pointer_inhibit = v.pointer_inhibit /\ u.pointer_inhibit_timer = v.pointer_inhibit_timer
    /\ u.pointer_mode = v.pointer_mode /\ u.tracking = v.tracking /\ u.pointer_is_hidden = v.pointer_is_hidden
    /\ u.refused = v.refused /\ u.cut = v.cut
SameTitles(v, u) == u.title = v.title /\ u.icon = v.icon /\ u.stack = v.stack /\ u.due = v.due /\ u.popped = v.popped
(* A part whose fields are as they were. *)
LEMMA UnchangedParts ==
    ASSUME NEW v, NEW u
    PROVE  /\ SameCursor(v, u) /\ CursorOK(v) => CursorOK(u)
           /\ SamePointer(v, u) /\ PointerOK(v) => PointerOK(u)
           /\ SameTitles(v, u) /\ TitlesOK(v) => TitlesOK(u)
<1>1. SameCursor(v, u) /\ CursorOK(v) => CursorOK(u)
  BY Zenon DEF SameCursor, CursorOK
<1>2. SamePointer(v, u) /\ PointerOK(v) => PointerOK(u)
  BY Zenon DEF SamePointer, PointerOK, Looks!Hide
<1>3. SameTitles(v, u) /\ TitlesOK(v) => TitlesOK(u)
  BY Zenon DEF SameTitles, TitlesOK
<1> QED BY <1>1, <1>2, <1>3

(* What a redraw leaves alone *)
LeftAlone(v, u) ==
    /\ u.s = v.s /\ u.cfg = v.cfg /\ u.blink = v.blink /\ u.hidden = v.hidden /\ u.text = v.text /\ u.cut = v.cut
    /\ SamePointer(v, u) /\ SameTitles(v, u)
(* screen_redraw() *)
LEMMA DamageDoes ==
    ASSUME NEW v, LooksTypes(v)
    PROVE  LET u == Looks!screen_damage(v)
           IN  /\ LooksTypes(u) /\ LeftAlone(v, u)
               /\ u.drawn <=> v.drawn /\ ~(Looks!Touched(v) /\ (~v.hidden \/ ~v.prev_hidden))
               /\ u.prev_hidden = v.hidden /\ ~ u.moved
               /\ u.shown = v.shown /\ u.inhibit = v.inhibit /\ u.blink_inhibit_timer = v.blink_inhibit_timer
               /\ u.committed = v.committed /\ u.blink_timer = v.blink_timer /\ u.lit = v.lit /\ u.event = v.event
<1> DEFINE drawn == v.drawn /\ ~(Looks!Touched(v) /\ (~v.hidden \/ ~v.prev_hidden))
           u == [v EXCEPT !.drawn = drawn, !.prev_hidden = v.hidden, !.moved = FALSE]
<1>1. Looks!screen_damage(v) = u
  BY DEF Looks!screen_damage
<1>2. drawn \in BOOLEAN
  OBVIOUS
<1>3. drawn <=> v.drawn /\ ~(Looks!Touched(v) /\ (~v.hidden \/ ~v.prev_hidden))
  OBVIOUS
<1> HIDE DEF drawn
<1>4. /\ LooksTypes(u) /\ LeftAlone(v, u) /\ u.drawn = drawn
      /\ u.prev_hidden = v.hidden /\ u.moved = FALSE
      /\ u.shown = v.shown /\ u.inhibit = v.inhibit /\ u.blink_inhibit_timer = v.blink_inhibit_timer
      /\ u.committed = v.committed /\ u.blink_timer = v.blink_timer /\ u.lit = v.lit /\ u.event = v.event
  BY <1>2 DEF LooksTypes, LeftAlone, SamePointer, SameTitles
<1> HIDE DEF u
<1> QED BY <1>1, <1>3, <1>4
(* window_submit_screen() *)
LEMMA SteadyDoes ==
    ASSUME NEW v, LooksTypes(v), NEW moved \in BOOLEAN
    PROVE  LET u == Looks!Steady(v, moved)
           IN  /\ LooksTypes(u) /\ LeftAlone(v, u)
               /\ u.inhibit <=> moved \/ v.inhibit
               /\ u.blink_inhibit_timer <=> moved \/ v.blink_inhibit_timer
               /\ u.prev_hidden = v.prev_hidden /\ u.moved = v.moved /\ u.drawn = v.drawn /\ u.shown = v.shown
               /\ u.committed = v.committed /\ u.blink_timer = v.blink_timer /\ u.lit = v.lit /\ u.event = v.event
<1>1. CASE moved
  <2> DEFINE u == [v EXCEPT !.inhibit = TRUE, !.blink_inhibit_timer = TRUE]
  <2>1. Looks!Steady(v, moved) = u
    BY <1>1 DEF Looks!Steady
  <2>2. /\ LooksTypes(u) /\ LeftAlone(v, u) /\ u.inhibit = TRUE /\ u.blink_inhibit_timer = TRUE
        /\ u.prev_hidden = v.prev_hidden /\ u.moved = v.moved /\ u.drawn = v.drawn /\ u.shown = v.shown
        /\ u.committed = v.committed /\ u.blink_timer = v.blink_timer /\ u.lit = v.lit /\ u.event = v.event
    BY DEF LooksTypes, LeftAlone, SamePointer, SameTitles
  <2> HIDE DEF u
  <2> QED BY <1>1, <2>1, <2>2
<1>2. CASE ~ moved
  <2>1. Looks!Steady(v, moved) = v
    BY <1>2 DEF Looks!Steady
  <2> QED BY <1>2, <2>1 DEF LeftAlone, SamePointer, SameTitles
<1> QED BY <1>1, <1>2
(* shm_submit_screen() *)
LEMMA SubmitDoes ==
    ASSUME NEW v, LooksTypes(v)
    PROVE  LET u == Looks!submit_screen(v)
           IN  /\ LooksTypes(u) /\ LeftAlone(v, u) /\ u.drawn
               /\ u.shown <=> IF v.drawn THEN v.shown ELSE Looks!CursorVisible(v)
               /\ u.lit <=> v.text /\ ~ v.blink
               /\ u.blink_timer = Looks!poller_toggle(v.blink_timer, Looks!has_blinking(v))
               /\ u.inhibit = v.inhibit /\ u.blink_inhibit_timer = v.blink_inhibit_timer
               /\ u.prev_hidden = v.prev_hidden /\ u.moved = v.moved /\ u.event = v.event
<1> DEFINE shown == IF v.drawn THEN v.shown ELSE Looks!CursorVisible(v)
           lit == v.text /\ ~ v.blink
           committed == v.committed \/ v.blink_timer = "on"
           timer == Looks!poller_toggle(v.blink_timer, Looks!has_blinking(v))
           u == [v EXCEPT !.shown = shown, !.drawn = TRUE, !.lit = lit, !.committed = committed, !.blink_timer = timer]
<1>1. Looks!submit_screen(v) = u
  BY DEF Looks!submit_screen
<1>2. shown \in BOOLEAN /\ lit \in BOOLEAN /\ committed \in BOOLEAN
  BY DEF LooksTypes, Looks!CursorVisible
<1>3. timer \in {"none", "off", "on"}
  BY DEF Looks!poller_toggle
<1>4. (shown <=> IF v.drawn THEN v.shown ELSE Looks!CursorVisible(v)) /\ (lit <=> v.text /\ ~ v.blink)
  OBVIOUS
<1>5. timer = Looks!poller_toggle(v.blink_timer, Looks!has_blinking(v))
  OBVIOUS
<1> HIDE DEF shown, lit, committed, timer
<1>6. /\ LooksTypes(u) /\ LeftAlone(v, u) /\ u.drawn = TRUE /\ u.shown = shown /\ u.lit = lit /\ u.blink_timer = timer
      /\ u.inhibit = v.inhibit /\ u.blink_inhibit_timer = v.blink_inhibit_timer
      /\ u.prev_hidden = v.prev_hidden /\ u.moved = v.moved /\ u.event = v.event
  <2>1. LooksTypes(u)
    BY <1>2, <1>3 DEF LooksTypes
  <2>2. /\ u.drawn = TRUE /\ u.shown = shown /\ u.lit = lit /\ u.blink_timer = timer
        /\ u.inhibit = v.inhibit /\ u.blink_inhibit_timer = v.blink_inhibit_timer
        /\ u.prev_hidden = v.prev_hidden /\ u.moved = v.moved /\ u.event = v.event
    BY DEF LooksTypes
  <2>3. LeftAlone(v, u)
    BY DEF LooksTypes, LeftAlone, SamePointer, SameTitles
  <2> QED BY <2>1, <2>2, <2>3
<1> HIDE DEF u
<1> QED BY <1>1, <1>4, <1>5, <1>6
(* A redraw. *)
LEMMA TickKeeps == EffectsInv(state) /\ Looks!Tick => EffectsInv(state')
<1> SUFFICES ASSUME EffectsInv(state), Looks!Tick PROVE EffectsInv(state')
  OBVIOUS
<1> DEFINE a == Looks!screen_damage(state)
           b == Looks!Steady(a, state.moved)
           c == Looks!submit_screen(b)
<1>1. LooksTypes(state) /\ state.moved \in BOOLEAN
  BY DEF EffectsInv, LooksTypes
<1>2. LooksTypes(a) /\ LeftAlone(state, a) /\ LooksTypes(b) /\ LeftAlone(a, b) /\ LooksTypes(c) /\ LeftAlone(b, c)
  BY <1>1, DamageDoes, SteadyDoes, SubmitDoes
<1>3. state' = [c EXCEPT !.event = FALSE]
  BY DEF Looks!Tick, Looks!Redraw
<1> DEFINE d == [c EXCEPT !.event = FALSE]
<1>4. /\ LooksTypes(d) /\ LeftAlone(c, d) /\ d.event = FALSE /\ d.drawn = c.drawn /\ d.shown = c.shown /\ d.lit = c.lit
      /\ d.blink_timer = c.blink_timer /\ d.inhibit = c.inhibit /\ d.blink_inhibit_timer = c.blink_inhibit_timer
      /\ d.prev_hidden = c.prev_hidden
  BY <1>2 DEF LooksTypes, LeftAlone, SamePointer, SameTitles
<1>5. SamePointer(state, d) /\ SameTitles(state, d)
  BY <1>2, <1>4 DEF LeftAlone, SamePointer, SameTitles
<1> HIDE DEF d
<1>6. CursorOK(state)
  BY DEF EffectsInv
<1>7. CursorOK(d)
  <2>1. d.s = state.s /\ d.cfg = state.cfg /\ d.blink = state.blink /\ d.hidden = state.hidden
        /\ d.text = state.text /\ d.cut = state.cut
    BY <1>2, <1>4 DEF LeftAlone
  <2>2. /\ a.s = state.s /\ a.cfg = state.cfg /\ a.blink = state.blink /\ a.hidden = state.hidden /\ a.text = state.text
        /\ b.s = state.s /\ b.cfg = state.cfg /\ b.blink = state.blink /\ b.hidden = state.hidden /\ b.text = state.text
    BY <1>2 DEF LeftAlone
  <2>3. /\ a.drawn <=> state.drawn /\ ~(Looks!Touched(state) /\ (~state.hidden \/ ~state.prev_hidden))
        /\ a.prev_hidden = state.hidden /\ a.shown = state.shown /\ a.inhibit = state.inhibit
        /\ a.blink_inhibit_timer = state.blink_inhibit_timer /\ a.committed = state.committed
        /\ a.blink_timer = state.blink_timer
    BY <1>1, DamageDoes
  <2>4. /\ b.inhibit <=> state.moved \/ a.inhibit
        /\ b.blink_inhibit_timer <=> state.moved \/ a.blink_inhibit_timer
        /\ b.prev_hidden = a.prev_hidden /\ b.drawn = a.drawn /\ b.shown = a.shown
        /\ b.committed = a.committed /\ b.blink_timer = a.blink_timer
    BY <1>1, <1>2, SteadyDoes
  <2>5. /\ c.drawn /\ (c.shown <=> IF b.drawn THEN b.shown ELSE Looks!CursorVisible(b))
        /\ c.lit <=> b.text /\ ~ b.blink
        /\ c.blink_timer = Looks!poller_toggle(b.blink_timer, Looks!has_blinking(b))
        /\ c.inhibit = b.inhibit /\ c.blink_inhibit_timer = b.blink_inhibit_timer
        /\ c.prev_hidden = b.prev_hidden
    BY <1>2, SubmitDoes
  <2> HIDE DEF a, b, c
  <2> QED BY <1>1, <1>2, <1>4, <1>6, <2>1, <2>2, <2>3, <2>4, <2>5 DEF CursorOK, Looks!Touched,
      Looks!CursorVisible, Looks!CursorBlinks, Looks!has_blinking, Looks!poller_toggle, Supported
<1>8. PointerOK(d) /\ TitlesOK(d)
  BY <1>5, UnchangedParts DEF EffectsInv
<1> QED BY <1>3, <1>4, <1>7, <1>8 DEF EffectsInv, d

(* A step of the cursor, the pointer or the titles that is counted *)
LEMMA CountKeeps ==
    ASSUME NEW v, EffectsInv(v)
    PROVE  EffectsInv(Looks!Count(v))
<1> DEFINE n == v.n + 1
           u == [v EXCEPT !.n = n]
<1>1. LooksTypes(v)
  BY DEF EffectsInv
<1>0. n \in Nat
  <2>1. v.n \in Nat
    BY <1>1 DEF LooksTypes
  <2> QED BY <2>1
<1> HIDE DEF n
<1>2. LooksTypes(u)
  BY <1>0, <1>1 DEF LooksTypes
<1>3. SameCursor(v, u) /\ SamePointer(v, u) /\ SameTitles(v, u)
  BY <1>1 DEF LooksTypes, SameCursor, SamePointer, SameTitles
<1> HIDE DEF u
<1>4. EffectsInv(u)
  BY <1>2, <1>3, UnchangedParts DEF EffectsInv
<1> QED BY <1>4 DEF Looks!Count, u, n

(* The pointer is looked at again *)
LEMMA PointerKeeps ==
    ASSUME NEW v, LooksTypes(v), CursorOK(v), TitlesOK(v), ~ v.cut => (v.pointer_inhibit => v.pointer_inhibit_timer)
    PROVE  EffectsInv(Looks!window_update_pointer_mode(v))
           /\ EffectsInv(Looks!Count(Looks!window_update_pointer_mode(v)))
<1> DEFINE refused == Looks!Refused(v)
           hidden == Looks!Hide(v) \/ refused
           u == [v EXCEPT !.pointer_is_hidden = hidden, !.refused = refused]
<1>1. refused \in BOOLEAN /\ hidden \in BOOLEAN /\ (hidden <=> Looks!Hide(v) \/ refused)
  BY DEF Looks!Hide, Looks!Refused
<1> HIDE DEF hidden, refused
<1>2. LooksTypes(u)
  BY <1>1 DEF LooksTypes
<1>3. SameCursor(v, u) /\ SameTitles(v, u)
  BY DEF LooksTypes, SameCursor, SameTitles
<1>4. /\ u.pointer_is_hidden = hidden /\ u.refused = refused /\ u.pointer_inhibit = v.pointer_inhibit
      /\ u.pointer_inhibit_timer = v.pointer_inhibit_timer
      /\ u.pointer_mode = v.pointer_mode /\ u.tracking = v.tracking /\ u.cfg = v.cfg /\ u.cut = v.cut
  BY DEF LooksTypes
<1> HIDE DEF u
<1>5. PointerOK(u)
  BY <1>1, <1>4 DEF PointerOK, Looks!Hide
<1>6. EffectsInv(u)
  BY <1>2, <1>3, <1>5, UnchangedParts DEF EffectsInv
<1> QED BY <1>6, CountKeeps DEF Looks!window_update_pointer_mode, u, hidden, refused

(* The window gets an image for the pointer *)
LEMMA SelectKeeps ==
    ASSUME NEW v, EffectsInv(v)
    PROVE  EffectsInv(Looks!Count(Looks!select_cursor(v)))
<1> DEFINE u == [v EXCEPT !.selected = TRUE]
<1>1. LooksTypes(v)
  BY DEF EffectsInv
<1>2. LooksTypes(u)
  BY <1>1 DEF LooksTypes
<1>3. SameCursor(v, u) /\ SamePointer(v, u) /\ SameTitles(v, u)
  BY <1>1 DEF LooksTypes, SameCursor, SamePointer, SameTitles
<1> HIDE DEF u
<1>4. EffectsInv(u)
  BY <1>2, <1>3, UnchangedParts DEF EffectsInv
<1> QED BY <1>4, CountKeeps DEF Looks!select_cursor, u

(* The steps of the pointer *)
LEMMA PointerStepsKeep ==
    ASSUME EffectsInv(state),
           \/ Looks!handle_pointer_inhibit_timeout \/ Looks!handle_keydown
           \/ Looks!Motion \/ Looks!update_cursor \/ Looks!window_set_pointer_mode \/ Looks!SetMouse
    PROVE  EffectsInv(state')
<1>1. LooksTypes(state) /\ PointerOK(state) /\ CursorOK(state) /\ TitlesOK(state)
  BY DEF EffectsInv
<1>2. ASSUME NEW timer \in BOOLEAN
      PROVE  LET v == [state EXCEPT !.pointer_inhibit_timer = timer, !.pointer_inhibit = timer]
             IN  EffectsInv(Looks!window_update_pointer_mode(v))
                 /\ EffectsInv(Looks!Count(Looks!window_update_pointer_mode(v)))
  <2> DEFINE v == [state EXCEPT !.pointer_inhibit_timer = timer, !.pointer_inhibit = timer]
  <2>1. LooksTypes(v) /\ v.pointer_inhibit_timer = v.pointer_inhibit
    BY <1>1 DEF LooksTypes
  <2>2. SameCursor(state, v) /\ SameTitles(state, v)
    BY <1>1 DEF LooksTypes, SameCursor, SameTitles
  <2> HIDE DEF v
  <2>3. EffectsInv(Looks!window_update_pointer_mode(v)) /\ EffectsInv(Looks!Count(Looks!window_update_pointer_mode(v)))
    BY <1>1, <2>1, <2>2, UnchangedParts, PointerKeeps
  <2> QED BY <2>3 DEF v
<1>3. CASE Looks!handle_pointer_inhibit_timeout
  BY <1>2, <1>3 DEF Looks!handle_pointer_inhibit_timeout
<1>4. CASE Looks!handle_keydown
  BY <1>2, <1>4 DEF Looks!handle_keydown
<1>5. CASE Looks!Motion
  <2>1. EffectsInv(Looks!window_reset_pointer_inhibit_timer(state))
    BY <1>2 DEF Looks!window_reset_pointer_inhibit_timer
  <2> QED BY <1>5, <2>1, SelectKeeps DEF Looks!Motion
<1>8. CASE Looks!update_cursor
  BY <1>8, SelectKeeps DEF Looks!update_cursor
<1>6. CASE Looks!window_set_pointer_mode
  <2>1. PICK mode \in {"never", "no_tracking", "always"} :
            state' = Looks!Count(Looks!window_update_pointer_mode([state EXCEPT !.pointer_mode = mode]))
    BY <1>6 DEF Looks!window_set_pointer_mode
  <2> DEFINE v == [state EXCEPT !.pointer_mode = mode]
  <2>2. LooksTypes(v) /\ v.pointer_inhibit_timer = state.pointer_inhibit_timer
        /\ v.pointer_inhibit = state.pointer_inhibit
    BY <1>1 DEF LooksTypes
  <2>3. SameCursor(state, v) /\ SameTitles(state, v)
    BY <1>1 DEF LooksTypes, SameCursor, SameTitles
  <2> HIDE DEF v
  <2>4. v.cut = state.cut
    BY <2>3 DEF SameCursor
  <2>5. EffectsInv(Looks!Count(Looks!window_update_pointer_mode(v)))
    BY <1>1, <2>2, <2>3, <2>4, UnchangedParts, PointerKeeps DEF PointerOK
  <2> QED BY <2>1, <2>5 DEF v
<1>7. CASE Looks!SetMouse
  <2> DEFINE on == ~ state.tracking
             v == [state EXCEPT !.tracking = on]
  <2>1. on \in BOOLEAN
    OBVIOUS
  <2> HIDE DEF on
  <2>2. LooksTypes(v) /\ v.pointer_inhibit_timer = state.pointer_inhibit_timer
        /\ v.pointer_inhibit = state.pointer_inhibit
    BY <1>1, <2>1 DEF LooksTypes
  <2>3. SameCursor(state, v) /\ SameTitles(state, v)
    BY <1>1 DEF LooksTypes, SameCursor, SameTitles
  <2> HIDE DEF v
  <2>4. v.cut = state.cut
    BY <2>3 DEF SameCursor
  <2>5. EffectsInv(Looks!Count(Looks!window_update_pointer_mode(v)))
    BY <1>1, <2>2, <2>3, <2>4, UnchangedParts, PointerKeeps DEF PointerOK
  <2> QED BY <1>7, <2>5 DEF Looks!SetMouse, v, on
<1> QED BY <1>3, <1>4, <1>5, <1>6, <1>7, <1>8

(* The steps of the cursor that leave the redraw to the next tick *)
LEMMA ChangesKeep ==
    ASSUME NEW v, NEW u, EffectsInv(v), LooksTypes(u), SamePointer(v, u), SameTitles(v, u), u.event,
           u.s = v.s, u.blink_timer = v.blink_timer, u.inhibit = v.inhibit,
           u.blink_inhibit_timer = v.blink_inhibit_timer,
           u.prev_hidden = v.prev_hidden, u.shown = v.shown, u.cut = v.cut,
           u.blink = v.blink \/ v.blink_timer = "on", u.drawn => v.drawn
    PROVE  EffectsInv(u)
<1>1. CursorOK(v) /\ u.cfg = v.cfg
  BY DEF EffectsInv, SamePointer
<1>2. CursorOK(u)
  BY <1>1 DEF CursorOK
<1> QED BY <1>2, UnchangedParts DEF EffectsInv
(* The blink timer, and what programs do. *)
LEMMA OutputKeeps ==
    ASSUME EffectsInv(state), Looks!handle_blink \/ Looks!Output \/ Looks!BlinkingText
    PROVE  EffectsInv(state')
<1>1. LooksTypes(state)
  BY DEF EffectsInv
<1>2. CASE Looks!handle_blink
  <2> DEFINE blink == ~ state.blink
             u == [state EXCEPT !.blink = blink, !.committed = FALSE, !.event = TRUE]
  <2>1. blink \in BOOLEAN
    OBVIOUS
  <2> HIDE DEF blink
  <2>2. LooksTypes(u)
    BY <1>1, <2>1 DEF LooksTypes
  <2>3. SamePointer(state, u) /\ SameTitles(state, u)
    BY <1>1 DEF LooksTypes, SamePointer, SameTitles
  <2>4. /\ u.event = TRUE /\ u.s = state.s /\ u.blink_timer = state.blink_timer /\ u.inhibit = state.inhibit
        /\ u.blink_inhibit_timer = state.blink_inhibit_timer /\ u.prev_hidden = state.prev_hidden
        /\ u.shown = state.shown
        /\ u.cut = state.cut /\ u.drawn = state.drawn
    BY <1>1 DEF LooksTypes
  <2> HIDE DEF u
  <2>5. EffectsInv(u)
    BY <1>2, <2>2, <2>3, <2>4, ChangesKeep DEF Looks!handle_blink
  <2> QED BY <1>2, <2>5 DEF Looks!handle_blink, u, blink
<1>3. CASE Looks!Output
  <2>1. ASSUME NEW moved \in BOOLEAN, NEW hidden \in BOOLEAN, NEW drawn \in BOOLEAN, drawn => state.drawn, NEW v,
               \/ v = [state EXCEPT !.moved = moved] \/ v = [state EXCEPT !.hidden = hidden]
               \/ v = [state EXCEPT !.drawn = drawn]
        PROVE  EffectsInv([v EXCEPT !.event = TRUE])
    <3> DEFINE u == [v EXCEPT !.event = TRUE]
    <3>0. LooksTypes(v)
      <4>1. LooksTypes([state EXCEPT !.moved = moved])
        BY <1>1 DEF LooksTypes
      <4>2. LooksTypes([state EXCEPT !.hidden = hidden])
        BY <1>1 DEF LooksTypes
      <4>3. LooksTypes([state EXCEPT !.drawn = drawn])
        BY <1>1 DEF LooksTypes
      <4> QED BY <2>1, <4>1, <4>2, <4>3
    <3>1. LooksTypes(u)
      BY <3>0 DEF LooksTypes
    <3>2. SamePointer(state, u) /\ SameTitles(state, u)
      BY <1>1, <2>1 DEF LooksTypes, SamePointer, SameTitles
    <3>3. /\ u.event = TRUE /\ u.s = state.s /\ u.blink_timer = state.blink_timer /\ u.inhibit = state.inhibit
          /\ u.blink_inhibit_timer = state.blink_inhibit_timer /\ u.prev_hidden = state.prev_hidden
          /\ u.shown = state.shown
          /\ u.cut = state.cut /\ u.blink = state.blink /\ (u.drawn = state.drawn \/ u.drawn = drawn)
      BY <1>1, <2>1 DEF LooksTypes
    <3> HIDE DEF u
    <3>4. EffectsInv(u)
      BY <2>1, <3>1, <3>2, <3>3, ChangesKeep
    <3> QED BY <3>4 DEF u
  <2> DEFINE hidden == ~ state.hidden
  <2>2. PICK v \in {[state EXCEPT !.moved = TRUE], [state EXCEPT !.hidden = hidden], [state EXCEPT !.drawn = FALSE]} :
            state' = Looks!Count([v EXCEPT !.event = TRUE])
    BY <1>3 DEF Looks!Output
  <2>3. hidden \in BOOLEAN
    OBVIOUS
  <2> HIDE DEF hidden
  <2>4. v = [state EXCEPT !.moved = TRUE] \/ v = [state EXCEPT !.hidden = hidden] \/ v = [state EXCEPT !.drawn = FALSE]
    BY <2>2
  <2>5. EffectsInv([v EXCEPT !.event = TRUE])
    BY <2>1, <2>3, <2>4
  <2> QED BY <2>2, <2>5, CountKeeps
<1>4. CASE Looks!BlinkingText
  <2> DEFINE text == ~ state.text
             u == [state EXCEPT !.text = text, !.event = TRUE]
  <2>1. text \in BOOLEAN
    OBVIOUS
  <2> HIDE DEF text
  <2>2. LooksTypes(u)
    BY <1>1, <2>1 DEF LooksTypes
  <2>3. SamePointer(state, u) /\ SameTitles(state, u)
    BY <1>1 DEF LooksTypes, SamePointer, SameTitles
  <2>4. /\ u.event = TRUE /\ u.s = state.s /\ u.blink_timer = state.blink_timer /\ u.inhibit = state.inhibit
        /\ u.blink_inhibit_timer = state.blink_inhibit_timer /\ u.prev_hidden = state.prev_hidden
        /\ u.shown = state.shown
        /\ u.cut = state.cut /\ u.drawn = state.drawn /\ u.blink = state.blink
    BY <1>1 DEF LooksTypes
  <2> HIDE DEF u
  <2>5. EffectsInv(Looks!Count(u))
    BY <2>2, <2>3, <2>4, ChangesKeep, CountKeeps
  <2> QED BY <1>4, <2>5 DEF Looks!BlinkingText, u, text
<1> QED BY <1>2, <1>3, <1>4

(* The cursor may blink again *)
LEMMA InhibitTimeoutKeeps ==
    ASSUME EffectsInv(state), Looks!handle_blink_inhibit_timeout
    PROVE  EffectsInv(state')
<1> DEFINE v == [state EXCEPT !.blink_inhibit_timer = FALSE]
           timer == Looks!poller_toggle(v.blink_timer, TRUE)
           blink == v.cfg.cursor_hide_on_input
           u == [v EXCEPT !.inhibit = FALSE, !.blink = blink, !.blink_timer = timer]
<1>1. LooksTypes(state) /\ PointerOK(state) /\ CursorOK(state) /\ TitlesOK(state)
  BY DEF EffectsInv
<1>2. LooksTypes(v) /\ v.cfg = state.cfg /\ v.blink_timer = state.blink_timer
  BY <1>1 DEF LooksTypes
<1>3. v.cfg \in AnyCfg /\ blink \in BOOLEAN /\ (blink <=> state.cfg.cursor_hide_on_input)
  BY <1>2 DEF LooksTypes, AnyCfg
<1>4. timer \in {"none", "off", "on"} /\ timer = (IF state.blink_timer = "none" THEN "none" ELSE "on")
  BY <1>2 DEF Looks!poller_toggle
<1> HIDE DEF timer, blink
<1>5. LooksTypes(u)
  <2> HIDE DEF v
  <2>1. LooksTypes(v) /\ blink \in BOOLEAN /\ timer \in {"none", "off", "on"}
    BY <1>2, <1>3, <1>4
  <2> QED BY <2>1 DEF LooksTypes
<1>6. SamePointer(state, u) /\ SameTitles(state, u)
  BY <1>1 DEF LooksTypes, SamePointer, SameTitles
<1>7. /\ u.inhibit = FALSE /\ u.blink = blink /\ u.blink_timer = timer /\ u.s = state.s /\ u.cfg = state.cfg
      /\ u.drawn = state.drawn /\ u.prev_hidden = state.prev_hidden /\ u.shown = state.shown /\ u.event = state.event
      /\ u.hidden = state.hidden /\ u.text = state.text /\ u.lit = state.lit
  BY <1>1 DEF LooksTypes
<1> HIDE DEF u
<1>8. CursorOK(u)
  BY <1>1, <1>3, <1>4, <1>7 DEF CursorOK, Supported
<1>9. EffectsInv(Looks!window_update_pointer_mode(u))
  BY <1>1, <1>5, <1>6, <1>8, UnchangedParts, PointerKeeps DEF PointerOK, SamePointer
<1> QED BY <1>9 DEF Looks!handle_blink_inhibit_timeout, Looks!Blinking, u, v, timer, blink
(* The configuration is read again. *)
LEMMA ReloadKeeps ==
    ASSUME EffectsInv(state), Looks!reload_window
    PROVE  EffectsInv(state')
<1> DEFINE cut == state.inhibit \/ state.pointer_inhibit
           timer == IF state.s.next.allow_blinking THEN "on" ELSE "none"
           next == state.s.next
           u == [state EXCEPT !.cfg = next, !.blink_timer = timer, !.blink_inhibit_timer = FALSE,
                          !.pointer_inhibit_timer = FALSE, !.event = TRUE, !.drawn = FALSE, !.cut = cut]
<1>1. LooksTypes(state) /\ CursorOK(state) /\ TitlesOK(state)
  BY DEF EffectsInv
<1>2. state.s \in WindowSessions
  BY <1>1 DEF LooksTypes
<1>3. /\ state.s.next \in AnyCfg /\ Supported(state.s.next) /\ Supported(state.s.cfg)
      /\ state.s.cfg.allow_blinking => state.s.next.allow_blinking
  BY <1>2, WindowsAssumption DEF AnySession
<1>4. cut \in BOOLEAN /\ (cut <=> state.inhibit \/ state.pointer_inhibit)
  OBVIOUS
<1>5. timer \in {"none", "off", "on"} /\ timer = (IF state.s.next.allow_blinking THEN "on" ELSE "none")
  OBVIOUS
<1> HIDE DEF cut, timer
<1>6. LooksTypes(u)
  <2>1. LooksTypes(state) /\ next \in AnyCfg /\ timer \in {"none", "off", "on"} /\ cut \in BOOLEAN
    BY <1>1, <1>3, <1>4, <1>5
  <2> DEFINE half == [state EXCEPT !.cfg = next, !.blink_timer = timer, !.cut = cut]
  <2> HIDE DEF next
  <2>2. LooksTypes(half)
    BY <2>1 DEF LooksTypes
  <2> DEFINE rest == [half EXCEPT !.blink_inhibit_timer = FALSE, !.pointer_inhibit_timer = FALSE, !.event = TRUE, !.drawn = FALSE]
  <2>3. u = rest
    BY <2>1 DEF LooksTypes
  <2> HIDE DEF half, u
  <2>4. LooksTypes(rest)
    BY <2>2 DEF LooksTypes
  <2> QED BY <2>3, <2>4
<1>7. SameTitles(state, u)
  BY <1>1 DEF LooksTypes, SameTitles
<1>8. /\ u.s = state.s /\ u.cfg = state.s.next /\ u.blink_timer = timer /\ u.event = TRUE /\ u.drawn = FALSE
      /\ u.cut = cut
      /\ u.blink = state.blink /\ u.inhibit = state.inhibit /\ u.pointer_inhibit = state.pointer_inhibit
  BY <1>1 DEF LooksTypes
<1> HIDE DEF u
<1>9. CursorOK(u)
  BY <1>1, <1>3, <1>4, <1>5, <1>8 DEF CursorOK
<1>10. EffectsInv(Looks!Count(Looks!window_update_pointer_mode(u)))
  BY <1>1, <1>4, <1>6, <1>7, <1>8, <1>9, UnchangedParts, PointerKeeps
<1> QED BY <1>10 DEF Looks!reload_window, u, cut, timer

(* The steps of titles *)
LEMMA TitleKeeps ==
    ASSUME EffectsInv(state), NEW title \in AllTitles, NEW icon \in AllTitles, NEW stack \in Seq(TitleItem),
           NEW due \in Seq(TitleDue), NEW popped \in Seq(TitleDue),
           DOMAIN stack = DOMAIN due,
           \A k \in DOMAIN stack :
             stack[k] = [title |-> IF "title" \in due[k].which THEN due[k].title ELSE Looks!NULL,
                         icon |-> IF "icon" \in due[k].which THEN due[k].icon ELSE Looks!NULL],
           popped # <<>> =>
             /\ "title" \in popped[1].which => title = popped[1].title
             /\ "icon" \in popped[1].which => icon = popped[1].icon
    PROVE  EffectsInv(Looks!Count([state EXCEPT !.title = title, !.icon = icon, !.stack = stack, !.due = due,
                                   !.popped = popped]))
<1> DEFINE u == [state EXCEPT !.title = title, !.icon = icon, !.stack = stack, !.due = due, !.popped = popped]
<1>1. LooksTypes(state)
  BY DEF EffectsInv
<1>2. LooksTypes(u)
  BY <1>1 DEF LooksTypes
<1>3. SameCursor(state, u) /\ SamePointer(state, u)
  BY <1>1 DEF LooksTypes, SameCursor, SamePointer
<1>4. u.title = title /\ u.icon = icon /\ u.stack = stack /\ u.due = due /\ u.popped = popped
  BY <1>1 DEF LooksTypes
<1> HIDE DEF u
<1>5. TitlesOK(u)
  BY <1>4 DEF TitlesOK
<1>6. EffectsInv(Looks!Count(u))
  BY <1>2, <1>3, <1>5, UnchangedParts, CountKeeps DEF EffectsInv
<1> QED BY <1>6 DEF u

(* The first title is one, and that of the item at the top where it has one *)
LEMMA FirstIs ==
    ASSUME NEW stack \in Seq(TitleItem), NEW kind \in {"title", "icon"}, NEW current \in AllTitles
    PROVE  /\ Looks!First(stack, kind, current) \in AllTitles
           /\ stack # <<>> /\ stack[1][kind] # Looks!NULL => Looks!First(stack, kind, current) = stack[1][kind]
<1> DEFINE has == {k \in DOMAIN stack : stack[k][kind] # Looks!NULL}
           first == CHOOSE k \in has : \A l \in has : k <= l
<1>1. CASE has = {}
  <2>1. Looks!First(stack, kind, current) = current
    BY <1>1 DEF Looks!First
  <2>2. stack # <<>> => 1 \in DOMAIN stack
    OBVIOUS
  <2> QED BY <1>1, <2>1, <2>2
<1>2. CASE has # {}
  <2>1. has \subseteq Nat /\ \A k \in has : k > 0
    OBVIOUS
  <2>2. PICK least \in has : \A l \in has : <<l, least>> \notin OpToRel(<, Nat)
    <3> HIDE DEF has
    <3> QED BY <1>2, <2>1, NatLessThanWellFounded, WFMin
  <2>3. \A l \in has : least <= l
    <3> HIDE DEF has
    <3>1. \A l \in has : ~ (l < least)
      BY <2>1, <2>2 DEF OpToRel
    <3> QED BY <2>1, <3>1
  <2>4. first \in has /\ \A l \in has : first <= l
    BY <2>2, <2>3
  <2>5. Looks!First(stack, kind, current) = stack[first][kind]
    BY <1>2 DEF Looks!First
  <2>6. \A k \in has : stack[k][kind] \in AllTitles
    <3> TAKE k \in has
    <3>1. stack[k] \in TitleItem /\ stack[k][kind] # Looks!NULL
      OBVIOUS
    <3> QED BY <3>1 DEF TitleItem
  <2>7. stack # <<>> /\ stack[1][kind] # Looks!NULL => first = 1
    <3> HAVE stack # <<>> /\ stack[1][kind] # Looks!NULL
    <3>1. 1 \in has
      OBVIOUS
    <3> HIDE DEF has, first
    <3> QED BY <2>1, <2>4, <3>1
  <2> HIDE DEF has, first
  <2> QED BY <2>4, <2>5, <2>6, <2>7
<1> QED BY <1>1, <1>2

(* The stack of titles. *)
LEMMA TitleStepsKeep ==
    ASSUME EffectsInv(state), Looks!SetTitle \/ Looks!window_push_title \/ Looks!window_pop_title
    PROVE  EffectsInv(state')
<1>1. LooksTypes(state) /\ TitlesOK(state)
  BY DEF EffectsInv
<1>2. /\ state.title \in AllTitles /\ state.icon \in AllTitles /\ state.stack \in Seq(TitleItem)
      /\ state.due \in Seq(TitleDue)
      /\ state.popped \in Seq(TitleDue)
  BY <1>1 DEF LooksTypes
<1>3. CASE Looks!SetTitle
  <2>1. PICK t \in WindowTitles, which \in Looks!Which :
            state' = Looks!Count([state EXCEPT !.title = IF "title" \in which THEN t ELSE @,
                                  !.icon = IF "icon" \in which THEN t ELSE @, !.popped = <<>>])
    BY <1>3 DEF Looks!SetTitle
  <2> DEFINE title == IF "title" \in which THEN t ELSE state.title
             icon == IF "icon" \in which THEN t ELSE state.icon
  <2>2. title \in AllTitles /\ icon \in AllTitles
    BY <1>2 DEF AllTitles
  <2>3. state' = Looks!Count([state EXCEPT !.title = title, !.icon = icon, !.popped = <<>>])
    BY <2>1
  <2> HIDE DEF title, icon
  <2>4. [state EXCEPT !.title = title, !.icon = icon, !.popped = <<>>]
        = [state EXCEPT !.title = title, !.icon = icon, !.stack = state.stack, !.due = state.due, !.popped = <<>>]
    BY <1>1 DEF LooksTypes
  <2>5. <<>> \in Seq(TitleDue)
    OBVIOUS
  <2> DEFINE none == <<>>
  <2>6. none \in Seq(TitleDue) /\ ~ (none # <<>>)
    BY <2>5
  <2> HIDE DEF none
  <2>7. EffectsInv(Looks!Count([state EXCEPT !.title = title, !.icon = icon, !.stack = state.stack,
                                !.due = state.due, !.popped = none]))
    BY <1>1, <1>2, <2>2, <2>6, TitleKeeps DEF TitlesOK
  <2> QED BY <2>3, <2>4, <2>7 DEF none
<1>4. CASE Looks!window_push_title
  <2>1. PICK which \in Looks!Which :
            state' = Looks!Count(
                [state EXCEPT !.stack = <<[title |-> IF "title" \in which THEN state.title ELSE Looks!NULL,
                                           icon |-> IF "icon" \in which THEN state.icon ELSE Looks!NULL]>> \o @,
                              !.due = <<[which |-> which, title |-> state.title, icon |-> state.icon]>> \o @,
                              !.popped = <<>>])
    BY <1>4 DEF Looks!window_push_title
  <2> DEFINE item == [title |-> IF "title" \in which THEN state.title ELSE Looks!NULL,
                      icon |-> IF "icon" \in which THEN state.icon ELSE Looks!NULL]
             new == [which |-> which, title |-> state.title, icon |-> state.icon]
             stack == <<item>> \o state.stack
             due == <<new>> \o state.due
  <2>2. item \in TitleItem /\ new \in TitleDue
    BY <1>2 DEF TitleItem, TitleDue
  <2>3. item = [title |-> IF "title" \in new.which THEN new.title ELSE Looks!NULL,
                icon |-> IF "icon" \in new.which THEN new.icon ELSE Looks!NULL]
    OBVIOUS
  <2>4. state' = Looks!Count([state EXCEPT !.stack = stack, !.due = due, !.popped = <<>>])
    BY <2>1
  <2> HIDE DEF item, new
  <2>5. /\ stack \in Seq(TitleItem) /\ Len(stack) = Len(state.stack) + 1 /\ stack[1] = item
        /\ \A k \in 1..Len(state.stack) : stack[k + 1] = state.stack[k]
    BY <1>2, <2>2
  <2>6. /\ due \in Seq(TitleDue) /\ Len(due) = Len(state.due) + 1 /\ due[1] = new
        /\ \A k \in 1..Len(state.due) : due[k + 1] = state.due[k]
    BY <1>2, <2>2
  <2> HIDE DEF stack, due
  <2>7. Len(state.stack) = Len(state.due) /\ Len(state.stack) \in Nat /\ DOMAIN state.stack = 1..Len(state.stack)
    BY <1>1, <1>2 DEF TitlesOK
  <2>8. DOMAIN stack = DOMAIN due /\ DOMAIN stack = 1..(Len(state.stack) + 1)
    BY <2>5, <2>6, <2>7
  <2>9. ASSUME NEW k \in DOMAIN stack
        PROVE  stack[k] = [title |-> IF "title" \in due[k].which THEN due[k].title ELSE Looks!NULL,
                           icon |-> IF "icon" \in due[k].which THEN due[k].icon ELSE Looks!NULL]
    <3>1. CASE k = 1
      BY <2>3, <2>5, <2>6, <3>1
    <3>2. CASE k # 1
      <4>1. PICK j \in 1..Len(state.stack) : k = j + 1
        <5>1. k - 1 \in 1..Len(state.stack) /\ k = (k - 1) + 1
          BY <2>7, <2>8, <3>2
        <5> QED BY <5>1
      <4>2. stack[k] = state.stack[j] /\ due[k] = state.due[j] /\ j \in DOMAIN state.stack
        BY <2>5, <2>6, <2>7, <4>1
      <4> QED BY <1>1, <4>2 DEF TitlesOK
    <3> QED BY <3>1, <3>2
  <2>10. [state EXCEPT !.stack = stack, !.due = due, !.popped = <<>>]
         = [state EXCEPT !.title = state.title, !.icon = state.icon, !.stack = stack, !.due = due, !.popped = <<>>]
    BY <1>1 DEF LooksTypes
  <2>11. <<>> \in Seq(TitleDue)
    OBVIOUS
  <2> QED BY <1>2, <2>4, <2>5, <2>6, <2>8, <2>9, <2>10, <2>11, TitleKeeps
<1>5. CASE Looks!window_pop_title
  <2>1. state.stack # <<>>
    BY <1>5 DEF Looks!window_pop_title
  <2>2. PICK which \in Looks!Which :
            state' = Looks!Count(
                [state EXCEPT !.title = IF "title" \in which THEN Looks!First(state.stack, "title", @) ELSE @,
                              !.icon = IF "icon" \in which THEN Looks!First(state.stack, "icon", @) ELSE @,
                              !.stack = Tail(@), !.due = Tail(@),
                              !.popped = IF which = Head(state.due).which THEN <<Head(state.due)>> ELSE <<>>])
    BY <1>5 DEF Looks!window_pop_title
  <2> DEFINE title == IF "title" \in which THEN Looks!First(state.stack, "title", state.title) ELSE state.title
             icon == IF "icon" \in which THEN Looks!First(state.stack, "icon", state.icon) ELSE state.icon
             stack == Tail(state.stack)
             due == Tail(state.due)
             head == Head(state.due)
             popped == IF which = head.which THEN <<head>> ELSE <<>>
  <2>3. state' = Looks!Count([state EXCEPT !.title = title, !.icon = icon, !.stack = stack, !.due = due,
                              !.popped = popped])
    BY <2>2
  <2>4. Len(state.stack) = Len(state.due) /\ Len(state.stack) \in Nat
        /\ DOMAIN state.stack = 1..Len(state.stack) /\ Len(state.stack) > 0
    BY <1>1, <1>2, <2>1 DEF TitlesOK
  <2>5. /\ stack \in Seq(TitleItem) /\ Len(stack) = Len(state.stack) - 1
        /\ \A k \in 1..Len(stack) : stack[k] = state.stack[k + 1]
        /\ due \in Seq(TitleDue) /\ Len(due) = Len(state.due) - 1 /\ \A k \in 1..Len(due) : due[k] = state.due[k + 1]
    BY <1>2, <2>4
  <2>6. head = state.due[1] /\ head \in TitleDue
    BY <1>2, <2>4
  <2>7. Looks!First(state.stack, "title", state.title) \in AllTitles
        /\ Looks!First(state.stack, "icon", state.icon) \in AllTitles
    BY <1>2, FirstIs
  <2>8. title \in AllTitles /\ icon \in AllTitles
    BY <1>2, <2>7
  <2> HIDE DEF head, stack, due
  <2>9. popped \in Seq(TitleDue) /\ (popped # <<>> => which = head.which /\ popped[1] = head)
    BY <2>6
  <2>10. /\ state.stack[1] = [title |-> IF "title" \in head.which THEN head.title ELSE Looks!NULL,
                          icon |-> IF "icon" \in head.which THEN head.icon ELSE Looks!NULL]
         /\ head.title # Looks!NULL /\ head.icon # Looks!NULL
    <3>1. Looks!NULL \notin AllTitles
      BY WindowsAssumption DEF AllTitles, Looks!NULL
    <3>2. head.title \in AllTitles /\ head.icon \in AllTitles
      BY <2>6 DEF TitleDue
    <3>3. 1 \in DOMAIN state.stack
      BY <2>4
    <3> QED BY <1>1, <2>6, <3>1, <3>2, <3>3 DEF TitlesOK
  <2>11. popped # <<>> =>
            /\ "title" \in popped[1].which => title = popped[1].title
            /\ "icon" \in popped[1].which => icon = popped[1].icon
    <3> HAVE popped # <<>>
    <3>1. which = head.which /\ popped[1] = head
      BY <2>9
    <3>2. "title" \in which => Looks!First(state.stack, "title", state.title) = head.title
      BY <1>2, <2>1, <2>10, <3>1, FirstIs
    <3>3. "icon" \in which => Looks!First(state.stack, "icon", state.icon) = head.icon
      BY <1>2, <2>1, <2>10, <3>1, FirstIs
    <3> HIDE DEF popped
    <3> QED BY <3>1, <3>2, <3>3
  <2> HIDE DEF title, icon, popped
  <2>12. DOMAIN stack = DOMAIN due /\ DOMAIN stack = 1..Len(stack)
    BY <2>4, <2>5
  <2>13. ASSUME NEW k \in DOMAIN stack
         PROVE  stack[k] = [title |-> IF "title" \in due[k].which THEN due[k].title ELSE Looks!NULL,
                            icon |-> IF "icon" \in due[k].which THEN due[k].icon ELSE Looks!NULL]
    <3>1. stack[k] = state.stack[k + 1] /\ due[k] = state.due[k + 1] /\ k + 1 \in DOMAIN state.stack
      BY <2>4, <2>5, <2>12
    <3> QED BY <1>1, <3>1 DEF TitlesOK
  <2> QED BY <2>3, <2>5, <2>8, <2>9, <2>11, <2>12, <2>13, TitleKeeps
<1> QED BY <1>3, <1>4, <1>5

(* How a window starts. *)
LEMMA EffectsStart == Looks!Init => EffectsInv(state)
<1> SUFFICES ASSUME Looks!Init PROVE EffectsInv(state)
  OBVIOUS
<1>1. PICK s \in WindowSessions :
    state = [s |-> s, cfg |-> s.cfg, blink_timer |-> IF s.cfg.allow_blinking THEN "on" ELSE "none",
             blink |-> FALSE, committed |-> FALSE,
             inhibit |-> FALSE, blink_inhibit_timer |-> FALSE, event |-> TRUE, moved |-> FALSE, hidden |-> FALSE,
         prev_hidden |-> FALSE,
             drawn |-> FALSE, shown |-> FALSE, text |-> FALSE, lit |-> FALSE,
             pointer_inhibit |-> FALSE, pointer_inhibit_timer |-> FALSE, pointer_mode |-> "never",
             tracking |-> FALSE, pointer_is_hidden |-> FALSE, selected |-> FALSE, refused |-> FALSE,
             title |-> "nsst", icon |-> "nsst", stack |-> <<>>, due |-> <<>>, popped |-> <<>>, cut |-> FALSE, n |-> 0]
  BY DEF Looks!Init
<1>2. s.cfg \in AnyCfg /\ Supported(s.cfg)
  BY WindowsAssumption DEF AnySession
<1>3. <<>> \in Seq(TitleItem) /\ <<>> \in Seq(TitleDue)
  OBVIOUS
<1>4. LooksTypes(state)
  BY <1>1, <1>2, <1>3 DEF LooksTypes, AllTitles
<1>5. PointerOK(state)
  BY <1>1 DEF PointerOK, Looks!Hide
<1>6. CursorOK(state)
  BY <1>1, <1>2 DEF CursorOK
<1>7. TitlesOK(state)
  BY <1>1 DEF TitlesOK
<1> QED BY <1>4, <1>5, <1>6, <1>7 DEF EffectsInv

(* Every step keeps it. *)
LEMMA EffectsNext == EffectsInv(state) /\ Looks!Next => EffectsInv(state')
BY TickKeeps, OutputKeeps, InhibitTimeoutKeeps, PointerStepsKeep, ReloadKeeps, TitleStepsKeep DEF Looks!Next

LooksInv == part = "effects" => EffectsInv(state)

(* What is hidden for a time has a timer that ends it, a cursor that is    *)
(* left alone is shown as programs asked or blinks, the pointer is hidden  *)
(* exactly while keys or programs have it so, and a title that was pushed  *)
(* comes back: for any number of steps and titles, and all configurations  *)
(* of WindowsAssumption (window_submit_screen(), shm_submit_screen(), the  *)
(* timers of window.c, reload_window(), window_pop_title()).               *)
THEOREM EffectsAreRight == FrontSpec => []EffectsRight
<1>1. FrontInit => LooksInv
  BY EffectsStart DEF FrontInit, Chosen, LooksInv
<1>2. LooksInv /\ [FrontNext]_all => LooksInv'
  <2> SUFFICES ASSUME LooksInv, [FrontNext]_all, part' = "effects"
               PROVE  EffectsInv(state')
    BY DEF LooksInv
  <2>1. part = "effects" /\ (Looks!Next \/ state' = state)
    BY DEF FrontNext, all
  <2> QED BY <2>1, EffectsNext DEF LooksInv
<1>3. LooksInv => EffectsRight
  BY LooksImplied DEF LooksInv, EffectsRight
<1> QED BY <1>1, <1>2, <1>3, PTL DEF FrontSpec
=============================================================================
