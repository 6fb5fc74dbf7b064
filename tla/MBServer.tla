------------------------------- MODULE MBServer -------------------------------
(***************************************************************************)
(* What a request means on both sides: put_req of every RPC (mb_rpcs.rs,   *)
(* print.rs, c_print.rs), which writes only the arguments it has into a    *)
(* slot that still holds an older request; poll_cmd of MBServerInner       *)
(* (mb_server.rs) and of the handlers it calls; the serve loop.  The text  *)
(* of a print stays in the memory of the firmware until the server reads   *)
(* it, and what has been printed of a line in the buffer of the server.    *)
(*                                                                         *)
(* An argument is a pair: <<id, k>> is the k-th the caller of request id   *)
(* gave, <<0, x>> a buffer, a file action or the code of a custom command. *)
(***************************************************************************)
EXTENDS Naturals, Sequences, SequencesExt

CONSTANTS MB_MAX_ENTRIES, MB_MAX_ARGS,
          Custom,       \* of each custom command, in the order of add_cmd: its codes
          Codes, Bufs,  \* codes firmware uses, buffers it formats into
          Extra,        \* how many further arguments call and cprint are given
          Envs,         \* what servers there are: [fs, call, shared : BOOLEAN]
          MaxReq        \* bound: requests

ASSUME ServerAssumption ==
    /\ MB_MAX_ENTRIES \in Nat \ {0} /\ MB_MAX_ARGS \in Nat /\ MaxReq \in Nat
    /\ Extra \subseteq 0 .. MB_MAX_ARGS - 4
    /\ Codes \subseteq Nat /\ Bufs \subseteq Nat
    /\ Envs \subseteq [fs : BOOLEAN, call : BOOLEAN, shared : BOOLEAN]

VARIABLES
    env,            \* there is an MBFs; __mb_call is there; the wake loop is polled
                    \* in the task of the server
    ring, prod, cons,  \* the request slots, requests put and taken
    replies,        \* the answers
    text, busy,     \* of each buffer: its text; still to be read after the call
    wait,           \* the request whose answer the client awaits, 0 for none
    meant,          \* history: what the caller of each request gave
    passed,         \* history: the texts passed to print and to cprint
    pc, cur,        \* of the server: its step, the request it has copied
    parked, ready,  \* the call has said Pending, and would now say Ready
    buf, out        \* of each printer: the line it buffers, what it has printed

client == <<env, text, busy, wait, meant, passed>>
server == <<pc, cur, parked, ready, buf, out>>
vars   == <<client, ring, prod, cons, replies, server>>

FileKinds == <<"OPEN", "CLOSE", "READ", "WRITE", "SEEK">>
\* IDLE and OTHER are sent by encodings of the user's own.
Kinds == {"IDLE", "EXIT", "PRINT", "MEMMOVE", "MEMSET", "MEMCMP", "CALL", "CPRINT", "OTHER"}
         \cup ToSet(FileKinds)
Streams == {"PRINT", "CPRINT"}

Slot0   == [action |-> "IDLE", words |-> 0, args |-> [k \in 1 .. MB_MAX_ARGS |-> <<0, 0>>]]
NoText  == [id |-> 0, nl |-> FALSE, wants |-> 0]
NoEntry == [id |-> 0, entry |-> Slot0]

Init ==
    /\ env \in Envs
    /\ ring = [s \in 0 .. MB_MAX_ENTRIES - 1 |-> Slot0] /\ prod = 0 /\ cons = 0
    /\ replies = <<>>
    /\ text = [b \in Bufs |-> NoText] /\ busy = {}
    /\ wait = 0 /\ meant = <<>> /\ passed = [s \in Streams |-> <<>>]
    /\ pc = "recv" /\ cur = NoEntry /\ parked = FALSE /\ ready = FALSE
    /\ buf = [s \in Streams |-> <<>>] /\ out = [s \in Streams |-> <<>>]

-----------------------------------------------------------------------------
(* Encodings.                                                               *)

\* How many arguments the caller gives, the further ones apart.
Arity(kind) ==
    CASE kind = "IDLE" -> 0
      [] kind \in {"EXIT", "CALL", "CLOSE", "OTHER"} -> 1
      [] kind \in {"PRINT", "OPEN", "SEEK"} -> 2
      [] OTHER -> 3

\* The pointer to a text: the second argument of print, the first of cprint.
TextAt(kind) == CASE kind = "PRINT" -> 2 [] kind = "CPRINT" -> 1 [] OTHER -> 0

Given(kind, id, n, x) ==
    [k \in 1 .. Arity(kind) + n |-> IF k = TextAt(kind) THEN <<0, x>> ELSE <<id, k>>]

\* What put_req sets before the caller's arguments.
Lead(kind, x) ==
    IF kind \in ToSet(FileKinds) THEN << <<0, CHOOSE k \in DOMAIN FileKinds : FileKinds[k] = kind>> >>
    ELSE IF kind = "OTHER" THEN << <<0, x>> >> ELSE <<>>

ActionOf(kind) == IF kind \in ToSet(FileKinds) THEN "FILEACCESS" ELSE kind

\* Bug: a request of so many arguments forgets the one in front of them.
words_Bare(kind, args) == IF kind \in {"CALL", "CPRINT"} THEN Len(args) - 1 ELSE Len(args)

words(kind, args) == Len(args)

\* The other arguments of the slot stay what they were.
put_req(slot, kind, args) ==
    [action |-> ActionOf(kind), words |-> words(kind, args),
     args |-> [k \in 1 .. MB_MAX_ARGS |-> IF k <= Len(args) THEN args[k] ELSE slot.args[k]]]

\* The kind a handler sees, and the arguments it takes from the entry.
KindOf(e) == IF e.action = "FILEACCESS" THEN FileKinds[e.args[1][2]] ELSE e.action

Taken(e) ==
    LET kind == KindOf(e)
        from == IF kind = "OTHER" \/ kind \in ToSet(FileKinds) THEN 2 ELSE 1
        to   == IF kind \in {"CALL", "CPRINT"} THEN e.words ELSE from + Arity(kind) - 1
    IN SubSeq(e.args, from, to)

-----------------------------------------------------------------------------
(* The client.                                                              *)

\* send or send_nb.
Waits(kind) == kind \notin {"EXIT", "CLOSE", "CPRINT"}

\* Bug: one entry too many.
req_can_put_Full == prod - cons <= MB_MAX_ENTRIES

req_can_put == prod - cons < MB_MAX_ENTRIES

\* A call.  The firmware formats a text into a buffer that no earlier cprint may
\* still have to be read from.
Call(kind, n, x, nl, wants) ==
    LET id == prod + 1 IN
    /\ wait = 0 /\ id <= MaxReq /\ req_can_put
    /\ kind \in {"CALL", "CPRINT"} \/ n = 0
    /\ kind \in Streams => x \in Bufs \ busy
    /\ text' = IF kind \in Streams
               THEN [text EXCEPT ![x] = [id |-> id, nl |-> nl, wants |-> wants]] ELSE text
    /\ passed' = IF kind \in Streams THEN [passed EXCEPT ![kind] = Append(@, text'[x])] ELSE passed
    /\ busy' = IF kind \in Streams /\ ~Waits(kind) THEN busy \cup {x} ELSE busy
    /\ meant' = Append(meant, [kind |-> kind, args |-> Given(kind, id, n, x), wants |-> wants])
    /\ ring' = [ring EXCEPT ![prod % MB_MAX_ENTRIES] =
                   put_req(@, kind, Lead(kind, x) \o Given(kind, id, n, x))]
    /\ prod' = id
    /\ wait' = IF Waits(kind) THEN id ELSE 0
    /\ UNCHANGED <<env, cons, replies, server>>

\* The answer: whatever was sent before it has been served, and its texts read.
Return ==
    /\ wait # 0 /\ replies # <<>>
    /\ replies' = Tail(replies) /\ wait' = 0 /\ busy' = {}
    /\ UNCHANGED <<env, text, meant, passed, ring, prod, cons, server>>

-----------------------------------------------------------------------------
(* The server.                                                              *)

recv_req ==
    /\ pc = "recv" /\ cons < prod
    /\ cur' = [id |-> cons + 1, entry |-> ring[cons % MB_MAX_ENTRIES]]
    /\ cons' = cons + 1 /\ pc' = "cmd" /\ ready' = FALSE
    /\ UNCHANGED <<client, ring, prod, replies, parked, buf, out>>

Kind == KindOf(cur.entry)
Args == Taken(cur.entry)
Cmd(kinds) == pc = "cmd" /\ ~parked /\ Kind \in kinds

\* Some custom command knows the code.
is_me(code) == \E k \in DOMAIN Custom : code \in Custom[k]

Goto(label) == pc' = label /\ UNCHANGED <<client, ring, prod, cons, replies, cur, parked, ready>>

\* Illegal, "No mb_fs", "CALL is not implemented!", "OTHER action .. is not support!".
Unserved ==
    /\ \/ Cmd({"IDLE"})
       \/ Cmd(ToSet(FileKinds)) /\ ~env.fs
       \/ Cmd({"CALL"}) /\ ~env.call
       \/ Cmd({"OTHER"}) /\ ~is_me(cur.entry.args[1][2])
    /\ Goto("panic") /\ UNCHANGED <<buf, out>>

\* Ready(Err(Stop)): the loop ends; what the line buffers hold is not printed.
exit == Cmd({"EXIT"}) /\ Goto("stopped") /\ UNCHANGED <<buf, out>>

\* Bug: prints the line and keeps it.
print_line_Kept(s, t) ==
    LET line == Append(buf[s], t) IN
    /\ buf' = [buf EXCEPT ![s] = line]
    /\ out' = [out EXCEPT ![s] = IF t.nl THEN @ \o line ELSE @]

\* What both printers do with a text: a line is printed when it is complete.
print_line(s, t) ==
    LET line == Append(buf[s], t) IN
    /\ buf' = [buf EXCEPT ![s] = IF t.nl THEN <<>> ELSE line]
    /\ out' = [out EXCEPT ![s] = IF t.nl THEN @ \o line ELSE @]

print ==
    /\ Cmd({"PRINT"})
    /\ print_line("PRINT", text[Args[2][2]]) /\ Goto("send")

\* vsprintf fails unless the format takes exactly the arguments there are.
cprint ==
    LET t == text[Args[1][2]] IN
    /\ Cmd({"CPRINT"})
    /\ IF t.wants = Len(Args) - 3
       THEN print_line("CPRINT", t) /\ Goto("recv")
       ELSE Goto("panic") /\ UNCHANGED <<buf, out>>

\* Handlers that MBShareMem and MBFs have in detail, and custom commands.
others ==
    /\ \/ Cmd({"MEMMOVE", "MEMSET", "MEMCMP"})
       \/ Cmd(ToSet(FileKinds)) /\ env.fs
       \/ Cmd({"OTHER"}) /\ is_me(cur.entry.args[1][2])
    /\ Goto(IF Kind = "CLOSE" THEN "recv" ELSE "send")
    /\ UNCHANGED <<buf, out>>

\* __mb_call says Ready, or Pending: then nobody has the waker of the server.
call ==
    /\ Cmd({"CALL"}) /\ env.call
    /\ pc' = IF ready THEN "send" ELSE pc
    /\ parked' = ~ready
    /\ UNCHANGED <<client, ring, prod, cons, replies, cur, ready, buf, out>>

\* The method is done.
CallDone ==
    /\ pc = "cmd" /\ Kind = "CALL" /\ env.call /\ ~ready
    /\ ready' = TRUE
    /\ UNCHANGED <<client, ring, prod, cons, replies, pc, cur, parked, buf, out>>

\* A wake loop joined with the server has it polled at every turn.
Repoll ==
    /\ parked /\ env.shared
    /\ parked' = FALSE
    /\ UNCHANGED <<client, ring, prod, cons, replies, pc, cur, ready, buf, out>>

\* Bug: the answer does not get into the ring.
send_resp_Lost ==
    /\ pc = "send" /\ pc' = "recv"
    /\ UNCHANGED <<client, ring, prod, cons, replies, cur, parked, ready, buf, out>>

send_resp ==
    /\ pc = "send"
    /\ replies' = Append(replies, cur.id) /\ pc' = "recv"
    /\ UNCHANGED <<client, ring, prod, cons, cur, parked, ready, buf, out>>

Handle == Unserved \/ exit \/ print \/ cprint \/ others \/ call
Server == recv_req \/ Handle \/ send_resp

Next ==
    \/ \E kind \in Kinds, n \in Extra, x \in Codes \cup Bufs, nl \in BOOLEAN, wants \in Extra :
          /\ kind = "OTHER" \/ kind \in Streams \/ x = 0
          /\ kind \in Streams \/ ~nl
          /\ kind = "CPRINT" \/ wants = 0
          /\ Call(kind, n, x, nl, wants)
    \/ Return
    \/ Server \/ CallDone \/ Repoll

RpcSpec == Init /\ [][Next]_vars

\* The server goes on, methods end, and a client takes its answer.
FairRpcSpec ==
    RpcSpec /\ WF_vars(Server) /\ WF_vars(CallDone) /\ WF_vars(Repoll) /\ WF_vars(Return)
===============================================================================
