---------------------------- MODULE MBServerProps ----------------------------
(***************************************************************************)
(* What the RPCs must guarantee from the call to the handler.              *)
(***************************************************************************)
EXTENDS MBServer

Value == Nat \X Nat
Entry == [action : (Kinds \ ToSet(FileKinds)) \cup {"FILEACCESS"}, words : 0 .. MB_MAX_ARGS,
          args : [1 .. MB_MAX_ARGS -> Value]]
TextT == [id : 0 .. MaxReq, nl : BOOLEAN, wants : Extra \cup {0}]

\* The type invariant.
RpcTypeOK ==
    /\ env \in Envs
    /\ \A s \in DOMAIN ring : ring[s] \in Entry
    /\ prod \in 0 .. MaxReq /\ cons \in 0 .. prod /\ prod - cons <= MB_MAX_ENTRIES
    /\ text \in [Bufs -> TextT] /\ busy \subseteq Bufs
    /\ wait \in 0 .. prod /\ Len(meant) = prod
    /\ pc \in {"recv", "cmd", "send", "stopped", "panic"}
    /\ cur.id \in 0 .. cons /\ cur.entry \in Entry
    /\ parked \in BOOLEAN /\ ready \in BOOLEAN
    /\ \A s \in Streams : buf[s] \in Seq(TextT) /\ out[s] \in Seq(TextT) /\ passed[s] \in Seq(TextT)
    /\ \A k \in DOMAIN replies : replies[k] \in 1 .. prod

\* What a handler takes from its entry is what the caller gave, although the slot
\* held another request before, of another kind and with more arguments; and the
\* server goes down only over a request nobody could have served.
Hopeless(m) ==
    \/ m.kind = "IDLE"
    \/ m.kind \in ToSet(FileKinds) /\ ~env.fs
    \/ m.kind = "CALL" /\ ~env.call
    \/ m.kind = "OTHER" /\ ~is_me(cur.entry.args[1][2])
    \/ m.kind = "CPRINT" /\ m.wants # Len(m.args) - 3

ServedAsSent ==
    /\ pc \in {"cmd", "send"} => Kind = meant[cur.id].kind /\ Args = meant[cur.id].args
    /\ pc = "panic" => Hopeless(meant[cur.id])

\* All that was printed by one of the printers, and what is left in its buffer.
Shown(s) == out[s] \o buf[s]

\* The server prints what the firmware passed, in the order of the calls, each text
\* once, although cprint returns before the text is read: a firmware that uses a
\* buffer again only after a later answered call never sees it overtaken.
PrintedAsPassed ==
    \A s \in Streams : IsPrefix(Shown(s), passed[s])

\* Every call that waits is answered, unless the server has ended or sits on a call
\* that said Pending in a task the wake loop is not part of.
CallsEnd ==
    \/ (wait # 0) ~> (wait = 0)
    \/ <>(pc \in {"stopped", "panic"})
    \/ <>[](parked /\ ~env.shared)
===============================================================================
