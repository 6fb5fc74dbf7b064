------------------------------ MODULE MBFsProof ------------------------------
(***************************************************************************)
(* Theorems about the file table of MBFs, for any number of channels and   *)
(* files, any size of the descriptor space and any number of commands.     *)
(***************************************************************************)
EXTENDS MBFsProps, FiniteSetTheorems, SequenceTheorems, TLAPS

Labels == {"idle", "open", "insert", "close", "read", "write", "seek", "panic"}

\* The fields an open file has, whatever they hold.
HasFields(f) ==
    f = [serial |-> f.serial, path |-> f.path, kind |-> f.kind,
         mode |-> f.mode, pos |-> f.pos, buf |-> f.buf]

\* As much of the types as the table needs.
Shape ==
    /\ pc \in [Chan -> Labels]
    /\ cmd = [c \in Chan |-> cmd[c]] /\ held = [c \in Chan |-> held[c]]
    /\ fresh = [c \in Chan |-> fresh[c]]
    /\ \A c \in Chan : \A h \in held[c] : h = [fd |-> h.fd, serial |-> h.serial]
    /\ cnt \in 0 .. FD_MOD - 1 /\ nopen \in Nat
    /\ opened = [fd \in DOMAIN opened |-> opened[fd]]
    /\ \A fd \in DOMAIN opened : fd \in 0 .. FD_MOD - 1 /\ HasFields(opened[fd])
    /\ \A c \in Chan : pc[c] = "insert" => HasFields(fresh[c])
    /\ \A c \in Chan : pc[c] \in {"open", "read", "write", "seek", "close"} => cmd[c].op = pc[c]

\* How far the counter has come since it gave a descriptor, if it has not come
\* round more than once.
Since(fd) == IF cnt > fd THEN cnt - fd ELSE cnt - fd + FD_MOD

\* The descriptor a client has given up, until its server has closed it.
Closing(c) ==
    IF pc[c] = "close" THEN {[fd |-> cmd[c].fd, serial |-> cmd[c].n]} ELSE {}

Claims(c) == held[c] \cup Closing(c)

\* A descriptor that is held, or being closed, is open; it is its file's until the
\* counter has come round; nobody else has it; and the counter has not passed it.
ClaimsHold ==
    \A c \in Chan : \A h \in Claims(c) :
        /\ h.fd \in DOMAIN opened /\ h.serial \in Nat \ {0}
        /\ h.serial + Since(h.fd) <= nopen + 1
        /\ nopen < h.serial + FD_MOD => opened[h.fd].serial = h.serial

ClaimsApart ==
    /\ \A c, d \in Chan : \A h \in Claims(c), k \in Claims(d) : h.fd = k.fd => c = d /\ h = k
    /\ \A c \in Chan : \A h \in held[c] : pc[c] = "close" => h.fd # cmd[c].fd

\* A server works on a file its client holds.
AtWork ==
    \A c \in Chan : pc[c] \in {"read", "write", "seek"} =>
        \E h \in held[c] : h.fd = cmd[c].fd

\* Whatever is open was opened in this round of the counter or it has come round.
Rounds == \A fd \in DOMAIN opened : Since(fd) <= nopen

FsInv == Shape /\ ClaimsHold /\ ClaimsApart /\ AtWork /\ Rounds

LEMMA FsInvInit == Init => FsInv
<1> SUFFICES ASSUME Init PROVE FsInv
  OBVIOUS
<1> USE FsAssumption
<1>1. Shape
  BY DEF Init, Shape, Labels
<1>2. \A c \in Chan : Claims(c) = {} /\ held[c] = {} /\ pc[c] = "idle"
  BY DEF Init, Claims, Closing
<1>3. DOMAIN opened = {}
  BY DEF Init
<1> QED
  BY <1>1, <1>2, <1>3 DEF FsInv, ClaimsHold, ClaimsApart, AtWork, Rounds

-----------------------------------------------------------------------------
(* Steps of clients.                                                        *)

\* A command other than fclose leaves the table and the claims alone.
LEMMA StartKeeps ==
    ASSUME FsInv, NEW c \in Chan, NEW r, Start(c, r), UNCHANGED held,
           r.op \in {"open", "read", "write", "seek"},
           r.op # "open" => \E h \in held[c] : h.fd = r.fd
    PROVE  FsInv'
<1>1. /\ pc[c] = "idle" /\ pc' = [pc EXCEPT ![c] = r.op] /\ cmd' = [cmd EXCEPT ![c] = r]
      /\ UNCHANGED <<opened, cnt, nopen, fresh, held>>
  BY DEF Start, table
<1>2. Shape'
  <2>1. pc' \in [Chan -> Labels] /\ cmd' = [d \in Chan |-> cmd'[d]]
    BY <1>1 DEF FsInv, Shape, Labels
  <2>2. \A d \in Chan : pc'[d] \in {"open", "read", "write", "seek", "close"} => cmd'[d].op = pc'[d]
    BY <1>1 DEF FsInv, Shape
  <2>3. \A d \in Chan : pc'[d] = "insert" => pc[d] = "insert"
    BY <1>1 DEF FsInv, Shape
  <2> QED
    BY <1>1, <2>1, <2>2, <2>3 DEF FsInv, Shape, HasFields
<1>3. \A d \in Chan : Claims(d)' = Claims(d)
  BY <1>1 DEF FsInv, Shape, Claims, Closing
<1>4. ClaimsHold' /\ Rounds'
  BY <1>1, <1>3 DEF FsInv, ClaimsHold, Rounds, Since
<1>5. ClaimsApart'
  <2>1. \A d \in Chan : pc'[d] = "close" => pc[d] = "close" /\ cmd'[d] = cmd[d]
    BY <1>1 DEF FsInv, Shape
  <2> QED
    BY <1>1, <1>3, <2>1 DEF FsInv, ClaimsApart
<1>6. AtWork'
  BY <1>1 DEF FsInv, Shape, AtWork
<1> QED
  BY <1>2, <1>4, <1>5, <1>6 DEF FsInv

LEMMA ClientKeeps ==
    ASSUME FsInv, NEW c \in Chan, Client(c)
    PROVE  FsInv'
<1>1. CASE fopen(c) \/ fread(c) \/ fwrite(c) \/ fseek(c)
  <2>1. ASSUME NEW o \in Opens, UNCHANGED held,
               Start(c, [op |-> "open", path |-> o.path, flags |-> o.flags])
        PROVE  FsInv'
    BY <2>1, StartKeeps
  <2>2. ASSUME NEW h \in held[c], NEW n, NEW name \in {"read", "write", "seek"}, UNCHANGED held,
               Start(c, [op |-> name, fd |-> h.fd, n |-> n])
        PROVE  FsInv'
    BY <2>2, StartKeeps
  <2> QED
    BY <1>1, <2>1, <2>2 DEF fopen, fread, fwrite, fseek
<1>2. CASE fclose(c)
  <2>1. PICK h \in held[c] :
          /\ pc[c] = "idle" /\ pc' = [pc EXCEPT ![c] = "close"]
          /\ cmd' = [cmd EXCEPT ![c] = [op |-> "close", fd |-> h.fd, n |-> h.serial]]
          /\ held' = [held EXCEPT ![c] = @ \ {h}]
          /\ UNCHANGED <<opened, cnt, nopen, fresh>>
    BY <1>2 DEF fclose, Start, table
  <2>2. Shape'
    BY <2>1, ZenonT(30) DEF FsInv, Shape, Labels, HasFields
  <2>3. \A d \in Chan \ {c} : Claims(d)' = Claims(d)
    BY <2>1 DEF FsInv, Shape, Claims, Closing
  <2>4. Claims(c)' = Claims(c) /\ cmd'[c].fd = h.fd /\ held'[c] = held[c] \ {h}
    <3>1. h = [fd |-> h.fd, serial |-> h.serial]
      BY DEF FsInv, Shape
    <3>2. Closing(c) = {} /\ Closing(c)' = {h}
      BY <2>1, <3>1 DEF FsInv, Shape, Closing
    <3> QED
      BY <2>1, <3>2 DEF FsInv, Shape, Claims
  <2>5. ClaimsHold' /\ Rounds'
    BY <2>1, <2>3, <2>4 DEF FsInv, ClaimsHold, Rounds, Since
  <2>6. AtWork'
    BY <2>1 DEF FsInv, Shape, AtWork
  <2>7. ClaimsApart'
    <3>1. \A k \in held'[c] : k.fd # h.fd
      BY <2>4 DEF FsInv, ClaimsApart, Claims
    <3>2. \A d \in Chan \ {c} : held'[d] = held[d] /\ pc'[d] = pc[d] /\ cmd'[d] = cmd[d]
      BY <2>1 DEF FsInv, Shape
    <3>3. \A d \in Chan : Claims(d)' = Claims(d)
      BY <2>3, <2>4
    <3> QED
      BY <2>4, <3>1, <3>2, <3>3 DEF FsInv, ClaimsApart
  <2> QED
    BY <2>2, <2>5, <2>6, <2>7 DEF FsInv
<1>3. CASE Restart(c)
  <2>1. /\ held' = [held EXCEPT ![c] = {}] /\ pc[c] = "idle"
        /\ UNCHANGED <<opened, cnt, nopen, pc, cmd, fresh>>
    BY <1>3 DEF Restart, table
  <2>2. Shape'
    BY <2>1 DEF FsInv, Shape, HasFields
  <2>3. \A d \in Chan : Claims(d)' \subseteq Claims(d)
    BY <2>1 DEF FsInv, Shape, Claims, Closing
  <2>4. ClaimsHold' /\ Rounds'
    BY <2>1, <2>3 DEF FsInv, ClaimsHold, Rounds, Since
  <2>5. ClaimsApart' /\ AtWork'
    BY <2>1, <2>3 DEF FsInv, Shape, ClaimsApart, AtWork
  <2> QED
    BY <2>2, <2>4, <2>5 DEF FsInv
<1> QED
  BY <1>1, <1>2, <1>3 DEF Client

-----------------------------------------------------------------------------
(* Steps of servers.                                                        *)

\* The open files stay the files they are, moved or written as they may be.
FilesStay ==
    /\ DOMAIN opened' = DOMAIN opened /\ opened' = [fd \in DOMAIN opened |-> opened'[fd]]
    /\ \A fd \in DOMAIN opened : HasFields(opened'[fd]) /\ opened'[fd].serial = opened[fd].serial

\* A step that leaves the table alone and ends, or goes on with, a command that
\* closes nothing.
LEMMA WorkKeeps ==
    ASSUME FsInv, NEW c \in Chan, NEW label \in {"idle", "insert", "panic"}, Goto(c, label),
           pc[c] # "close", held' = held, cnt' = cnt, nopen' = nopen,
           fresh' = fresh \/ \E f : HasFields(f) /\ fresh' = [fresh EXCEPT ![c] = f],
           label = "insert" => HasFields(fresh'[c]),
           FilesStay
    PROVE  FsInv'
<1>1. /\ pc' = [pc EXCEPT ![c] = label]
      /\ \A d \in Chan \ {c} : cmd'[d] = cmd[d]
      /\ cmd' = [d \in Chan |-> cmd'[d]]
  BY DEF Goto, FsInv, Shape
<1>2. /\ DOMAIN opened' = DOMAIN opened /\ opened' = [fd \in DOMAIN opened |-> opened'[fd]]
      /\ \A fd \in DOMAIN opened : HasFields(opened'[fd]) /\ opened'[fd].serial = opened[fd].serial
  BY DEF FilesStay
<1>3. \A d \in Chan \ {c} : fresh'[d] = fresh[d]
  BY DEF FsInv, Shape
<1>4. fresh' = [d \in Chan |-> fresh'[d]]
  BY DEF FsInv, Shape
<1>5. \A fd \in DOMAIN opened' : HasFields(opened[fd])'
  BY <1>2 DEF HasFields
<1>6. \A d \in Chan : pc'[d] = "insert" => HasFields(fresh'[d])
  BY <1>1, <1>3 DEF FsInv, Shape
<1>7. Shape'
  BY <1>1, <1>2, <1>4, <1>5, <1>6 DEF FsInv, Shape, Labels, HasFields
<1>8. \A d \in Chan : Claims(d)' = Claims(d)
  BY <1>1 DEF FsInv, Shape, Claims, Closing
<1>9. ClaimsHold' /\ Rounds'
  BY <1>2, <1>8 DEF FsInv, ClaimsHold, Rounds, Since
<1>10. ClaimsApart' /\ AtWork'
  BY <1>1, <1>8 DEF FsInv, Shape, ClaimsApart, AtWork
<1> QED
  BY <1>7, <1>9, <1>10 DEF FsInv

\* Closing frees a descriptor that is nobody else's.
LEMMA CloseKeeps ==
    ASSUME FsInv, NEW c \in Chan, poll_close(c)
    PROVE  FsInv'
<1> DEFINE fd0 == cmd[c].fd
<1>1. /\ pc[c] = "close" /\ [fd |-> fd0, serial |-> cmd[c].n] \in Claims(c)
  BY DEF poll_close, At, Claims, Closing
<1>2. fd0 \in DOMAIN opened
  BY <1>1 DEF FsInv, ClaimsHold
<1>3. /\ opened' = [fd \in DOMAIN opened \ {fd0} |-> opened[fd]]
      /\ pc' = [pc EXCEPT ![c] = "idle"] /\ cmd' = [cmd EXCEPT ![c] = NoCmd]
      /\ UNCHANGED <<cnt, nopen, fresh, held>>
  BY <1>2 DEF poll_close, Valid, Goto
<1>4. DOMAIN opened' = DOMAIN opened \ {fd0} /\ \A fd \in DOMAIN opened' : opened'[fd] = opened[fd]
  BY <1>3
<1>5. Shape'
  BY <1>3, <1>4, SMTT(30) DEF FsInv, Shape, Labels, HasFields
<1>6. \A d \in Chan : Claims(d)' \subseteq Claims(d) /\ Claims(c)' = held[c]
  BY <1>3 DEF FsInv, Shape, Claims, Closing
<1>7. \A d \in Chan : \A h \in Claims(d)' : h.fd # fd0
  <2>1. \A h \in held[c] : h.fd # fd0
    BY <1>1 DEF FsInv, ClaimsApart
  <2>2. \A d \in Chan \ {c} : \A h \in Claims(d) : h.fd # fd0
    BY <1>1 DEF FsInv, ClaimsApart
  <2> QED
    BY <1>6, <2>1, <2>2
<1>8. ClaimsHold' /\ Rounds'
  BY <1>3, <1>4, <1>6, <1>7 DEF FsInv, ClaimsHold, Rounds, Since
<1>9. ClaimsApart'
  <2>1. \A d \in Chan : held'[d] = held[d] /\ (pc'[d] = "close" => pc[d] = "close" /\ cmd'[d] = cmd[d])
    BY <1>3 DEF FsInv, Shape
  <2> QED
    BY <1>6, <2>1 DEF FsInv, ClaimsApart
<1>10. AtWork'
  BY <1>3 DEF FsInv, Shape, AtWork
<1> QED
  BY <1>5, <1>8, <1>9, <1>10 DEF FsInv

\* The counter and the number of files move together.
LEMMA InsertKeeps ==
    ASSUME FsInv, NEW c \in Chan, insert(c)
    PROVE  FsInv'
<1> USE FsAssumption
<1>0. Shape /\ ClaimsHold /\ ClaimsApart /\ AtWork /\ Rounds
  BY DEF FsInv
<1>1. PICK n \in 0 .. FD_MOD - 1, s \in Nat \ {0} : n = cnt /\ s = nopen + 1
  BY <1>0 DEF Shape
<1> DEFINE file == [fresh[c] EXCEPT !.serial = s]
           new  == [fd |-> n, serial |-> s]
<1>2. /\ pc[c] = "insert" /\ nopen' = s /\ s = nopen + 1 /\ nopen \in Nat
      /\ opened' = [fd \in DOMAIN opened \cup {n} |-> IF fd = n THEN file ELSE opened[fd]]
      /\ fresh' = [fresh EXCEPT ![c] = NoFile]
  BY <1>0, <1>1 DEF insert, Shape
<1>3. n \in DOMAIN opened => cnt' = n /\ held' = held /\ Goto(c, "panic")
  BY <1>1 DEF insert, FsInv, Shape
<1>4. n \notin DOMAIN opened => /\ cnt' = wrapping_add(n) /\ Goto(c, "idle")
                              /\ held' = [held EXCEPT ![c] = @ \cup {new}]
  BY <1>1 DEF insert
<1>5. cnt' \in 0 .. FD_MOD - 1
  BY <1>3, <1>4 DEF wrapping_add
<1>6. PICK label \in {"idle", "panic"} : Goto(c, label)
  BY <1>3, <1>4
<1>7. /\ pc' = [pc EXCEPT ![c] = label] /\ cmd' = [d \in Chan |-> cmd'[d]]
      /\ \A d \in Chan \ {c} : cmd'[d] = cmd[d] /\ pc'[d] = pc[d]
      /\ pc'[c] = label
  BY <1>0, <1>6 DEF Goto, Shape
<1>8. HasFields(file) /\ file.serial = s
  BY <1>0, <1>2 DEF Shape, HasFields
<1>9. /\ DOMAIN opened' = DOMAIN opened \cup {n} /\ opened'[n] = file
      /\ \A fd \in DOMAIN opened \ {n} : opened'[fd] = opened[fd]
  BY <1>2
<1>10. \A fd \in 0 .. FD_MOD - 1 : Since(fd) \in 1 .. FD_MOD
  BY <1>0 DEF Since, Shape
<1>11. /\ held' = [d \in Chan |-> held'[d]]
       /\ \A d \in Chan \ {c} : held'[d] = held[d]
       /\ held'[c] \in {held[c], held[c] \cup {new}}
  BY <1>0, <1>3, <1>4 DEF Shape
<1>12. \A d \in Chan : Closing(d)' = Closing(d)
  <2>1. Closing(c) = {} /\ Closing(c)' = {}
    BY <1>2, <1>7 DEF Closing
  <2>2. \A d \in Chan \ {c} : Closing(d)' = Closing(d)
    BY <1>7 DEF Closing
  <2> QED
    BY <2>1, <2>2
<1>13. AtWork'
  <2> SUFFICES ASSUME NEW d \in Chan, pc'[d] \in {"read", "write", "seek"}
               PROVE  \E h \in held'[d] : h.fd = cmd'[d].fd
    BY DEF AtWork
  <2>1. d # c
    BY <1>7
  <2> QED
    BY <1>0, <1>7, <1>11, <2>1 DEF AtWork
<1>14. Shape'
  <2>1. \A fd \in DOMAIN opened' : fd \in 0 .. FD_MOD - 1 /\ HasFields(opened'[fd])
    BY <1>0, <1>8, <1>9 DEF Shape
  <2>2. opened' = [fd \in DOMAIN opened' |-> opened'[fd]] /\ fresh' = [d \in Chan |-> fresh'[d]]
    BY <1>0, <1>2 DEF Shape
  <2>3. pc' \in [Chan -> Labels]
    BY <1>0, <1>7 DEF Shape, Labels
  <2>4. \A d \in Chan : pc'[d] \in {"open", "read", "write", "seek", "close"} => cmd'[d].op = pc'[d]
    BY <1>0, <1>7 DEF Shape
  <2>5. \A d \in Chan : pc'[d] = "insert" => HasFields(fresh'[d])
    BY <1>0, <1>2, <1>7 DEF Shape
  <2>6. \A d \in Chan : \A h \in held'[d] : h = [fd |-> h.fd, serial |-> h.serial]
    <3>1. new = [fd |-> new.fd, serial |-> new.serial]
      OBVIOUS
    <3> QED
      BY <1>0, <1>11, <3>1 DEF Shape
  <2> QED
    BY <1>2, <1>5, <1>7, <1>11, <2>1, <2>2, <2>3, <2>4, <2>5, <2>6 DEF Shape, HasFields
<1>15. CASE n \in DOMAIN opened
  <2>1. cnt' = cnt /\ held' = held
    BY <1>1, <1>3, <1>15
  <2>2. \A d \in Chan : Claims(d)' = Claims(d)
    BY <1>12, <2>1 DEF Claims
  <2>3. \A fd : Since(fd)' = Since(fd)
    BY <2>1 DEF Since
  <2>4. Rounds'
    <3> SUFFICES ASSUME NEW fd \in DOMAIN opened PROVE Since(fd) <= nopen + 1
      BY <1>2, <1>9, <1>15, <2>3 DEF Rounds
    <3> QED
      BY <1>0, <1>2, <1>10 DEF Rounds, Shape
  <2>5. ClaimsHold'
    <3> SUFFICES ASSUME NEW d \in Chan, NEW h \in Claims(d)
                 PROVE  /\ h.fd \in DOMAIN opened' /\ h.serial \in Nat \ {0}
                        /\ h.serial + Since(h.fd)' <= nopen' + 1
                        /\ nopen' < h.serial + FD_MOD => opened'[h.fd].serial = h.serial
      BY <2>2 DEF ClaimsHold
    <3>1. /\ h.fd \in DOMAIN opened /\ h.serial \in Nat \ {0}
          /\ h.serial + Since(h.fd) <= nopen + 1
          /\ nopen < h.serial + FD_MOD => opened[h.fd].serial = h.serial
      BY <1>0 DEF ClaimsHold
    <3>2. Since(h.fd) \in 1 .. FD_MOD /\ (h.fd = n => Since(h.fd) = FD_MOD)
      BY <1>0, <1>1, <1>10, <3>1 DEF Shape, Since
    <3>3. h.serial + Since(h.fd)' <= nopen' + 1
      BY <1>2, <2>3, <3>1, <3>2
    <3>4. nopen' < h.serial + FD_MOD => nopen < h.serial + FD_MOD /\ h.fd # n
      BY <1>2, <3>1, <3>2
    <3> QED
      BY <1>9, <3>1, <3>3, <3>4
  <2>6. ClaimsApart'
    <3>1. \A d \in Chan : pc'[d] = "close" => pc[d] = "close" /\ cmd'[d] = cmd[d]
      BY <1>7
    <3> QED
      BY <1>0, <2>1, <2>2, <3>1 DEF ClaimsApart
  <2> QED
    BY <1>13, <1>14, <2>4, <2>5, <2>6 DEF FsInv
<1>16. CASE n \notin DOMAIN opened
  <2>1. cnt' = wrapping_add(n) /\ held' = [held EXCEPT ![c] = @ \cup {new}]
    BY <1>4, <1>16
  <2>2. /\ \A d \in Chan \ {c} : held'[d] = held[d] /\ Claims(d)' = Claims(d)
        /\ Claims(c)' = Claims(c) \cup {new} /\ held'[c] = held[c] \cup {new}
    <3>1. held'[c] = held[c] \cup {new}
      BY <1>0, <2>1 DEF Shape
    <3> QED
      BY <1>11, <1>12, <3>1 DEF Claims
  <2>3. \A d \in Chan : \A h \in Claims(d) : h.fd \in DOMAIN opened /\ h.fd # n
    BY <1>0, <1>16 DEF ClaimsHold
  <2>4. \A fd \in DOMAIN opened : Since(fd)' = Since(fd) + 1 /\ Since(fd) \in 1 .. FD_MOD
    <3> SUFFICES ASSUME NEW fd \in DOMAIN opened
                 PROVE  Since(fd)' = Since(fd) + 1 /\ Since(fd) \in 1 .. FD_MOD
      OBVIOUS
    <3>1. fd \in 0 .. FD_MOD - 1 /\ fd # n
      BY <1>0, <1>16 DEF Shape
    <3> QED
      BY <1>1, <1>10, <2>1, <3>1 DEF Since, wrapping_add
  <2>5. Since(n)' = 1
    BY <2>1 DEF Since, wrapping_add
  <2>6. Rounds'
    <3> SUFFICES ASSUME NEW fd \in DOMAIN opened' PROVE Since(fd)' <= s
      BY <1>2 DEF Rounds
    <3> QED
      BY <1>0, <1>2, <1>9, <2>4, <2>5 DEF Rounds
  <2>7. ClaimsHold'
    <3>1. ASSUME NEW d \in Chan, NEW h \in Claims(d)
          PROVE  /\ h.fd \in DOMAIN opened' /\ h.serial \in Nat \ {0}
                 /\ h.serial + Since(h.fd)' <= nopen' + 1
                 /\ nopen' < h.serial + FD_MOD => opened'[h.fd].serial = h.serial
      <4>1. /\ h.fd \in DOMAIN opened \ {n} /\ h.serial \in Nat \ {0}
            /\ h.serial + Since(h.fd) <= nopen + 1
            /\ nopen < h.serial + FD_MOD => opened[h.fd].serial = h.serial
        BY <1>0, <2>3 DEF ClaimsHold
      <4>2. Since(h.fd)' = Since(h.fd) + 1 /\ Since(h.fd) \in 1 .. FD_MOD
        BY <2>4, <4>1
      <4>3. h.serial + Since(h.fd)' <= nopen' + 1
        BY <1>2, <4>1, <4>2
      <4>4. nopen' < h.serial + FD_MOD => nopen < h.serial + FD_MOD
        BY <1>2, <4>1
      <4> QED
        BY <1>9, <4>1, <4>3, <4>4
    <3>2. /\ n \in DOMAIN opened' /\ s \in Nat \ {0}
          /\ s + Since(n)' <= nopen' + 1
          /\ opened'[n].serial = s
      <4>1. s + Since(n)' <= nopen' + 1
        BY <1>2, <2>5
      <4> HIDE DEF file
      <4> QED
        BY <1>8, <1>9, <4>1
    <3>3. new.fd = n /\ new.serial = s
      OBVIOUS
    <3> QED
      BY <2>2, <3>1, <3>2, <3>3 DEF ClaimsHold
  <2>8. ClaimsApart'
    <3>1. new.fd = n
      OBVIOUS
    <3>2. ASSUME NEW d \in Chan, NEW e \in Chan, NEW h \in Claims(d)', NEW k \in Claims(e)', h.fd = k.fd
          PROVE  d = e /\ h = k
      <4>1. CASE h \in Claims(d) /\ k \in Claims(e)
        BY <1>0, <3>2, <4>1 DEF ClaimsApart
      <4>2. CASE ~(h \in Claims(d) /\ k \in Claims(e))
        BY <2>2, <2>3, <3>1, <3>2, <4>2
      <4> QED
        BY <4>1, <4>2
    <3>3. ASSUME NEW d \in Chan, NEW h \in held'[d], pc'[d] = "close" PROVE h.fd # cmd'[d].fd
      <4>1. d # c
        BY <1>7, <3>3
      <4>2. h \in held[d] /\ pc[d] = "close" /\ cmd'[d] = cmd[d]
        BY <1>7, <2>2, <3>3, <4>1
      <4> QED
        BY <1>0, <4>2 DEF ClaimsApart
    <3> QED
      BY <3>2, <3>3 DEF ClaimsApart
  <2> QED
    BY <1>13, <1>14, <2>6, <2>7, <2>8 DEF FsInv
<1> QED
  BY <1>15, <1>16

LEMMA FilesUntouched == FsInv /\ opened' = opened => FilesStay
  BY DEF FsInv, Shape, FilesStay, HasFields

\* A file that a command moves, or writes, stays the file it is.
LEMMA FileKept ==
    ASSUME FsInv, NEW k \in DOMAIN opened, NEW p, opened' = [opened EXCEPT ![k].pos = p]
    PROVE  FilesStay
<1>1. opened = [x \in DOMAIN opened |-> opened[x]] /\ \A x \in DOMAIN opened : HasFields(opened[x])
  BY DEF FsInv, Shape
<1>2. HasFields(opened'[k]) /\ opened'[k].serial = opened[k].serial
  BY <1>1 DEF HasFields
<1> QED
  BY <1>1, <1>2 DEF FilesStay

LEMMA FileWritten ==
    ASSUME FsInv, NEW c \in Chan, poll_write(c)
    PROVE  FilesStay
<1> DEFINE k   == cmd[c].fd
           f   == opened[k]
           n   == IF f.kind = "special" THEN Whole(cmd[c].n) ELSE cmd[c].n
           new == Written(f, WriteAt(f), [i \in 1 .. n |-> <<c, nops>>])
           to  == WriteAt(f) + n
           buf == IF f.kind = "virtual" THEN new ELSE f.buf
<1>1. opened = [x \in DOMAIN opened |-> opened[x]] /\ \A x \in DOMAIN opened : HasFields(opened[x])
  BY DEF FsInv, Shape
<1>2. CASE opened' = opened
  BY <1>2, FilesUntouched
<1>3. CASE opened' # opened
  <2>1. k \in DOMAIN opened /\ opened' = [opened EXCEPT ![k].pos = to,
                               ![k].buf = IF f.kind = "virtual" THEN new ELSE @]
    BY <1>3 DEF poll_write, Panics, Valid, File
  <2> HIDE DEF n, new, to
  <2>2. /\ DOMAIN opened' = DOMAIN opened /\ opened' = [x \in DOMAIN opened |-> opened'[x]]
        /\ \A x \in DOMAIN opened \ {k} : opened'[x] = opened[x]
    BY <1>1, <2>1
  <2>3. HasFields(f)
    BY <1>1, <2>1
  <2>4. opened'[k] = [serial |-> f.serial, path |-> f.path, kind |-> f.kind,
                      mode |-> f.mode, pos |-> to, buf |-> buf]
    BY <1>1, <2>1, <2>3 DEF HasFields
  <2>5. HasFields(opened'[k]) /\ opened'[k].serial = opened[k].serial
    BY <2>4 DEF HasFields
  <2> QED
    BY <1>1, <2>1, <2>2, <2>5 DEF FilesStay
<1> QED
  BY <1>2, <1>3

LEMMA ServerKeeps ==
    ASSUME FsInv, NEW c \in Chan, Server(c)
    PROVE  FsInv'
<1>1. CASE open_file(c)
  <2>1. pc[c] = "open" /\ UNCHANGED <<held, cnt, nopen>> /\ FilesStay
    BY <1>1, FilesUntouched DEF open_file, table, clients
  <2>2. CASE Goto(c, "panic") /\ fresh' = fresh
    BY <2>1, <2>2, WorkKeeps
  <2>3. ASSUME NEW p, NEW k, NEW m, Goto(c, "insert"),
               fresh' = [fresh EXCEPT ![c] = [serial |-> 0, path |-> p, kind |-> k, mode |-> m,
                                              pos |-> 0, buf |-> <<>>]]
        PROVE  FsInv'
    <3> DEFINE f == [serial |-> 0, path |-> p, kind |-> k, mode |-> m, pos |-> 0, buf |-> <<>>]
    <3>1. HasFields(f)
      BY DEF HasFields
    <3> HIDE DEF f
    <3>2. fresh' = [fresh EXCEPT ![c] = f]
      BY <2>3 DEF f
    <3>3. fresh'[c] = f
      BY <3>2 DEF FsInv, Shape
    <3> QED
      BY <2>1, <2>3, <3>1, <3>2, <3>3, WorkKeeps
  <2> QED
    BY <1>1, <2>2, <2>3 DEF open_file
<1>2. CASE insert(c)
  BY <1>2, InsertKeeps
<1>3. CASE poll_close(c)
  BY <1>3, CloseKeeps
<1>4. CASE poll_read(c) \/ poll_write(c) \/ poll_seek(c)
  <2>1. pc[c] # "close" /\ UNCHANGED <<held, cnt, nopen, fresh>>
    BY <1>4 DEF poll_read, poll_write, poll_seek, At
  <2>2. PICK label \in {"idle", "panic"} : Goto(c, label)
    BY <1>4 DEF poll_read, poll_write, poll_seek, Panics
  <2>3. FilesStay
    <3>1. CASE poll_read(c)
      BY <3>1, FileKept, FilesUntouched DEF poll_read, Panics, Valid
    <3>2. CASE poll_seek(c)
      BY <3>2, FileKept, FilesUntouched DEF poll_seek, Panics, Valid
    <3>3. CASE poll_write(c)
      BY <3>3, FileWritten
    <3> QED
      BY <1>4, <3>1, <3>2, <3>3
  <2> QED
    BY <2>1, <2>2, <2>3, WorkKeeps
<1> QED
  BY <1>1, <1>2, <1>3, <1>4 DEF Server

LEMMA FsInvNext == FsInv /\ [Next]_vars => FsInv'
<1> SUFFICES ASSUME FsInv, [Next]_vars PROVE FsInv'
  OBVIOUS
<1>1. CASE Next
  BY <1>1, ClientKeeps, ServerKeeps DEF Next
<1>2. CASE UNCHANGED vars
  <2>1. UNCHANGED <<opened, cnt, nopen, pc, cmd, fresh, held>>
    BY <1>2 DEF vars, table, clients
  <2>2. \A d \in Chan : Claims(d)' = Claims(d)
    BY <2>1 DEF Claims, Closing
  <2>3. Shape' /\ AtWork'
    BY <2>1 DEF FsInv, Shape, AtWork, HasFields
  <2>4. ClaimsHold' /\ Rounds' /\ ClaimsApart'
    BY <2>1, <2>2 DEF FsInv, ClaimsHold, Rounds, ClaimsApart, Since
  <2> QED
    BY <2>3, <2>4 DEF FsInv
<1> QED
  BY <1>1, <1>2

LEMMA FsInvAlways == FsSpec => []FsInv
  BY FsInvInit, FsInvNext, PTL DEF FsSpec

-----------------------------------------------------------------------------
(* What clients may rely on.                                                *)

\* A descriptor a client holds is open and names its file, until the counter has
\* come round to it.
THEOREM HandlesHold == FsSpec => []HeldHandle
<1>1. FsInv => HeldHandle
  BY DEF FsInv, ClaimsHold, HeldHandle, Claims
<1> QED
  BY <1>1, FsInvAlways, PTL

\* No descriptor is held by two clients, however often the counter wraps.
THEOREM HandlesApart == FsSpec => []OneHolder
<1>1. FsInv => OneHolder
  BY DEF FsInv, ClaimsApart, OneHolder, Claims
<1> QED
  BY <1>1, FsInvAlways, PTL

\* A server goes down over its own client's command only, until the counter may
\* have come round.
THEOREM PanicsExplained == FsSpec => FsPanicsExplained
<1> USE FsAssumption
<1>1. FsInv /\ [Next]_vars =>
        [\A c \in Chan : pc[c] # "panic" /\ pc'[c] = "panic" => nopen >= FD_MOD \/ Unfit(c)]_vars
  <2> SUFFICES ASSUME FsInv, Next, NEW c \in Chan, pc[c] # "panic", pc'[c] = "panic"
               PROVE  nopen >= FD_MOD \/ Unfit(c)
    OBVIOUS
  <2>1. PICK d \in Chan : Client(d) \/ Server(d)
    BY DEF Next
  <2>2. d = c
    BY <2>1 DEF Client, fopen, fread, fwrite, fseek, fclose, Start, Restart, Server, open_file,
       insert, poll_close, poll_read, poll_write, poll_seek, Goto, Panics, FsInv, Shape
  <2>3. ~Client(c)
    BY DEF Client, fopen, fread, fwrite, fseek, fclose, Start, Restart, FsInv, Shape
  <2>4. CASE open_file(c)
    BY <2>4 DEF open_file, Goto, FsInv, Shape, Unfit
  <2>5. CASE insert(c)
    <3>1. cnt \in DOMAIN opened
      BY <2>5 DEF insert, Goto, FsInv, Shape
    <3>2. Since(cnt) = FD_MOD
      BY DEF Since, FsInv, Shape
    <3> QED
      BY <3>1, <3>2 DEF FsInv, Shape, Rounds
  <2>6. CASE poll_close(c)
    <3>1. [fd |-> cmd[c].fd, serial |-> cmd[c].n] \in Claims(c)
      BY <2>6 DEF poll_close, At, Claims, Closing
    <3>2. Valid(c)
      BY <3>1 DEF FsInv, ClaimsHold, Valid
    <3> QED
      BY <2>6, <3>2 DEF poll_close, Goto, FsInv, Shape
  <2>7. CASE poll_read(c) \/ poll_write(c) \/ poll_seek(c)
    <3>1. pc[c] \in {"read", "write", "seek"} /\ cmd[c].op = pc[c]
      BY <2>7 DEF poll_read, poll_write, poll_seek, At, FsInv, Shape
    <3>2. Valid(c)
      BY <3>1 DEF FsInv, AtWork, ClaimsHold, Claims, Valid
    <3>3. CASE poll_read(c)
      <4>1. "READ" \notin File(c).mode
        BY <2>7, <3>2, <3>3 DEF poll_read, Goto, FsInv, Shape
      <4> QED
        BY <3>2, <3>3, <3>1, <4>1 DEF poll_read, At, Valid, File, Unfit
    <3>4. CASE poll_write(c)
      <4>1. ~Writes(File(c).mode)
        BY <2>7, <3>2, <3>4 DEF poll_write, Goto, FsInv, Shape
      <4> QED
        BY <3>2, <3>4, <3>1, <4>1 DEF poll_write, At, Valid, File, Unfit
    <3>5. CASE poll_seek(c)
      <4>1. File(c).kind = "special"
        BY <2>7, <3>2, <3>5 DEF poll_seek, Goto, FsInv, Shape
      <4> QED
        BY <3>2, <3>5, <3>1, <4>1 DEF poll_seek, At, Valid, File, Unfit
    <3> QED
      BY <2>7, <3>3, <3>4, <3>5
  <2> QED
    BY <2>1, <2>2, <2>3, <2>4, <2>5, <2>6, <2>7 DEF Server
<1> QED
  BY <1>1, FsInvAlways, PTL DEF FsSpec, FsPanicsExplained

-----------------------------------------------------------------------------
(* Types.                                                                   *)

\* What is stored, what the servers have in hand, and what clients were told.
Stored ==
    /\ made \subseteq Path /\ disk \in [Path -> Seq(Bytes)]
    /\ \A fd \in DOMAIN opened : opened[fd] \in FileT

InHand ==
    \A c \in Chan : /\ cmd[c] \in CmdT \cup {NoCmd} /\ fresh[c] \in FileT \cup {NoFile}
                    /\ pc[c] = "insert" => fresh[c] \in FileT

Reported == got \in [Chan -> Seq(Bytes)] /\ told \in [Path -> Seq(Bytes)]

\* Every file that is open, or about to be, was asked for by a command of its own.
Opening == {c \in Chan : pc[c] \in {"open", "insert"}}

Counted ==
    /\ nops \in 0 .. MaxOps /\ IsFiniteSet(Opening)
    /\ nopen + Cardinality(Opening) <= nops

FsTypes == Stored /\ InHand /\ Reported /\ Counted

LEMMA FsTypesInit == Init => FsTypes
<1> SUFFICES ASSUME Init PROVE FsTypes
  OBVIOUS
<1> USE FsAssumption
<1>1. Opening = {} /\ IsFiniteSet({}) /\ Cardinality({}) = 0
  BY FS_EmptySet DEF Init, Opening
<1>2. Stored /\ InHand /\ Reported
  BY DEF Init, Stored, InHand, Reported
<1> QED
  BY <1>1, <1>2 DEF Init, FsTypes, Counted

LEMMA TypesSuffice == FsInv /\ FsTypes => FsTypeOK
<1> SUFFICES ASSUME FsInv, FsTypes PROVE FsTypeOK
  OBVIOUS
<1> USE FsAssumption
<1>1. Cardinality(Opening) \in Nat /\ nopen \in 0 .. MaxOps
  BY FS_CardinalityType DEF FsTypes, Counted, FsInv, Shape
<1>2. ASSUME NEW c \in Chan, NEW h \in held[c]
      PROVE  h \in [fd : 0 .. FD_MOD - 1, serial : 1 .. nopen]
  <2>1. /\ h.fd \in DOMAIN opened /\ h.serial \in Nat \ {0} /\ h.serial + Since(h.fd) <= nopen + 1
        /\ h = [fd |-> h.fd, serial |-> h.serial]
    BY DEF FsInv, Shape, ClaimsHold, Claims
  <2>2. h.fd \in 0 .. FD_MOD - 1 /\ cnt \in 0 .. FD_MOD - 1 /\ nopen \in Nat
    BY <2>1 DEF FsInv, Shape
  <2>3. Since(h.fd) \in Nat \ {0}
    BY <2>2 DEF Since
  <2>4. h.serial \in 1 .. nopen
    BY <2>1, <2>2, <2>3
  <2> QED
    BY <2>1, <2>2, <2>4
<1>3. DOMAIN opened \subseteq 0 .. FD_MOD - 1 /\ cnt \in 0 .. FD_MOD - 1 /\ pc \in [Chan -> Labels]
  BY DEF FsInv, Shape
<1> QED
  BY <1>1, <1>2, <1>3 DEF FsTypeOK, FsTypes, Stored, InHand, Reported, Counted, Labels

\* The smaller and the larger of two numbers.
LEMMA OfTwo ==
    ASSUME NEW a \in Nat, NEW b \in Nat
    PROVE  /\ Min({a, b}) \in Nat /\ Min({a, b}) <= a /\ Min({a, b}) <= b
           /\ Max({a, b}) \in Nat
<1>1. \E x \in {a, b} : \A y \in {a, b} : x <= y
  OBVIOUS
<1>2. \E x \in {a, b} : \A y \in {a, b} : x >= y
  OBVIOUS
<1>3. Min({a, b}) \in {a, b} /\ \A y \in {a, b} : Min({a, b}) <= y
  BY <1>1 DEF Min
<1>4. Max({a, b}) \in {a, b}
  BY <1>2 DEF Max
<1> QED
  BY <1>3, <1>4

LEMMA ContentIs ==
    ASSUME Stored, NEW f \in FileT
    PROVE  Content(f) \in Seq(Bytes) /\ Len(Content(f)) \in Nat
<1>1. f.buf \in Seq(Bytes) /\ f.path \in Path
  BY DEF FileT
<1>2. Content(f) \in Seq(Bytes)
  BY <1>1 DEF Stored, Content
<1> QED
  BY <1>2

LEMMA WholeIs == ASSUME NEW n \in Nat PROVE Whole(n) \in 0 .. n
<1>1. n % Vec \in 0 .. Vec - 1 /\ n % Vec <= n
  BY FsAssumption
<1> QED
  BY <1>1, FsAssumption DEF Whole

\* A read stays within the file, and so does what it returns.
LEMMA ReadIs ==
    ASSUME Stored, NEW f \in FileT, NEW n \in Nat
    PROVE  /\ SubSeq(Content(f), f.pos + 1, f.pos + ReadLen(f, n)) \in Seq(Bytes)
           /\ AfterRead(f, n) \in Nat
<1> DEFINE s    == Content(f)
           left == IF Len(s) > f.pos THEN Len(s) - f.pos ELSE 0
           len  == ReadLen(f, n)
<1>1. s \in Seq(Bytes) /\ Len(s) \in Nat /\ f.pos \in Nat
  BY ContentIs DEF FileT
<1>2. Whole(n) \in Nat /\ Min({n, left}) \in Nat /\ Min({n, left}) <= left
  <2>1. left \in Nat /\ Whole(n) \in 0 .. n
    BY <1>1, WholeIs
  <2> HIDE DEF left
  <2> QED
    BY <2>1, OfTwo
<1>3. len \in 0 .. left
  BY <1>1, <1>2 DEF ReadLen
<1>4. \A i \in f.pos + 1 .. f.pos + len : i \in 1 .. Len(s)
  BY <1>1, <1>3
<1> HIDE DEF s, len
<1>5. \A i \in f.pos + 1 .. f.pos + len : s[i] \in Bytes
  BY <1>1, <1>4, ElementOfSeq
<1>6. f.pos + 1 \in Int /\ f.pos + len \in Int /\ len \in Nat
  BY <1>1, <1>3
<1>7. SubSeq(s, f.pos + 1, f.pos + len) \in Seq(Bytes)
  BY <1>5, <1>6, SubSeqProperties
<1>8. Max({f.pos, Len(s)}) \in Nat
  BY <1>1, OfTwo
<1> QED
  BY <1>1, <1>6, <1>7, <1>8 DEF AfterRead, s, len

LEMMA WrittenIs ==
    ASSUME Stored, NEW f \in FileT, NEW at \in Nat, NEW bytes \in Seq(Bytes)
    PROVE  Written(f, at, bytes) \in Seq(Bytes)
<1> DEFINE old == Content(f)
           end == at + Len(bytes)
           to  == IF f.kind = "virtual" THEN end ELSE Max({end, Len(old)})
           e(k) == IF k > at /\ k <= end THEN bytes[k - at]
                   ELSE IF k <= Len(old) THEN old[k] ELSE <<"zero", 0>>
<1>1. old \in Seq(Bytes) /\ Len(old) \in Nat /\ Len(bytes) \in Nat
  BY ContentIs
<1>2. to \in Nat
  <2>1. end \in Nat
    BY <1>1
  <2> HIDE DEF end, old
  <2> QED
    BY <1>1, <2>1, OfTwo
<1>3. ASSUME NEW k \in 1 .. to PROVE e(k) \in Bytes
  <2>1. k > at /\ k <= end => k - at \in 1 .. Len(bytes)
    BY <1>1, <1>2
  <2>2. k <= Len(old) => k \in 1 .. Len(old)
    BY <1>1, <1>2
  <2>3. <<"zero", 0>> \in Bytes
    BY FsAssumption DEF Bytes
  <2> HIDE DEF old, end, to
  <2>4. k > at /\ k <= end => bytes[k - at] \in Bytes
    BY <2>1, ElementOfSeq
  <2>5. k <= Len(old) => old[k] \in Bytes
    BY <1>1, <2>2, ElementOfSeq
  <2> QED
    BY <2>3, <2>4, <2>5
<1>4. Written(f, at, bytes) = [k \in 1 .. to |-> e(k)]
  BY DEF Written
<1> HIDE DEF to, e
<1>5. [k \in 1 .. to |-> e(k)] \in [1 .. to -> Bytes]
  BY <1>3
<1> QED
  BY <1>2, <1>4, <1>5, SeqDef

\* What is opened may grow by one channel, or lose one.
LEMMA CardinalityKept ==
    ASSUME FsInv, FsTypes, NEW c \in Chan
    PROVE  /\ IsFiniteSet(Opening \cup {c}) /\ IsFiniteSet(Opening \ {c})
           /\ Cardinality(Opening) \in Nat /\ nopen \in Nat /\ nops \in Nat
           /\ Cardinality(Opening \cup {c}) \in Nat /\ Cardinality(Opening \ {c}) \in Nat
           /\ Cardinality(Opening \cup {c}) <= Cardinality(Opening) + 1
           /\ Cardinality(Opening \ {c}) <= Cardinality(Opening)
           /\ c \in Opening => Cardinality(Opening \ {c}) = Cardinality(Opening) - 1
<1>1. IsFiniteSet(Opening) /\ nopen \in Nat /\ nops \in Nat
  BY FsAssumption DEF FsTypes, Counted, FsInv, Shape
<1> QED
  BY <1>1, FS_AddElement, FS_RemoveElement, FS_CardinalityType

LEMMA CountedNext ==
    ASSUME FsInv, FsTypes, NEW c \in Chan,
           \/ Opening' \in {Opening, Opening \cup {c}} /\ nopen' = nopen
              /\ nops < MaxOps /\ nops' = nops + 1
           \/ Opening' \in {Opening, Opening \ {c}} /\ nopen' = nopen /\ nops' = nops
           \/ Opening' = Opening \ {c} /\ c \in Opening /\ nopen' = nopen + 1 /\ nops' = nops
    PROVE  Counted'
<1> DEFINE n == Cardinality(Opening)
           m == Cardinality(Opening')
<1>1. nopen \in Nat /\ nops \in 0 .. MaxOps /\ n \in Nat /\ nopen + n <= nops /\ IsFiniteSet(Opening)
  BY CardinalityKept DEF FsTypes, Counted
<1>2. IsFiniteSet(Opening') /\ m \in Nat
  BY <1>1, CardinalityKept
<1>3. \/ m <= n + 1 /\ nopen' = nopen /\ nops < MaxOps /\ nops' = nops + 1
      \/ m <= n /\ nopen' = nopen /\ nops' = nops
      \/ m = n - 1 /\ nopen' = nopen + 1 /\ nops' = nops
  <2>1. /\ Opening' = Opening => m = n
        /\ Opening' = Opening \cup {c} => m <= n + 1
        /\ Opening' = Opening \ {c} => m <= n
        /\ Opening' = Opening \ {c} /\ c \in Opening => m = n - 1
    BY CardinalityKept
  <2>2. n <= n + 1 /\ n <= n
    BY <1>1
  <2> HIDE DEF n, m
  <2> QED
    BY <2>1, <2>2
<1>4. nops' \in 0 .. MaxOps /\ nopen' + m <= nops'
  BY <1>1, <1>2, <1>3, FsAssumption
<1> QED
  BY <1>2, <1>4 DEF Counted

LEMMA ClientTypes ==
    ASSUME FsInv, FsTypes, FsInv', NEW c \in Chan, Client(c)
    PROVE  FsTypes'
<1> USE FsAssumption
<1>1. UNCHANGED <<disk, made, opened, nopen, fresh, got, told>> /\ nops < MaxOps /\ nops' = nops + 1
      /\ pc[c] = "idle"
  BY DEF Client, fopen, fread, fwrite, fseek, fclose, Start, Restart, table
<1>2. Stored' /\ Reported'
  BY <1>1 DEF FsTypes, Stored, Reported
<1>3. \/ pc' = pc /\ cmd' = cmd
      \/ \E r \in CmdT : r.op # "insert" /\ pc' = [pc EXCEPT ![c] = r.op] /\ cmd' = [cmd EXCEPT ![c] = r]
  <2>1. \A h \in held[c] : h.fd \in Nat /\ h.serial \in Nat
    BY TypesSuffice DEF FsTypeOK
  <2>2. CASE fopen(c)
    <3>1. PICK o \in Opens : Start(c, [op |-> "open", path |-> o.path, flags |-> o.flags])
      BY <2>2 DEF fopen
    <3>2. [op |-> "open", path |-> o.path, flags |-> o.flags] \in CmdT
      BY DEF CmdT
    <3> QED
      BY <3>1, <3>2 DEF Start
  <2>3. CASE fread(c) \/ fwrite(c) \/ fseek(c) \/ fclose(c)
    <3>1. PICK op \in {"read", "write", "seek", "close"}, fd \in Nat, n \in Nat :
             Start(c, [op |-> op, fd |-> fd, n |-> n])
      BY <2>1, <2>3 DEF fread, fwrite, fseek, fclose
    <3>2. [op |-> op, fd |-> fd, n |-> n] \in CmdT
      BY DEF CmdT
    <3> QED
      BY <3>1, <3>2 DEF Start
  <2>4. CASE Restart(c)
    BY <2>4 DEF Restart
  <2> QED
    BY <2>2, <2>3, <2>4 DEF Client
<1>4. InHand'
  BY <1>1, <1>3 DEF FsTypes, InHand, FsInv, Shape
<1>5. Counted'
  <2>1. Opening' = Opening \/ Opening' = Opening \cup {c}
    BY <1>1, <1>3 DEF Opening, FsInv, Shape
  <2> QED
    BY <1>1, <2>1, CountedNext
<1> QED
  BY <1>2, <1>4, <1>5 DEF FsTypes

LEMMA OpenTypes ==
    ASSUME FsInv, FsTypes, FsInv', NEW c \in Chan, open_file(c)
    PROVE  FsTypes'
<1> USE FsAssumption
<1> DEFINE p    == cmd[c].path
           mode == ModeOf(p, cmd[c].flags)
           file == [serial |-> 0, path |-> p, kind |-> Kind[p], mode |-> mode, pos |-> 0, buf |-> <<>>]
<1>1. pc[c] = "open" /\ UNCHANGED <<opened, nopen, held, got, told, nops>>
  BY DEF open_file, table, clients
<1>2. p \in Path /\ mode \in SUBSET Flags
  <2>1. cmd[c] \in CmdT /\ cmd[c].op = "open"
    BY <1>1 DEF FsTypes, InHand, NoCmd, FsInv, Shape
  <2>2. p \in Path /\ cmd[c].flags \in SUBSET Flags
    BY <2>1 DEF CmdT
  <2> QED
    BY <2>2 DEF ModeOf, Flags
<1>3. file \in FileT
  BY <1>2 DEF FileT
<1> HIDE DEF file
<1>4. PICK label \in {"panic", "insert"} :
          /\ Goto(c, label)
          /\ fresh' = IF label = "insert" THEN [fresh EXCEPT ![c] = file] ELSE fresh
  BY DEF open_file, file
<1>5. Stored'
  <2>1. made' \subseteq Path
    BY <1>2 DEF open_file, FsTypes, Stored
  <2>2. disk' \in [Path -> Seq(Bytes)]
    <3>1. disk \in [Path -> Seq(Bytes)] /\ <<>> \in Seq(Bytes)
      BY DEF FsTypes, Stored
    <3>2. PICK s \in {<<>>, disk[p]} : disk' = disk \/ disk' = [disk EXCEPT ![p] = s]
      BY DEF open_file
    <3> QED
      BY <1>2, <3>1, <3>2, ZenonT(30)
  <2> QED
    BY <1>1, <2>1, <2>2 DEF FsTypes, Stored
<1>6. InHand'
  BY <1>3, <1>4 DEF Goto, FsTypes, InHand, FsInv, Shape
<1>7. Opening' = IF label = "insert" THEN Opening ELSE Opening \ {c}
  BY <1>1, <1>4 DEF Goto, Opening, FsInv, Shape
<1>8. Counted'
  BY <1>1, <1>7, CountedNext
<1>9. Reported'
  BY <1>1 DEF FsTypes, Reported
<1> QED
  BY <1>5, <1>6, <1>8, <1>9 DEF FsTypes

LEMMA InsertTypes ==
    ASSUME FsInv, FsTypes, FsInv', NEW c \in Chan, insert(c)
    PROVE  FsTypes'
<1> USE FsAssumption
<1> DEFINE file == [fresh[c] EXCEPT !.serial = nopen + 1]
<1>1. pc[c] = "insert" /\ nopen' = nopen + 1 /\ UNCHANGED <<disk, made, got, told, nops>>
      /\ fresh' = [fresh EXCEPT ![c] = NoFile]
      /\ opened' = [fd \in DOMAIN opened \cup {cnt} |-> IF fd = cnt THEN file ELSE opened[fd]]
  BY DEF insert
<1>2. file \in FileT
  <2>1. fresh[c] \in FileT /\ nopen + 1 \in Nat
    BY <1>1 DEF FsTypes, InHand, FsInv, Shape
  <2> QED
    BY <2>1 DEF FileT
<1>3. PICK label \in {"panic", "idle"} : Goto(c, label)
  BY DEF insert
<1> HIDE DEF file
<1>4. Stored' /\ Reported'
  BY <1>1, <1>2 DEF FsTypes, Stored, Reported
<1>5. InHand'
  BY <1>1, <1>3 DEF Goto, FsTypes, InHand, FsInv, Shape
<1>6. Opening' = Opening \ {c} /\ c \in Opening
  BY <1>1, <1>3 DEF Goto, Opening, FsInv, Shape
<1>7. Counted'
  BY <1>1, <1>6, CountedNext
<1> QED
  BY <1>4, <1>5, <1>7 DEF FsTypes

\* A command on an open file, or on one that is not.
LEMMA WorkTypes ==
    ASSUME FsInv, FsTypes, FsInv', NEW c \in Chan,
           poll_close(c) \/ poll_read(c) \/ poll_write(c) \/ poll_seek(c)
    PROVE  FsTypes'
<1> USE FsAssumption
<1> DEFINE k == cmd[c].fd
           f == opened[k]
           n == cmd[c].n
<1>1. pc[c] \in {"close", "read", "write", "seek"} /\ UNCHANGED <<made, nopen, fresh, nops>>
  BY DEF poll_close, poll_read, poll_write, poll_seek, At
<1>2. n \in Nat
  <2>1. cmd[c] \in CmdT /\ cmd[c].op \in {"close", "read", "write", "seek"}
    BY <1>1 DEF FsTypes, InHand, NoCmd, FsInv, Shape
  <2> QED
    BY <2>1 DEF CmdT
<1>3. PICK label \in {"idle", "panic"} : Goto(c, label)
  BY DEF poll_close, poll_read, poll_write, poll_seek, Panics
<1>4. InHand'
  BY <1>1, <1>3 DEF Goto, FsTypes, InHand, FsInv, Shape
<1>5. Counted'
  <2>1. Opening' = Opening
    BY <1>1, <1>3 DEF Goto, Opening, FsInv, Shape
  <2> QED
    BY <1>1, <2>1 DEF FsTypes, Counted
<1>6. Stored /\ Reported
  BY DEF FsTypes
<1>7. k \in DOMAIN opened => f \in FileT /\ f.pos \in Nat /\ f.path \in Path
  BY <1>6 DEF Stored, FileT
<1>8. Stored' /\ Reported'
  <2>1. CASE UNCHANGED <<opened, disk, got, told>>
    BY <1>1, <1>6, <2>1 DEF Stored, Reported
  <2>2. CASE poll_close(c)
    BY <1>1, <1>6, <2>2 DEF poll_close, Panics, Stored, Reported
  <2>3. CASE poll_read(c) /\ k \in DOMAIN opened /\ disk' = disk /\ told' = told
             /\ got' = [got EXCEPT ![c] = SubSeq(Content(f), f.pos + 1, f.pos + ReadLen(f, n))]
             /\ opened' = [opened EXCEPT ![k].pos = AfterRead(f, n)]
    <3>1. /\ SubSeq(Content(f), f.pos + 1, f.pos + ReadLen(f, n)) \in Seq(Bytes)
          /\ AfterRead(f, n) \in Nat
      BY <1>2, <1>6, <1>7, <2>3, ReadIs
    <3>2. [f EXCEPT !.pos = AfterRead(f, n)] \in FileT
      BY <1>7, <2>3, <3>1 DEF FileT
    <3>3. DOMAIN opened' = DOMAIN opened /\ \A x \in DOMAIN opened : opened'[x] \in FileT
      BY <1>6, <2>3, <3>2 DEF Stored, FsInv, Shape
    <3> QED
      BY <1>1, <1>6, <2>3, <3>1, <3>3 DEF Stored, Reported
  <2>4. CASE poll_seek(c) /\ k \in DOMAIN opened /\ UNCHANGED <<disk, got, told>>
             /\ opened' = [opened EXCEPT ![k].pos = IF f.kind = "virtual" THEN Min({n, Len(f.buf)}) ELSE n]
    <3> DEFINE to == IF f.kind = "virtual" THEN Min({n, Len(f.buf)}) ELSE n
    <3>1. to \in Nat
      <4>1. f.buf \in Seq(Bytes)
        BY <1>7, <2>4 DEF FileT
      <4>2. Len(f.buf) \in Nat
        BY <4>1
      <4> QED
        BY <1>2, <4>2, OfTwo
    <3>2. opened' = [opened EXCEPT ![k].pos = to]
      BY <2>4
    <3> HIDE DEF to
    <3>3. [f EXCEPT !.pos = to] \in FileT
      BY <1>7, <2>4, <3>1 DEF FileT
    <3>4. DOMAIN opened' = DOMAIN opened /\ \A x \in DOMAIN opened : opened'[x] \in FileT
      BY <1>6, <2>4, <3>2, <3>3 DEF Stored, FsInv, Shape
    <3> QED
      BY <1>1, <1>6, <2>4, <3>4 DEF Stored, Reported
  <2>5. CASE poll_write(c) /\ k \in DOMAIN opened /\ got' = got
    <3> DEFINE m     == IF f.kind = "special" THEN Whole(n) ELSE n
               bytes == [i \in 1 .. m |-> <<c, nops>>]
               new   == Written(f, WriteAt(f), bytes)
               to    == WriteAt(f) + m
    <3>1. m \in Nat
      BY <1>2, WholeIs
    <3>2. bytes \in Seq(Bytes)
      <4>1. <<c, nops>> \in Bytes
        BY DEF Bytes, FsTypes, Counted
      <4>2. bytes \in [1 .. m -> Bytes]
        BY <1>7, <2>5, <4>1
      <4> HIDE DEF m, bytes
      <4> QED
        BY <3>1, <4>2, SeqDef
    <3>3. WriteAt(f) \in Nat
      BY <1>6, <1>7, <2>5, ContentIs DEF WriteAt
    <3> HIDE DEF m, bytes
    <3>4. new \in Seq(Bytes) /\ to \in Nat
      BY <1>6, <1>7, <2>5, <3>1, <3>2, <3>3, WrittenIs
    <3>5. \/ UNCHANGED <<opened, disk, told>>
          \/ /\ opened' = opened \/ opened' = [opened EXCEPT ![k].pos = to,
                                                 ![k].buf = IF f.kind = "virtual" THEN new ELSE @]
             /\ disk' = disk \/ disk' = [disk EXCEPT ![f.path] = new]
             /\ told' = [told EXCEPT ![f.path] = @ \o bytes]
      BY <2>5 DEF poll_write, Panics, Valid, File, m, bytes
    <3> HIDE DEF to, new
    <3>6. Reported'
      <4>1. told[f.path] \in Seq(Bytes)
        BY <1>6, <1>7, <2>5 DEF Reported
      <4>2. told[f.path] \o bytes \in Seq(Bytes)
        BY <3>2, <4>1, ConcatProperties
      <4> DEFINE line == told[f.path] \o bytes
      <4>3. told' = told \/ told' = [told EXCEPT ![f.path] = line]
        BY <3>5
      <4>4. line \in Seq(Bytes)
        BY <4>2
      <4> HIDE DEF line
      <4>5. told \in [Path -> Seq(Bytes)] /\ got' \in [Chan -> Seq(Bytes)]
        BY <1>6, <2>5 DEF Reported
      <4>6. told' \in [Path -> Seq(Bytes)]
        BY <4>3, <4>4, <4>5
      <4> QED
        BY <4>5, <4>6 DEF Reported
    <3>7. [f EXCEPT !.pos = to, !.buf = IF f.kind = "virtual" THEN new ELSE @] \in FileT
      BY <1>7, <2>5, <3>4 DEF FileT
    <3>8. DOMAIN opened' = DOMAIN opened /\ \A x \in DOMAIN opened : opened'[x] \in FileT
      BY <1>6, <2>5, <3>5, <3>7 DEF Stored, FsInv, Shape
    <3>9. disk' \in [Path -> Seq(Bytes)]
      BY <1>6, <3>4, <3>5 DEF Stored
    <3> QED
      BY <1>1, <1>6, <3>6, <3>8, <3>9 DEF Stored
  <2> QED
    BY <2>1, <2>2, <2>3, <2>4, <2>5 DEF poll_close, poll_read, poll_write, poll_seek, Panics, Valid, File
<1> QED
  BY <1>4, <1>5, <1>8 DEF FsTypes

LEMMA FsTypesAlways == FsSpec => []FsTypes
<1>1. FsInv /\ FsInv' /\ FsTypes /\ [Next]_vars => FsTypes'
  <2> SUFFICES ASSUME FsInv, FsInv', FsTypes, [Next]_vars PROVE FsTypes'
    OBVIOUS
  <2>1. CASE Next
    <3>1. PICK c \in Chan : Client(c) \/ Server(c)
      BY <2>1 DEF Next
    <3> QED
      BY <3>1, ClientTypes, OpenTypes, InsertTypes, WorkTypes DEF Server
  <2>2. CASE UNCHANGED vars
    <3>1. UNCHANGED <<disk, made, opened, nopen, pc, cmd, fresh, got, told, nops>>
      BY <2>2 DEF vars, table, clients
    <3> QED
      BY <3>1 DEF FsTypes, Stored, InHand, Reported, Counted, Opening
  <2> QED
    BY <2>1, <2>2
<1> QED
  BY <1>1, FsTypesInit, FsInvAlways, PTL DEF FsSpec

\* Descriptors, positions, contents and reports keep their types, and no more
\* files are opened than there were commands.
THEOREM FilesTypeCorrect == FsSpec => []FsTypeOK
  BY FsInvAlways, FsTypesAlways, TypesSuffice, PTL

-----------------------------------------------------------------------------
(* Logs.                                                                    *)

\* What a handle on this path may be.
LogMode(p, mode) == p \in Logs => mode = {"READ"} \/ ("APPEND" \in mode /\ "TRUNC" \notin mode)

\* The handles on a log only read or append, those in hand and those asked for too.
LogsKept ==
    /\ \A p \in Logs : disk[p] = told[p]
    /\ \A fd \in DOMAIN opened :
          opened[fd].kind = Kind[opened[fd].path] /\ LogMode(opened[fd].path, opened[fd].mode)
    /\ \A c \in Chan :
          /\ pc[c] = "insert" => /\ fresh[c].kind = Kind[fresh[c].path]
                                 /\ LogMode(fresh[c].path, fresh[c].mode)
          /\ pc[c] = "open" => LogMode(cmd[c].path, cmd[c].flags)

LEMMA LogsInit == Init => LogsKept
<1> SUFFICES ASSUME Init PROVE LogsKept
  OBVIOUS
<1>1. DOMAIN opened = {} /\ \A c \in Chan : pc[c] = "idle"
  BY DEF Init
<1>2. \A p \in Logs : disk[p] = told[p]
  BY DEF Init, Logs
<1> QED
  BY <1>1, <1>2 DEF LogsKept

LEMMA LogsStart ==
    ASSUME FsInv, LogsKept, NEW c \in Chan, NEW r, Start(c, r), r.op # "insert",
           r.op = "open" => LogMode(r.path, r.flags)
    PROVE  LogsKept'
<1>1. /\ UNCHANGED <<disk, told, opened, fresh>>
      /\ pc' = [pc EXCEPT ![c] = r.op] /\ cmd' = [cmd EXCEPT ![c] = r]
  BY DEF Start, table
<1>2. ASSUME NEW d \in Chan
      PROVE  /\ pc'[d] = "insert" => pc[d] = "insert"
             /\ pc'[d] = "open" => LogMode(cmd'[d].path, cmd'[d].flags)
  <2>1. CASE d = c
    BY <1>1, <2>1 DEF FsInv, Shape
  <2>2. CASE d # c
    BY <1>1, <2>2 DEF FsInv, Shape, LogsKept
  <2> QED
    BY <2>1, <2>2
<1> QED
  BY <1>1, <1>2 DEF LogsKept

LEMMA LogsClient ==
    ASSUME FsInv, LogsKept, NEW c \in Chan, Client(c)
    PROVE  LogsKept'
<1>1. CASE fopen(c)
  <2>1. ASSUME NEW o \in Opens, Start(c, [op |-> "open", path |-> o.path, flags |-> o.flags])
        PROVE  LogsKept'
    <3>1. LogMode(o.path, o.flags)
      BY DEF LogMode, Logs
    <3> QED
      BY <2>1, <3>1, LogsStart
  <2> QED
    BY <1>1, <2>1 DEF fopen
<1>2. CASE fread(c) \/ fwrite(c) \/ fseek(c) \/ fclose(c)
  <2>1. ASSUME NEW name \in {"read", "write", "seek", "close"}, NEW fd, NEW n,
               Start(c, [op |-> name, fd |-> fd, n |-> n])
        PROVE  LogsKept'
    BY <2>1, LogsStart
  <2> QED
    BY <1>2, <2>1 DEF fread, fwrite, fseek, fclose
<1>3. CASE Restart(c)
  <2>1. UNCHANGED <<disk, told, opened, fresh, pc, cmd>>
    BY <1>3 DEF Restart, table
  <2> QED
    BY <2>1 DEF LogsKept
<1> QED
  BY <1>1, <1>2, <1>3 DEF Client

LEMMA LogsOpen ==
    ASSUME FsInv, FsTypes, LogsKept, NEW c \in Chan, open_file(c)
    PROVE  LogsKept'
<1> DEFINE p    == cmd[c].path
           mode == ModeOf(p, cmd[c].flags)
           file == [serial |-> 0, path |-> p, kind |-> Kind[p], mode |-> mode, pos |-> 0, buf |-> <<>>]
<1>1. pc[c] = "open" /\ UNCHANGED <<opened, told>>
  BY DEF open_file, table, clients
<1>2. LogMode(p, mode)
  <2>1. LogMode(p, cmd[c].flags)
    BY <1>1 DEF LogsKept
  <2>2. p \in Logs => mode = cmd[c].flags
    BY DEF ModeOf, Logs
  <2> QED
    BY <2>1, <2>2 DEF LogMode
<1>3. file.kind = Kind[file.path] /\ LogMode(file.path, file.mode)
  BY <1>2
<1> HIDE DEF file
<1>4. \/ fresh' = [fresh EXCEPT ![c] = file] /\ pc' = [pc EXCEPT ![c] = "insert"]
      \/ pc' = [pc EXCEPT ![c] = "panic"] /\ fresh' = fresh
  BY DEF open_file, Goto, file
<1>5. \A d \in Chan \ {c} : cmd'[d] = cmd[d]
  BY DEF open_file, Goto, FsInv, Shape
<1>6. \A q \in Logs : disk'[q] = disk[q]
  <2>1. p \in Logs => "TRUNC" \notin mode
    BY <1>2 DEF LogMode
  <2>2. disk' = disk \/ disk' = [disk EXCEPT ![p] = IF "TRUNC" \in mode THEN <<>> ELSE @]
    BY DEF open_file
  <2>3. Logs \subseteq Path /\ disk \in [Path -> Seq(Bytes)]
    BY DEF Logs, FsTypes, Stored
  <2> HIDE DEF mode, p
  <2> QED
    BY <2>1, <2>2, <2>3
<1>7. ASSUME NEW d \in Chan
      PROVE  /\ pc'[d] = "insert" => \/ d = c /\ fresh'[d] = file
                                     \/ d # c /\ pc[d] = "insert" /\ fresh'[d] = fresh[d]
             /\ pc'[d] = "open" => d # c /\ pc[d] = "open"
  <2>1. pc = [x \in Chan |-> pc[x]] /\ fresh = [x \in Chan |-> fresh[x]]
    BY DEF FsInv, Shape
  <2>2. CASE d = c
    BY <1>4, <2>1, <2>2
  <2>3. CASE d # c
    BY <1>4, <2>1, <2>3
  <2> QED
    BY <2>2, <2>3
<1> QED
  BY <1>1, <1>3, <1>5, <1>6, <1>7 DEF LogsKept

LEMMA LogsInsert ==
    ASSUME FsInv, FsTypes, LogsKept, NEW c \in Chan, insert(c)
    PROVE  LogsKept'
<1> DEFINE file == [fresh[c] EXCEPT !.serial = nopen + 1]
<1>1. /\ pc[c] = "insert" /\ UNCHANGED <<disk, told>>
      /\ opened' = [fd \in DOMAIN opened \cup {cnt} |-> IF fd = cnt THEN file ELSE opened[fd]]
      /\ fresh' = [fresh EXCEPT ![c] = NoFile]
  BY DEF insert
<1>2. PICK label \in {"panic", "idle"} : Goto(c, label)
  BY DEF insert
<1>3. file.kind = Kind[file.path] /\ LogMode(file.path, file.mode)
  <2>1. fresh[c] \in FileT
    BY <1>1 DEF FsTypes, InHand
  <2>2. file.kind = fresh[c].kind /\ file.path = fresh[c].path /\ file.mode = fresh[c].mode
    BY <2>1 DEF FileT
  <2> QED
    BY <1>1, <2>2 DEF LogsKept
<1> HIDE DEF file
<1>4. \A d \in Chan : pc'[d] \in {"insert", "open"} =>
          d # c /\ pc'[d] = pc[d] /\ fresh'[d] = fresh[d] /\ cmd'[d] = cmd[d]
  BY <1>1, <1>2 DEF Goto, FsInv, Shape
<1> QED
  BY <1>1, <1>3, <1>4 DEF LogsKept

\* Appended bytes come after what is there, wherever the handle stands.
LEMMA Appended ==
    ASSUME Stored, NEW f \in FileT, f.kind = "normal", "APPEND" \in f.mode,
           NEW bytes \in Seq(Bytes)
    PROVE  Written(f, WriteAt(f), bytes) = disk[f.path] \o bytes
<1> DEFINE old == Content(f)
<1>1. old = disk[f.path] /\ WriteAt(f) = Len(old)
  BY DEF Content, WriteAt
<1>2. old \in Seq(Bytes)
  BY ContentIs
<1>3. PICK n \in Nat : n = Len(old)
  BY <1>2
<1>4. PICK m \in Nat : m = Len(bytes)
  OBVIOUS
<1>5. Max({n + m, n}) = n + m
  <2>1. n + m \in {n + m, n} /\ \A y \in {n + m, n} : n + m >= y
    OBVIOUS
  <2>2. \A x \in {n + m, n} : (\A y \in {n + m, n} : x >= y) => x = n + m
    OBVIOUS
  <2> QED
    BY <2>1, <2>2 DEF Max
<1>6. Written(f, n, bytes) = [k \in 1 .. n + m |-> IF k > n /\ k <= n + m THEN bytes[k - n]
                                                   ELSE IF k <= n THEN old[k] ELSE <<"zero", 0>>]
  BY <1>3, <1>4, <1>5 DEF Written
<1> HIDE DEF old
<1> DEFINE new == Written(f, n, bytes)
           all == old \o bytes
<1>7. /\ all \in Seq(Bytes) /\ Len(all) = n + m
      /\ \A k \in 1 .. n + m : all[k] = IF k <= n THEN old[k] ELSE bytes[k - n]
  BY <1>2, <1>3, <1>4, ConcatProperties
<1>8. \A k \in 1 .. n + m : new[k] = IF k <= n THEN old[k] ELSE bytes[k - n]
  BY <1>6
<1>9. new \in Seq(Bytes) /\ Len(new) = n + m
  <2>1. new \in Seq(Bytes)
    BY WrittenIs
  <2>2. DOMAIN new = 1 .. n + m
    BY <1>6
  <2> HIDE DEF new
  <2> QED
    BY <2>1, <2>2, LenProperties
<1> HIDE DEF new, all
<1>10. new = all
  BY <1>7, <1>8, <1>9, SeqEqual
<1> QED
  BY <1>1, <1>3, <1>10 DEF new, all

LEMMA LogsWrite ==
    ASSUME FsInv, FsTypes, LogsKept, NEW c \in Chan, poll_write(c)
    PROVE  \A p \in Logs : disk'[p] = told'[p]
<1> DEFINE f     == File(c)
           n     == IF f.kind = "special" THEN Whole(cmd[c].n) ELSE cmd[c].n
           bytes == [k \in 1 .. n |-> <<c, nops>>]
           new   == Written(f, WriteAt(f), bytes)
<1>1. \/ UNCHANGED <<disk, told>>
      \/ /\ Valid(c) /\ (f.kind = "virtual" \/ Writes(f.mode))
         /\ disk' = IF n = 0 \/ f.kind = "virtual" THEN disk ELSE [disk EXCEPT ![f.path] = new]
         /\ told' = [told EXCEPT ![f.path] = @ \o bytes]
  BY DEF poll_write, Panics
<1>2. n \in Nat
  <2>1. cmd[c] \in CmdT /\ cmd[c].op = "write"
    BY DEF poll_write, At, FsTypes, InHand, NoCmd, FsInv, Shape
  <2> QED
    BY <2>1, WholeIs DEF CmdT
<1>3. bytes \in Seq(Bytes) /\ (n = 0 => bytes = <<>>)
  <2>1. <<c, nops>> \in Bytes
    BY DEF Bytes, FsTypes, Counted
  <2>2. bytes \in [1 .. n -> Bytes] /\ (n = 0 => bytes = <<>>)
    BY <2>1
  <2> HIDE DEF n, bytes
  <2> QED
    BY <1>2, <2>2, SeqDef
<1> HIDE DEF n, bytes
<1>4. Valid(c) => f \in FileT /\ f.path \in Path /\ f.kind = Kind[f.path] /\ LogMode(f.path, f.mode)
  <2>1. Valid(c) => f \in FileT /\ f.kind = Kind[f.path] /\ LogMode(f.path, f.mode)
    BY DEF Valid, File, FsTypes, Stored, LogsKept
  <2> QED
    BY <2>1 DEF FileT
<1>5. Logs \subseteq Path /\ disk \in [Path -> Seq(Bytes)] /\ told \in [Path -> Seq(Bytes)] /\ Stored
  BY DEF Logs, FsTypes, Stored, Reported
<1> HIDE DEF f
<1>6. ASSUME NEW p \in Logs PROVE disk'[p] = told'[p]
  <2>1. disk[p] = told[p] /\ p \in Path
    BY <1>5 DEF LogsKept
  <2>2. CASE UNCHANGED <<disk, told>>
    BY <2>1, <2>2
  <2>3. CASE /\ Valid(c) /\ (f.kind = "virtual" \/ Writes(f.mode)) /\ p # f.path
             /\ disk' = IF n = 0 \/ f.kind = "virtual" THEN disk ELSE [disk EXCEPT ![f.path] = new]
             /\ told' = [told EXCEPT ![f.path] = @ \o bytes]
    <3> HIDE DEF new
    <3> QED
      BY <1>5, <2>1, <2>3
  <2>4. CASE /\ Valid(c) /\ (f.kind = "virtual" \/ Writes(f.mode)) /\ p = f.path
             /\ disk' = IF n = 0 \/ f.kind = "virtual" THEN disk ELSE [disk EXCEPT ![f.path] = new]
             /\ told' = [told EXCEPT ![f.path] = @ \o bytes]
    <3>1. f.kind = "normal"
      BY <1>4, <2>4 DEF Logs
    <3>2. "APPEND" \in f.mode
      BY <1>4, <2>4, <3>1 DEF LogMode, Writes
    <3>3. new = disk[p] \o bytes
      BY <1>3, <1>4, <1>5, <2>4, <3>1, <3>2, Appended
    <3>4. told'[p] = told[p] \o bytes
      BY <1>5, <2>1, <2>4
    <3> HIDE DEF new
    <3>5. CASE n = 0
      <4>1. told[p] \o <<>> = told[p]
        BY <1>5, <2>1, ConcatEmptySeq
      <4> QED
        BY <1>3, <2>1, <2>4, <3>4, <3>5, <4>1
    <3>6. CASE n # 0
      BY <1>5, <2>1, <2>4, <3>1, <3>3, <3>4, <3>6
    <3> QED
      BY <3>5, <3>6
  <2> QED
    BY <1>1, <2>2, <2>3, <2>4
<1> QED
  BY <1>6

LEMMA LogsWork ==
    ASSUME FsInv, FsTypes, LogsKept, NEW c \in Chan,
           poll_close(c) \/ poll_read(c) \/ poll_write(c) \/ poll_seek(c)
    PROVE  LogsKept'
<1>1. fresh' = fresh
  BY DEF poll_close, poll_read, poll_write, poll_seek
<1>2. PICK label \in {"idle", "panic"} : Goto(c, label)
  BY DEF poll_close, poll_read, poll_write, poll_seek, Panics
<1>3. \A d \in Chan : pc'[d] \in {"insert", "open"} => pc'[d] = pc[d] /\ cmd'[d] = cmd[d]
  BY <1>2 DEF Goto, FsInv, Shape
<1>4. \A p \in Logs : disk'[p] = told'[p]
  <2>1. CASE poll_write(c)
    BY <2>1, LogsWrite
  <2>2. CASE poll_close(c) \/ poll_read(c) \/ poll_seek(c)
    <3>1. UNCHANGED <<disk, told>>
      BY <2>2 DEF poll_close, poll_read, poll_seek, Panics
    <3> QED
      BY <3>1 DEF LogsKept
  <2> QED
    BY <2>1, <2>2
<1>5. /\ DOMAIN opened' \subseteq DOMAIN opened
      /\ \A fd \in DOMAIN opened' : /\ opened'[fd].kind = opened[fd].kind
                                    /\ opened'[fd].path = opened[fd].path
                                    /\ opened'[fd].mode = opened[fd].mode
  <2>1. opened = [fd \in DOMAIN opened |-> opened[fd]] /\ \A fd \in DOMAIN opened : HasFields(opened[fd])
    BY DEF FsInv, Shape
  <2>2. CASE poll_close(c)
    BY <2>1, <2>2 DEF poll_close, Panics
  <2>3. CASE poll_read(c) \/ poll_seek(c)
    <3>1. PICK to : opened' = opened \/ opened' = [opened EXCEPT ![cmd[c].fd].pos = to]
      BY <2>3 DEF poll_read, poll_seek, Panics
    <3> QED
      BY <2>1, <3>1 DEF HasFields
  <2>4. CASE poll_write(c)
    <3>1. PICK to, b : opened' = opened \/ opened' = [opened EXCEPT ![cmd[c].fd].pos = to,
                                                                    ![cmd[c].fd].buf = b]
      BY <2>4, ZenonT(30) DEF poll_write, Panics
    <3> QED
      BY <2>1, <3>1 DEF HasFields
  <2> QED
    BY <2>2, <2>3, <2>4
<1> QED
  BY <1>1, <1>3, <1>4, <1>5 DEF LogsKept

\* Whatever the clients of a log open, close and leave open, and wherever their handles
\* stand, the log holds what they were told.
THEOREM LogsHold == FsSpec => []AppendsKept
<1>1. FsInv /\ FsTypes /\ LogsKept /\ [Next]_vars => LogsKept'
  <2> SUFFICES ASSUME FsInv, FsTypes, LogsKept, [Next]_vars PROVE LogsKept'
    OBVIOUS
  <2>1. CASE Next
    <3>1. PICK c \in Chan : Client(c) \/ Server(c)
      BY <2>1 DEF Next
    <3> QED
      BY <3>1, LogsClient, LogsOpen, LogsInsert, LogsWork DEF Server
  <2>2. CASE UNCHANGED vars
    <3>1. UNCHANGED <<disk, opened, pc, cmd, fresh, told>>
      BY <2>2 DEF vars, table, clients
    <3> QED
      BY <3>1 DEF LogsKept
  <2> QED
    BY <2>1, <2>2
<1>2. LogsKept => AppendsKept
  BY DEF LogsKept, AppendsKept
<1> QED
  BY <1>1, <1>2, LogsInit, FsInvAlways, FsTypesAlways, PTL DEF FsSpec

===============================================================================
