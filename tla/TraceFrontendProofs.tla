------------------------ MODULE TraceFrontendProofs ------------------------
(***************************************************************************)
(* A tid word is cleared by the thread it belongs to, for any number of     *)
(* applications and threads, if an application creates a thread when the    *)
(* one before has started.                                                  *)
(***************************************************************************)
EXTENDS TraceFrontend, TLAPS

IsSeq(q) == q \in Seq({q[i] : i \in DOMAIN q})

\* What a thread has still to write to its pipe: requests that leave the words alone, a
\* request for a new thread, last and of the first thread only, and, when it has ended, the
\* wake that goes with the clearing of its own word.
Harmless(x) == x.type # "NewThread" /\ (x.type = "Syscall" => x.kind # "futex_wake")
ClearsWord(x, word) == x.type = "Syscall" /\ x.kind = "futex_wake" /\ x.word = word
HasClone(q) == \E i \in DOMAIN q : q[i].type = "NewThread"
MayWrite(r, n, i) ==
    \/ Harmless(r.todo[i])
    \/ r.todo[i].type = "NewThread" /\ i = Len(r.todo) /\ n = 0
    \/ ClearsWord(r.todo[i], r.word) /\ r.word # NoWord /\ r.state # "run"

\* The recorder's side of thread n of an application that has started `threads' threads: the
\* word of a thread is its number.
IsRecorder(r) ==
    /\ "state" \in DOMAIN r /\ "todo" \in DOMAIN r /\ "wait" \in DOMAIN r
    /\ "tid" \in DOMAIN r /\ "word" \in DOMAIN r /\ IsSeq(r.todo)
Recorded(r, n, threads) ==
    /\ IsRecorder(r)
    /\ r.word \in {NoWord, n} /\ r.tid = r.word /\ (r.word # NoWord => n < threads)
    /\ \A i \in DOMAIN r.todo : MayWrite(r, n, i)
    /\ n # 0 => r.wait.type # "NewThread"

\* Threads are created one after the other: either every clone has started, or the word of
\* the last one is the only pointer in the list, and the first thread asks for no other.
IsProcess(p) ==
    /\ "mode" \in DOMAIN p /\ "roi" \in DOMAIN p /\ "tidptrs" \in DOMAIN p /\ "words" \in DOMAIN p
    /\ "cloned" \in DOMAIN p /\ "clones" \in DOMAIN p /\ "threads" \in DOMAIN p
    /\ p.clones \in Nat /\ p.threads \in Nat /\ p.threads > 0
AllStarted(p, main) ==
    p.threads = p.clones + 1 /\ p.tidptrs = <<>> /\ p.cloned = {} /\ main.wait.type # "NewThread"
OneToStart(p, main) ==
    /\ p.threads = p.clones /\ p.tidptrs = <<p.clones>> /\ p.cloned \subseteq {p.clones}
    /\ p.clones \in p.words /\ ~HasClone(main.todo)
    /\ main.wait.type = "NewThread" => p.cloned = {} /\ main.wait.word = p.clones
Cloning(p, main) == IsProcess(p) /\ (AllStarted(p, main) \/ OneToStart(p, main))

Alive(r, p) == r.state = "run" /\ r.word # NoWord => r.word \in p.words

Orderly(pr, rc) ==
    /\ DOMAIN pr = Apps /\ DOMAIN rc = Key
    /\ \A k \in Key : Recorded(rc[k], k[2], pr[k[1]].threads) /\ Alive(rc[k], pr[k[1]])
    /\ \A a \in Apps : Cloning(pr[a], rc[<<a, 0>>])
Inv == ~config.racing => Orderly(proc, rec)

-----------------------------------------------------------------------------
(* Sequences.                                                               *)

LEMMA AnySeq ==
    ASSUME NEW S, NEW q \in Seq(S)
    PROVE  IsSeq(q)
<1>1. q \in [1 .. Len(q) -> {q[i] : i \in DOMAIN q}] /\ Len(q) \in Nat
  OBVIOUS
<1> QED
  BY <1>1 DEF IsSeq

LEMMA OneSeq ==
    ASSUME NEW x
    PROVE  IsSeq(<<x>>) /\ DOMAIN <<x>> = {1} /\ <<x>>[1] = x /\ Len(<<x>>) = 1
<1>1. DOMAIN <<x>> = {1} /\ <<x>>[1] = x /\ Len(<<x>>) = 1
  OBVIOUS
<1>2. <<x>> \in Seq({x})
  OBVIOUS
<1>3. {<<x>>[i] : i \in DOMAIN <<x>>} = {x}
  BY <1>1
<1> QED
  BY <1>1, <1>2, <1>3 DEF IsSeq

LEMMA NoSeq == IsSeq(<<>>) /\ DOMAIN <<>> = {} /\ Len(<<>>) = 0
<1>1. \A S : <<>> \in Seq(S)
  OBVIOUS
<1> QED
  BY <1>1 DEF IsSeq

LEMMA TailSeq ==
    ASSUME NEW q, IsSeq(q), q # <<>>
    PROVE  /\ IsSeq(Tail(q)) /\ Len(q) \in Nat /\ Len(q) > 0 /\ DOMAIN q = 1 .. Len(q)
           /\ DOMAIN Tail(q) = 1 .. Len(q) - 1 /\ Head(q) = q[1] /\ 1 \in DOMAIN q
           /\ Len(Tail(q)) = Len(q) - 1
           /\ \A i \in DOMAIN Tail(q) : i + 1 \in DOMAIN q /\ Tail(q)[i] = q[i + 1]
<1> DEFINE t == Tail(q)
<1>1. PICK S : q \in Seq(S)
  BY DEF IsSeq
<1>2. /\ t \in Seq(S) /\ Len(q) \in Nat /\ Len(q) > 0 /\ DOMAIN q = 1 .. Len(q)
      /\ DOMAIN t = 1 .. Len(q) - 1 /\ Len(t) = Len(q) - 1 /\ Head(q) = q[1]
      /\ \A i \in 1 .. Len(q) - 1 : t[i] = q[i + 1]
  BY <1>1
<1>3. \A i \in 1 .. Len(q) - 1 : i + 1 \in 1 .. Len(q)
  BY <1>2
<1>4. 1 \in DOMAIN q
  BY <1>2
<1>5. IsSeq(t)
  BY <1>2, AnySeq
<1> QED
  BY <1>2, <1>3, <1>4, <1>5

LEMMA ConcatSeq ==
    ASSUME NEW p, IsSeq(p), NEW q, IsSeq(q)
    PROVE  /\ IsSeq(p \o q) /\ Len(p) \in Nat /\ Len(q) \in Nat /\ Len(p \o q) = Len(p) + Len(q)
           /\ DOMAIN p = 1 .. Len(p) /\ DOMAIN q = 1 .. Len(q) /\ DOMAIN (p \o q) = 1 .. Len(p) + Len(q)
           /\ \A i \in 1 .. Len(p) + Len(q) :
                  (p \o q)[i] = IF i <= Len(p) THEN p[i] ELSE q[i - Len(p)]
<1> DEFINE P == {p[i] : i \in DOMAIN p}
           Q == {q[i] : i \in DOMAIN q}
           c == p \o q
<1>1. p \in Seq(P) /\ q \in Seq(Q)
  BY DEF IsSeq
<1> HIDE DEF P, Q
<1>2. p \in Seq(P \cup Q) /\ q \in Seq(P \cup Q)
  BY <1>1
<1>3. /\ c \in Seq(P \cup Q) /\ Len(p) \in Nat /\ Len(q) \in Nat /\ Len(c) = Len(p) + Len(q)
      /\ DOMAIN p = 1 .. Len(p) /\ DOMAIN q = 1 .. Len(q) /\ DOMAIN c = 1 .. Len(p) + Len(q)
      /\ \A i \in 1 .. Len(p) + Len(q) : c[i] = IF i <= Len(p) THEN p[i] ELSE q[i - Len(p)]
  BY <1>2
<1>4. IsSeq(c)
  BY <1>3, AnySeq
<1> QED
  BY <1>3, <1>4

Harmlessly(q) == IsSeq(q) /\ \A i \in DOMAIN q : Harmless(q[i])

LEMMA ConcatHarmlessly ==
    ASSUME NEW p, Harmlessly(p), NEW q, Harmlessly(q)
    PROVE  Harmlessly(p \o q)
<1> DEFINE c == p \o q
<1>1. IsSeq(p) /\ IsSeq(q) /\ (\A i \in DOMAIN p : Harmless(p[i])) /\ (\A i \in DOMAIN q : Harmless(q[i]))
  BY DEF Harmlessly
<1>2. /\ IsSeq(c) /\ Len(p) \in Nat /\ Len(q) \in Nat
      /\ DOMAIN p = 1 .. Len(p) /\ DOMAIN q = 1 .. Len(q) /\ DOMAIN c = 1 .. Len(p) + Len(q)
      /\ \A i \in 1 .. Len(p) + Len(q) : c[i] = IF i <= Len(p) THEN p[i] ELSE q[i - Len(p)]
  BY <1>1, ConcatSeq
<1> HIDE DEF c
<1>3. ASSUME NEW i \in DOMAIN c PROVE Harmless(c[i])
  <2>1. i \in 1 .. Len(p) + Len(q)
    BY <1>2
  <2>2. CASE i <= Len(p)
    BY <1>1, <1>2, <2>1, <2>2
  <2>3. CASE ~(i <= Len(p))
    <3>1. PICK j : j = i - Len(p) /\ j \in 1 .. Len(q)
      BY <1>2, <2>1, <2>3
    <3> QED
      BY <1>1, <1>2, <2>1, <2>3, <3>1
  <2> QED
    BY <2>2, <2>3
<1> QED
  BY <1>2, <1>3 DEF Harmlessly, c

\* A sequence of harmless requests with one more request at its end.
LEMMA ConcatOne ==
    ASSUME NEW p, Harmlessly(p), NEW x
    PROVE  LET c == p \o <<x>>
           IN  /\ IsSeq(c)
               /\ \A i \in DOMAIN c : Harmless(c[i]) \/ (c[i] = x /\ i = Len(c))
<1> DEFINE c == p \o <<x>>
<1>1. IsSeq(p) /\ (\A i \in DOMAIN p : Harmless(p[i]))
  BY DEF Harmlessly
<1>2. IsSeq(<<x>>) /\ <<x>>[1] = x /\ Len(<<x>>) = 1
  BY OneSeq
<1>3. /\ IsSeq(c) /\ Len(p) \in Nat /\ Len(c) = Len(p) + 1
      /\ DOMAIN p = 1 .. Len(p) /\ DOMAIN c = 1 .. Len(p) + 1
      /\ \A i \in 1 .. Len(p) + 1 : c[i] = IF i <= Len(p) THEN p[i] ELSE <<x>>[i - Len(p)]
  BY <1>1, <1>2, ConcatSeq
<1> HIDE DEF c
<1>4. ASSUME NEW i \in DOMAIN c PROVE Harmless(c[i]) \/ (c[i] = x /\ i = Len(c))
  <2>1. i \in 1 .. Len(p) + 1
    BY <1>3
  <2>2. CASE i <= Len(p)
    BY <1>1, <1>3, <2>1, <2>2
  <2>3. CASE ~(i <= Len(p))
    <3>1. i = Len(p) + 1 /\ i - Len(p) = 1
      BY <1>3, <2>1, <2>3
    <3> QED
      BY <1>2, <1>3, <2>1, <2>3, <3>1
  <2> QED
    BY <2>2, <2>3
<1> QED
  BY <1>3, <1>4 DEF c

LEMMA HarmlessOne ==
    ASSUME NEW x, Harmless(x)
    PROVE  Harmlessly(<<x>>)
  BY OneSeq DEF Harmlessly

LEMMA HarmlessNone == Harmlessly(<<>>)
  BY NoSeq DEF Harmlessly

-----------------------------------------------------------------------------
(* Steps that create no thread.                                             *)

LEMMA Keys ==
    /\ \A k \in Key : k[1] \in Apps /\ k[2] \in Nat /\ k = <<k[1], k[2]>>
    /\ \A a \in Apps : <<a, 0>> \in Key /\ <<a, 0>>[1] = a /\ <<a, 0>>[2] = 0
  BY FrontendAssumption DEF Key, Apps

\* What may happen to thread n of an application with process state p.
Keeps(s, r, n, p) ==
    /\ Recorded(s, n, p.threads)
    /\ s.word \in {r.word, NoWord} /\ (s.state = "run" => r.state = "run" \/ s.word = NoWord)
    /\ s.wait = r.wait \/ s.wait.type # "NewThread"
    /\ HasClone(s.todo) => HasClone(r.todo) \/ p.threads = p.clones + 1
SameProcess(q, p) ==
    /\ IsProcess(q) /\ q.clones = p.clones /\ q.threads = p.threads /\ q.tidptrs = p.tidptrs
    /\ q.cloned = p.cloned /\ q.words = p.words

LEMMA Untouched ==
    ASSUME NEW r, NEW n, NEW p, Recorded(r, n, p.threads)
    PROVE  Keeps(r, r, n, p)
  BY DEF Keeps

\* The thread goes on to requests that leave the words alone.
LEMMA NextRequests ==
    ASSUME NEW r, NEW s, NEW n, NEW p, Recorded(r, n, p.threads), IsRecorder(s),
           s.state = r.state \/ s.state # "run", s.wait = r.wait \/ s.wait.type # "NewThread",
           s.word = r.word, s.tid = r.tid, Harmlessly(s.todo)
    PROVE  Keeps(s, r, n, p)
<1>1. ~HasClone(s.todo)
  BY DEF Harmlessly, Harmless, HasClone
<1>2. \A i \in DOMAIN s.todo : MayWrite(s, n, i)
  BY DEF Harmlessly, MayWrite
<1>3. n # 0 => s.wait.type # "NewThread"
  BY DEF Recorded
<1>4. Recorded(s, n, p.threads)
  BY <1>2, <1>3 DEF Recorded
<1> QED
  BY <1>1, <1>4 DEF Keeps

LEMMA QuietSteps ==
    ASSUME Orderly(proc, rec), DOMAIN proc' = Apps, DOMAIN rec' = Key,
           \A k \in Key : Keeps(rec'[k], rec[k], k[2], proc[k[1]]),
           \A a \in Apps : SameProcess(proc'[a], proc[a])
    PROVE  Orderly(proc', rec')
<1>1. \A k \in Key : Recorded(rec'[k], k[2], proc'[k[1]].threads)
  BY Keys DEF Keeps, SameProcess
<1>2. \A k \in Key : Alive(rec'[k], proc'[k[1]])
  BY Keys DEF Keeps, SameProcess, Orderly, Alive
<1>3. ASSUME NEW a \in Apps PROVE Cloning(proc'[a], rec'[<<a, 0>>])
  <2>1. <<a, 0>> \in Key /\ <<a, 0>>[1] = a
    BY Keys
  <2> DEFINE s == rec'[<<a, 0>>]
             r == rec[<<a, 0>>]
  <2>2. /\ s.wait = r.wait \/ s.wait.type # "NewThread"
        /\ HasClone(s.todo) => HasClone(r.todo) \/ proc[a].threads = proc[a].clones + 1
    BY <2>1 DEF Keeps
  <2>3. Cloning(proc[a], r) /\ SameProcess(proc'[a], proc[a])
    BY DEF Orderly
  <2>4. proc[a].clones \in Nat
    BY <2>3 DEF Cloning, IsProcess
  <2> SUFFICES Cloning(proc'[a], s)
    OBVIOUS
  <2> HIDE DEF s, r
  <2>5. CASE AllStarted(proc[a], r)
    BY <2>2, <2>3, <2>5 DEF AllStarted, Cloning, SameProcess
  <2>6. CASE OneToStart(proc[a], r)
    BY <2>2, <2>3, <2>4, <2>6 DEF OneToStart, Cloning, SameProcess
  <2> QED
    BY <2>3, <2>5, <2>6 DEF Cloning
<1> QED
  BY <1>1, <1>2, <1>3 DEF Orderly

LEMMA StayOrderly ==
    ASSUME Orderly(proc, rec), NEW a \in Apps
    PROVE  SameProcess(proc[a], proc[a])
  BY DEF Orderly, Cloning, SameProcess

\* A step of one thread that leaves its process alone.
LEMMA OneThread ==
    ASSUME Orderly(proc, rec), NEW k \in Key, proc' = proc, DOMAIN rec' = Key,
           \A j \in Key \ {k} : rec'[j] = rec[j], Keeps(rec'[k], rec[k], k[2], proc[k[1]])
    PROVE  Orderly(proc', rec')
<1>1. \A j \in Key : Recorded(rec[j], j[2], proc[j[1]].threads)
  BY DEF Orderly
<1>2. \A j \in Key \ {k} : Keeps(rec'[j], rec[j], j[2], proc[j[1]])
  BY <1>1, Untouched
<1>3. \A a \in Apps : SameProcess(proc'[a], proc[a])
  BY StayOrderly
<1>4. DOMAIN proc' = Apps
  BY DEF Orderly
<1> QED
  BY <1>2, <1>3, <1>4, QuietSteps

\* One thread is given harmless requests and otherwise stays as it is.
LEMMA OneRequest ==
    ASSUME Orderly(proc, rec), NEW k \in Key, proc' = proc, DOMAIN rec' = Key,
           \A j \in Key \ {k} : rec'[j] = rec[j],
           DOMAIN rec'[k] = DOMAIN rec[k], Harmlessly(rec'[k].todo), rec'[k].wait = rec[k].wait,
           rec'[k].state = rec[k].state \/ rec'[k].state # "run",
           rec'[k].word = rec[k].word, rec'[k].tid = rec[k].tid
    PROVE  Orderly(proc', rec')
<1>1. Recorded(rec[k], k[2], proc[k[1]].threads)
  BY DEF Orderly
<1>2. IsRecorder(rec'[k])
  BY <1>1 DEF Recorded, IsRecorder, Harmlessly
<1>3. Keeps(rec'[k], rec[k], k[2], proc[k[1]])
  BY <1>1, <1>2, NextRequests
<1> QED
  BY <1>3, OneThread

\* What EmulateSyscall writes before the call itself.
Preamble(k) ==
    (IF rec[k].info THEN <<[type |-> "Emu"]>> ELSE <<>>)
    \o (IF rec[k].reported > 0 THEN <<[Count(rec[k].reported) EXCEPT !.apply = FALSE]>> ELSE <<>>)
LEMMA CountHarmless ==
    ASSUME NEW n
    PROVE  /\ Harmless(Count(n)) /\ Harmless(Sync) /\ Harmless([Count(n) EXCEPT !.apply = FALSE])
           /\ Harmless([type |-> "Emu"]) /\ Harmless([type |-> "End"]) /\ Harmless([type |-> "Output"])
           /\ Harmless([type |-> "Fork"])
<1>1. Harmless([Count(n) EXCEPT !.apply = FALSE])
  BY DEF Count, Harmless
<1> QED
  BY <1>1 DEF Count, Sync, Harmless
LEMMA CallHarmless ==
    ASSUME NEW kind, kind # "futex_wake", NEW word
    PROVE  Harmless(Syscall(kind, word))
  BY DEF Syscall, Harmless
LEMMA PreambleHarmless ==
    ASSUME NEW k
    PROVE  Harmlessly(Preamble(k))
<1> DEFINE a == IF rec[k].info THEN <<[type |-> "Emu"]>> ELSE <<>>
           b == IF rec[k].reported > 0 THEN <<[Count(rec[k].reported) EXCEPT !.apply = FALSE]>> ELSE <<>>
<1>1. Harmlessly(a) /\ Harmlessly(b)
  BY CountHarmless, HarmlessOne, HarmlessNone
<1>2. Preamble(k) = a \o b
  BY DEF Preamble
<1> HIDE DEF a, b
<1> QED
  BY <1>1, <1>2, ConcatHarmlessly
LEMMA CallsHarmless ==
    ASSUME NEW k, NEW q, Harmlessly(q)
    PROVE  Harmlessly(EmulateSyscall(k, q))
<1>1. EmulateSyscall(k, q) = Preamble(k) \o q
  BY DEF EmulateSyscall, Preamble
<1> QED
  BY <1>1, PreambleHarmless, ConcatHarmlessly

\* The parts of the state before a step of thread k.
LEMMA BeforeStep ==
    ASSUME Orderly(proc, rec), NEW k \in Key
    PROVE  /\ DOMAIN rec = Key /\ DOMAIN proc = Apps /\ IsRecorder(rec[k]) /\ k[1] \in Apps
           /\ IsProcess(proc[k[1]])
  BY Keys DEF Orderly, Recorded, Cloning

\* Instructions, and magic instructions.
LEMMA ExecutesKeeps ==
    ASSUME Orderly(proc, rec), NEW k \in Key,
           \/ CountInsns(k) \/ SendCacheOnly(k) \/ SendOne(k)
           \/ \E cmd \in {"roi_start", "roi_end", "warmup"} : Magic(k, cmd)
    PROVE  Orderly(proc', rec')
<1>1. DOMAIN rec = Key /\ IsRecorder(rec[k])
  BY BeforeStep
<1>2. \A n : Harmlessly(<<Count(n)>>) /\ Harmlessly(<<Sync>>) /\ Harmlessly(<<>>)
  BY CountHarmless, HarmlessOne, HarmlessNone
<1>3. \A cmd : Harmlessly(<<[type |-> "Magic", cmd |-> cmd]>>)
  <2> TAKE cmd
  <2>1. Harmless([type |-> "Magic", cmd |-> cmd])
    BY DEF Harmless
  <2> QED
    BY <2>1, HarmlessOne
<1> DEFINE Only == /\ proc' = proc /\ DOMAIN rec' = Key /\ \A j \in Key \ {k} : rec'[j] = rec[j]
                   /\ DOMAIN rec'[k] = DOMAIN rec[k] /\ rec'[k].wait = rec[k].wait
                   /\ rec'[k].state = rec[k].state /\ rec'[k].word = rec[k].word /\ rec'[k].tid = rec[k].tid
                   /\ Harmlessly(rec'[k].todo)
<1>4. CASE CountInsns(k)
  <2> DEFINE n == rec[k].reported + 1
  <2>1. /\ proc' = proc
        /\ rec' = [rec EXCEPT ![k].left = @ - 1, ![k].reported = IF n > config.ff THEN 0 ELSE n,
                              ![k].todo = IF n > config.ff THEN <<Count(n)>> ELSE <<>>]
    BY <1>4 DEF CountInsns
  <2> HIDE DEF n
  <2> QED
    BY <1>1, <1>2, <2>1, OneRequest DEF IsRecorder
<1>5. CASE SendCacheOnly(k)
  <2> DEFINE n == rec[k].reported + 1
  <2>1. /\ proc' = proc
        /\ rec' = [rec EXCEPT ![k].left = @ - 1, ![k].reported = IF n > config.ff THEN 0 ELSE n,
                              ![k].todo = IF n > config.ff THEN <<Sync>> ELSE <<>>]
    BY <1>5 DEF SendCacheOnly
  <2> HIDE DEF n
  <2> QED
    BY <1>1, <1>2, <2>1, OneRequest DEF IsRecorder
<1>6. ASSUME NEW ins, NEW present, SendInstruction(k, ins, present) PROVE Orderly(proc', rec')
  <2> DEFINE n == rec[k].icount + 1
             w == AfterInstruction(rec[k].writer, ins, config, present)
  <2>1. /\ proc' = proc
        /\ rec' = [rec EXCEPT ![k].left = @ - 1, ![k].icount = IF n > config.flow THEN 0 ELSE n,
                              ![k].writer = AfterInstruction(@, ins, config, present),
                              ![k].todo = IF n > config.flow THEN <<Sync>> ELSE <<>>]
    BY <1>6 DEF SendInstruction
  <2> HIDE DEF n
  <2> QED
    BY <1>1, <1>2, <2>1, OneRequest DEF IsRecorder
<1>7. ASSUME NEW cmd, Magic(k, cmd) PROVE Orderly(proc', rec')
  <2>1. /\ proc' = proc
        /\ rec' = [rec EXCEPT ![k].left = @ - 1, ![k].todo = <<[type |-> "Magic", cmd |-> cmd]>>]
    BY <1>7 DEF Magic
  <2> QED
    BY <1>1, <1>3, <2>1, OneRequest DEF IsRecorder
<1> QED
  BY <1>4, <1>5, <1>6, <1>7 DEF SendOne

\* System calls other than the creation of a thread.
LEMMA SystemCallKeeps ==
    ASSUME Orderly(proc, rec), NEW k \in Key, NEW q, Harmlessly(q), SystemCall(k, q)
    PROVE  Orderly(proc', rec')
<1> DEFINE t == EmulateSyscall(k, q)
<1>1. DOMAIN rec = Key /\ IsRecorder(rec[k])
  BY BeforeStep
<1>2. Harmlessly(t)
  BY CallsHarmless
<1>3. /\ proc' = proc
      /\ rec' = [rec EXCEPT ![k].left = @ - 1, ![k].reported = 0, ![k].info = FALSE, ![k].todo = t]
  BY DEF SystemCall
<1> HIDE DEF t
<1> QED
  BY <1>1, <1>2, <1>3, OneRequest DEF IsRecorder
LEMMA CallsKeep ==
    ASSUME Orderly(proc, rec), NEW k \in Key,
           \/ BlockingCall(k) \/ WriteCall(k) \/ Fork(k) \/ ExitGroup(k)
           \/ \E word \in 1 .. MaxThreads : Join(k, word)
    PROVE  Orderly(proc', rec')
<1>1. \A kind, word : kind # "futex_wake" => Harmlessly(<<Syscall(kind, word)>>)
  BY CallHarmless, HarmlessOne
<1>2. CASE BlockingCall(k)
  BY <1>1, <1>2, SystemCallKeeps DEF BlockingCall
<1>3. CASE WriteCall(k)
  <2> DEFINE o == [type |-> "Output"]
             s == Syscall("write", NoWord)
  <2>1. SystemCall(k, <<o, s>>)
    BY <1>3 DEF WriteCall
  <2>2. Harmless(o) /\ Harmless(s)
    BY CountHarmless, CallHarmless
  <2> HIDE DEF o, s
  <2>3. <<o, s>> \in Seq({o, s}) /\ DOMAIN <<o, s>> = {1, 2} /\ <<o, s>>[1] = o /\ <<o, s>>[2] = s
    OBVIOUS
  <2>4. Harmlessly(<<o, s>>)
    BY <2>2, <2>3, AnySeq DEF Harmlessly
  <2> QED
    BY <2>1, <2>4, SystemCallKeeps
<1>4. CASE Fork(k)
  <2>1. Harmlessly(<<[type |-> "Fork"]>>)
    BY CountHarmless, HarmlessOne
  <2> QED
    BY <1>4, <2>1, SystemCallKeeps DEF Fork
<1>5. CASE ExitGroup(k)
  <2> DEFINE t == EmulateSyscall(k, <<Syscall("exit_group", NoWord)>>)
  <2>1. DOMAIN rec = Key /\ IsRecorder(rec[k])
    BY BeforeStep
  <2>2. Harmlessly(t)
    BY <1>1, CallsHarmless
  <2>3. proc' = proc /\ rec' = [rec EXCEPT ![k].reported = 0, ![k].info = FALSE, ![k].todo = t]
    BY <1>5 DEF ExitGroup
  <2> HIDE DEF t
  <2> QED
    BY <2>1, <2>2, <2>3, OneRequest DEF IsRecorder
<1>6. ASSUME NEW word, Join(k, word) PROVE Orderly(proc', rec')
  BY <1>1, <1>6, SystemCallKeeps DEF Join
<1> QED
  BY <1>2, <1>3, <1>4, <1>5, <1>6

\* A thread returns: it will clear its own word.
LEMMA FinishKeeps ==
    ASSUME Orderly(proc, rec), NEW k \in Key, Finish(k)
    PROVE  Orderly(proc', rec')
<1> DEFINE e == [type |-> "End"]
           w == Syscall("futex_wake", rec[k].tid)
           f == FinishRequests(k)
           t == EmulateSyscall(k, <<>>) \o f
<1>1. DOMAIN rec = Key /\ IsRecorder(rec[k]) /\ Recorded(rec[k], k[2], proc[k[1]].threads)
  BY BeforeStep DEF Orderly
<1>2. proc' = proc /\ rec' = [rec EXCEPT ![k].state = "finish", ![k].todo = t] /\ k[2] # 0
  BY DEF Finish
<1>3. Harmlessly(EmulateSyscall(k, <<>>))
  BY HarmlessNone, CallsHarmless
<1>4. Harmless(e)
  BY CountHarmless
<1>5. CASE rec[k].tid = NoWord
  <2>1. f = <<>> \o <<e>>
    BY <1>5 DEF FinishRequests
  <2>2. Harmlessly(<<>>) /\ Harmlessly(<<e>>)
    BY <1>4, HarmlessOne, HarmlessNone
  <2> HIDE DEF e, f
  <2>3. Harmlessly(f)
    BY <2>1, <2>2, ConcatHarmlessly
  <2>4. Harmlessly(t)
    BY <1>3, <2>3, ConcatHarmlessly
  <2> HIDE DEF t
  <2> QED
    BY <1>1, <1>2, <2>4, OneRequest DEF IsRecorder
<1>6. CASE rec[k].tid # NoWord
  <2>1. f = <<w>> \o <<e>>
    BY <1>6 DEF FinishRequests
  <2> DEFINE a == EmulateSyscall(k, <<>>)
  <2>2. ClearsWord(w, rec[k].tid)
    BY DEF ClearsWord, Syscall
  <2> HIDE DEF e, f, w, a
  <2>3. IsSeq(<<w>>) /\ DOMAIN <<w>> = {1} /\ <<w>>[1] = w /\ Len(<<w>>) = 1
    BY OneSeq
  <2>4. IsSeq(<<e>>) /\ DOMAIN <<e>> = {1} /\ <<e>>[1] = e /\ Len(<<e>>) = 1
    BY OneSeq
  <2>5. /\ IsSeq(<<w>> \o <<e>>) /\ Len(<<w>> \o <<e>>) = Len(<<w>>) + Len(<<e>>)
        /\ \A i \in 1 .. Len(<<w>>) + Len(<<e>>) :
               (<<w>> \o <<e>>)[i] = IF i <= Len(<<w>>) THEN <<w>>[i] ELSE <<e>>[i - Len(<<w>>)]
    BY <2>3, <2>4, ConcatSeq
  <2>6. IsSeq(f) /\ Len(f) = 2 /\ f[1] = w /\ f[2] = e
    BY <2>1, <2>3, <2>4, <2>5
  <2>8. IsSeq(a) /\ (\A i \in DOMAIN a : Harmless(a[i])) /\ t = a \o f
    BY <1>3 DEF Harmlessly, a
  <2>7. /\ IsSeq(a \o f) /\ Len(a) \in Nat /\ DOMAIN a = 1 .. Len(a) /\ DOMAIN (a \o f) = 1 .. Len(a) + Len(f)
        /\ \A i \in 1 .. Len(a) + Len(f) : (a \o f)[i] = IF i <= Len(a) THEN a[i] ELSE f[i - Len(a)]
    BY <2>6, <2>8, ConcatSeq
  <2> HIDE DEF t
  <2>9. /\ IsSeq(t) /\ Len(a) \in Nat /\ DOMAIN a = 1 .. Len(a) /\ DOMAIN t = 1 .. Len(a) + 2
        /\ \A i \in 1 .. Len(a) + 2 : t[i] = IF i <= Len(a) THEN a[i] ELSE f[i - Len(a)]
    BY <2>6, <2>7, <2>8
  <2>10. ASSUME NEW i \in DOMAIN t PROVE Harmless(t[i]) \/ t[i] = w
    <3>1. CASE i <= Len(a)
      BY <2>8, <2>9, <3>1
    <3>2. CASE ~(i <= Len(a))
      <4>1. PICK j : j = i - Len(a) /\ j \in {1, 2}
        BY <2>9, <3>2
      <4> QED
        BY <1>4, <2>6, <2>9, <3>2, <4>1
    <3> QED
      BY <3>1, <3>2
  <2> DEFINE s == rec'[k]
  <2>11. /\ DOMAIN rec' = Key /\ \A j \in Key \ {k} : rec'[j] = rec[j]
    BY <1>1, <1>2
  <2>12. /\ DOMAIN s = DOMAIN rec[k] /\ s.todo = t /\ s.wait = rec[k].wait /\ s.state = "finish"
         /\ s.word = rec[k].word /\ s.tid = rec[k].tid
    BY <1>1, <1>2 DEF IsRecorder
  <2> HIDE DEF s
  <2>13. IsRecorder(s)
    BY <1>1, <2>9, <2>12 DEF IsRecorder
  <2>14. w.type # "NewThread"
    BY <2>2 DEF ClearsWord
  <2>15. ~HasClone(s.todo)
    BY <2>10, <2>12, <2>14 DEF HasClone, Harmless
  <2>16. \A i \in DOMAIN s.todo : MayWrite(s, k[2], i)
    BY <1>1, <1>6, <2>2, <2>10, <2>12 DEF MayWrite, Recorded
  <2>17. Keeps(s, rec[k], k[2], proc[k[1]])
    BY <1>1, <2>12, <2>13, <2>15, <2>16 DEF Keeps, Recorded
  <2> QED
    BY <1>2, <2>11, <2>17, OneThread DEF s
<1> QED
  BY <1>5, <1>6

\* The request returns and the thread goes on.
LEMMA WaitIsOver ==
    ASSUME NEW r, NEW n, NEW p, Recorded(r, n, p.threads)
    PROVE  LET s == [r EXCEPT !.wait = Idle] IN Keeps(s, r, n, p)
<1> DEFINE s == [r EXCEPT !.wait = Idle]
<1>1. /\ IsRecorder(r) /\ DOMAIN s = DOMAIN r /\ s.todo = r.todo /\ s.state = r.state /\ s.word = r.word
      /\ s.tid = r.tid /\ s.wait.type # "NewThread"
  BY DEF Recorded, IsRecorder, Idle
<1> HIDE DEF s
<1>2. IsRecorder(s)
  BY <1>1 DEF IsRecorder
<1>3. \A i \in DOMAIN s.todo : MayWrite(s, n, i)
  BY <1>1 DEF Recorded, MayWrite
<1>4. Recorded(s, n, p.threads)
  BY <1>1, <1>2, <1>3 DEF Recorded
<1>5. Keeps(s, r, n, p)
  BY <1>1, <1>4 DEF Keeps
<1> QED
  BY <1>5 DEF s

\* A thread that ends writes nothing but harmless requests.
LEMMA EndsHarmlessly ==
    ASSUME NEW r, NEW n, NEW p, Recorded(r, n, p.threads), NEW t, Harmlessly(t)
    PROVE  /\ Keeps([r EXCEPT !.state = "finish", !.wait = Idle, !.todo = t], r, n, p)
           /\ Keeps([[r EXCEPT !.wait = Idle] EXCEPT !.state = "finish", !.todo = t], r, n, p)
<1> DEFINE s == [r EXCEPT !.state = "finish", !.wait = Idle, !.todo = t]
           u == [[r EXCEPT !.wait = Idle] EXCEPT !.state = "finish", !.todo = t]
<1>1. IsRecorder(r) /\ IsSeq(t)
  BY DEF Recorded, Harmlessly
<1>2. /\ DOMAIN s = DOMAIN r /\ s.todo = t /\ s.state # "run" /\ s.word = r.word
      /\ s.tid = r.tid /\ s.wait.type # "NewThread"
  BY <1>1 DEF IsRecorder, Idle
<1>3. /\ DOMAIN u = DOMAIN r /\ u.todo = t /\ u.state # "run" /\ u.word = r.word
      /\ u.tid = r.tid /\ u.wait.type # "NewThread"
  BY <1>1 DEF IsRecorder, Idle
<1> HIDE DEF s, u
<1>4. IsRecorder(s) /\ IsRecorder(u)
  BY <1>1, <1>2, <1>3 DEF IsRecorder
<1>5. Keeps(s, r, n, p) /\ Keeps(u, r, n, p)
  BY <1>2, <1>3, <1>4, NextRequests
<1> QED
  BY <1>5 DEF s, u

\* A thread without a word that starts.
LEMMA StartsAnew ==
    ASSUME NEW s, NEW r, NEW p, IsRecorder(s), s.todo = <<>>, s.wait = Idle, s.word = NoWord, s.tid = NoWord
    PROVE  Keeps(s, r, 0, p)
<1>1. ~HasClone(s.todo) /\ \A i \in DOMAIN s.todo : MayWrite(s, 0, i)
  BY NoSeq DEF HasClone
<1>2. s.wait.type # "NewThread"
  BY DEF Idle
<1> QED
  BY <1>1, <1>2 DEF Keeps, Recorded

-----------------------------------------------------------------------------
(* The creation and the end of threads.                                     *)

\* A step that concerns one application.
LEMMA AppStep ==
    ASSUME Orderly(proc, rec), NEW a \in Apps, NEW p, proc' = [proc EXCEPT ![a] = p], DOMAIN rec' = Key,
           \A j \in Key : j[1] # a => rec'[j] = rec[j],
           \A j \in Key : j[1] = a => Recorded(rec'[j], j[2], p.threads) /\ Alive(rec'[j], p),
           Cloning(p, rec'[<<a, 0>>])
    PROVE  Orderly(proc', rec')
<1>1. DOMAIN proc' = Apps /\ proc'[a] = p /\ \A b \in Apps \ {a} : proc'[b] = proc[b]
  BY DEF Orderly
<1>2. ASSUME NEW j \in Key PROVE Recorded(rec'[j], j[2], proc'[j[1]].threads) /\ Alive(rec'[j], proc'[j[1]])
  <2>1. CASE j[1] = a
    BY <1>1, <2>1
  <2>2. CASE j[1] # a
    BY <1>1, <2>2, Keys DEF Orderly
  <2> QED
    BY <2>1, <2>2
<1>3. ASSUME NEW b \in Apps PROVE Cloning(proc'[b], rec'[<<b, 0>>])
  <2>1. CASE b = a
    BY <1>1, <2>1
  <2>2. CASE b # a
    BY <1>1, <2>2, Keys DEF Orderly
  <2> QED
    BY <2>1, <2>2
<1> QED
  BY <1>1, <1>2, <1>3 DEF Orderly

LEMMA CloneKeeps ==
    ASSUME Orderly(proc, rec), ~config.racing, NEW k \in Key, Clone(k)
    PROVE  Orderly(proc', rec')
<1> DEFINE x == [type |-> "NewThread"]
           t == EmulateSyscall(k, <<x>>)
           s == rec'[k]
           p == proc[k[1]]
<1>1. DOMAIN rec = Key /\ IsRecorder(rec[k]) /\ IsProcess(p) /\ Recorded(rec[k], k[2], p.threads)
  BY BeforeStep DEF Orderly
<1>2. /\ proc' = proc /\ k[2] = 0 /\ p.clones = p.threads - 1
      /\ rec' = [rec EXCEPT ![k].left = @ - 1, ![k].reported = 0, ![k].info = FALSE, ![k].todo = t]
  BY DEF Clone, SystemCall
<1>3. t = Preamble(k) \o <<x>>
  BY DEF EmulateSyscall, Preamble
<1>4. x.type = "NewThread"
  OBVIOUS
<1> HIDE DEF x, t, p
<1>5. IsSeq(t) /\ \A i \in DOMAIN t : Harmless(t[i]) \/ (t[i] = x /\ i = Len(t))
  BY <1>3, PreambleHarmless, ConcatOne
<1>6. /\ DOMAIN rec' = Key /\ \A j \in Key \ {k} : rec'[j] = rec[j]
  BY <1>1, <1>2
<1>7. /\ DOMAIN s = DOMAIN rec[k] /\ s.todo = t /\ s.wait = rec[k].wait /\ s.state = rec[k].state
      /\ s.word = rec[k].word /\ s.tid = rec[k].tid
  BY <1>1, <1>2 DEF IsRecorder
<1> HIDE DEF s
<1>8. IsRecorder(s)
  BY <1>1, <1>5, <1>7 DEF IsRecorder
<1>9. \A i \in DOMAIN s.todo : MayWrite(s, k[2], i)
  BY <1>2, <1>4, <1>5, <1>7 DEF MayWrite
<1>10. p.threads = p.clones + 1
  BY <1>1, <1>2 DEF IsProcess
<1>11. Keeps(s, rec[k], k[2], p)
  BY <1>1, <1>7, <1>8, <1>9, <1>10 DEF Keeps, Recorded
<1> QED
  BY <1>2, <1>6, <1>11, OneThread DEF s, p

LEMMA ThreadStartKeeps ==
    ASSUME Orderly(proc, rec), NEW a \in Apps, NEW word, ThreadStart(a, word)
    PROVE  Orderly(proc', rec')
<1> DEFINE p == proc[a]
           k == <<a, p.threads>>
           q == [p EXCEPT !.cloned = @ \ {word}, !.tidptrs = Tail(@), !.threads = @ + 1]
           n == NewRecorder(word, Head(p.tidptrs))
           m == <<a, 0>>
<1>1. /\ word \in p.cloned /\ rec' = [rec EXCEPT ![k] = n]
      /\ proc' = [proc EXCEPT ![a].cloned = @ \ {word}, ![a].tidptrs = Tail(@), ![a].threads = @ + 1]
  BY DEF ThreadStart
<1>2. DOMAIN rec = Key /\ DOMAIN proc = Apps /\ Cloning(p, rec[m]) /\ IsProcess(p) /\ m \in Key /\ m[1] = a
  BY Keys DEF Orderly, Cloning
<1>3. OneToStart(p, rec[m])
  BY <1>1, <1>2 DEF Cloning, AllStarted
<1>4. /\ word = p.clones /\ p.threads = p.clones /\ p.tidptrs = <<word>> /\ p.cloned = {word}
      /\ word \in p.words /\ rec[m].wait.type # "NewThread"
  BY <1>1, <1>3 DEF OneToStart
<1>5. Head(<<word>>) = word /\ Tail(<<word>>) = <<>>
  OBVIOUS
<1>6. proc' = [proc EXCEPT ![a] = q]
  BY <1>1, <1>2
<1>7. /\ IsProcess(q) /\ q.threads = p.threads + 1 /\ q.clones = p.clones /\ q.tidptrs = <<>> /\ q.cloned = {}
      /\ q.words = p.words
  BY <1>2, <1>4, <1>5 DEF IsProcess
<1>8. IsRecorder(n) /\ n.word = word /\ n.tid = word /\ n.todo = <<>> /\ n.wait.type # "NewThread"
  BY <1>4, <1>5, NoSeq DEF NewRecorder, IsRecorder, Idle
<1>9. p.threads \in Nat /\ p.threads > 0
  BY <1>2 DEF IsProcess
<1>10. k[1] = a /\ k[2] = p.threads /\ k # m
  BY <1>9
<1> HIDE DEF q, n, p
<1>11. Recorded(n, k[2], q.threads)
  <2>1. \A i \in DOMAIN n.todo : MayWrite(n, k[2], i)
    BY <1>8, NoSeq
  <2>2. n.word \in {NoWord, k[2]} /\ k[2] < q.threads
    BY <1>4, <1>7, <1>8, <1>9
  <2> QED
    BY <1>8, <2>1, <2>2 DEF Recorded
<1>12. \A j \in Key : rec'[j] = IF j = k THEN n ELSE rec[j]
  BY <1>1, <1>2
<1>13. ASSUME NEW j \in Key, j[1] = a PROVE Recorded(rec'[j], j[2], q.threads) /\ Alive(rec'[j], q)
  <2>1. CASE j = k
    BY <1>4, <1>7, <1>8, <1>11, <1>12, <2>1 DEF Alive
  <2>2. CASE j # k
    <3>1. Recorded(rec[j], j[2], p.threads) /\ Alive(rec[j], p) /\ j[2] \in Nat
      BY <1>13, Keys DEF Orderly, p
    <3>2. rec[j].word # NoWord => j[2] < q.threads
      BY <1>7, <1>9, <3>1 DEF Recorded
    <3> QED
      BY <1>7, <1>12, <2>2, <3>1, <3>2 DEF Recorded, Alive
  <2> QED
    BY <2>1, <2>2
<1>14. Cloning(q, rec'[m])
  BY <1>2, <1>4, <1>7, <1>10, <1>12 DEF Cloning, AllStarted
<1>15. DOMAIN rec' = Key /\ \A j \in Key : j[1] # a => rec'[j] = rec[j]
  BY <1>1, <1>2, <1>10, <1>12
<1> QED
  BY <1>6, <1>13, <1>14, <1>15, AppStep

\* The first request of a thread is written.
LEMMA HeadWritten ==
    ASSUME NEW r, NEW s, NEW n, NEW threads, Recorded(r, n, threads), r.todo # <<>>, IsRecorder(s),
           s.todo = Tail(r.todo), s.word = r.word, s.tid = r.tid, r.state # "run" => s.state # "run",
           n # 0 => s.wait.type # "NewThread"
    PROVE  Recorded(s, n, threads) /\ (HasClone(s.todo) => HasClone(r.todo))
<1> DEFINE q == r.todo
           t == s.todo
<1>1. IsSeq(q)
  BY DEF Recorded, IsRecorder
<1>2. /\ Len(q) \in Nat /\ DOMAIN t = 1 .. Len(q) - 1 /\ Len(t) = Len(q) - 1
      /\ \A i \in DOMAIN t : i + 1 \in DOMAIN q /\ t[i] = q[i + 1]
  BY <1>1, TailSeq
<1>3. \A i \in DOMAIN q : MayWrite(r, n, i)
  BY DEF Recorded
<1>4. ASSUME NEW i \in DOMAIN t PROVE MayWrite(s, n, i)
  <2>1. PICK j : j = i + 1 /\ j \in DOMAIN q /\ t[i] = q[j]
    BY <1>2
  <2>2. MayWrite(r, n, j)
    BY <1>3, <2>1
  <2>3. j = Len(q) => i = Len(t)
    BY <1>2, <2>1
  <2> QED
    BY <2>1, <2>2, <2>3 DEF MayWrite
<1>5. HasClone(t) => HasClone(q)
  BY <1>2 DEF HasClone
<1>6. Recorded(s, n, threads)
  BY <1>4 DEF Recorded
<1> QED
  BY <1>5, <1>6

\* What Write does to the thread and to its process.
WrittenBy(k, h) ==
    IF h.type = "NewThread" THEN [type |-> "NewThread", word |-> proc[k[1]].clones + 1] ELSE h
LEMMA WriteStep ==
    ASSUME Orderly(proc, rec), NEW k \in Key, Write(k)
    PROVE  LET h == Head(rec[k].todo)
               x == WrittenBy(k, h)
               s == rec'[k]
               p == proc[k[1]]
           IN  /\ DOMAIN rec' = Key /\ \A j \in Key \ {k} : rec'[j] = rec[j]
               /\ rec[k].todo # <<>> /\ IsRecorder(s) /\ s.todo = Tail(rec[k].todo) /\ s.word = rec[k].word
               /\ s.tid = rec[k].tid /\ (rec[k].state # "run" => s.state # "run")
               /\ (s.state = "run" => rec[k].state = "run")
               /\ s.wait = IF x.type \in Awaited THEN x ELSE rec[k].wait
               /\ proc' = IF x.type = "NewThread"
                          THEN [proc EXCEPT ![k[1]] = [p EXCEPT !.tidptrs = Append(@, p.clones + 1),
                                                         !.words = @ \cup {p.clones + 1},
                                                         !.clones = p.clones + 1]]
                          ELSE IF x.type = "Syscall" /\ x.kind = "futex_wake"
                          THEN [proc EXCEPT ![k[1]] = [p EXCEPT !.words = @ \ {x.word}]]
                          ELSE proc
<1> DEFINE h == Head(rec[k].todo)
           x == WrittenBy(k, h)
           s == rec'[k]
           p == proc[k[1]]
<1>1. DOMAIN rec = Key /\ DOMAIN proc = Apps /\ IsRecorder(rec[k]) /\ k[1] \in Apps /\ IsProcess(p)
  BY BeforeStep
<1>2. /\ rec[k].todo # <<>>
      /\ rec' = [rec EXCEPT ![k].todo = Tail(@), ![k].wait = IF x.type \in Awaited THEN x ELSE @,
                            ![k].state = IF x.type = "End" THEN "ended" ELSE @]
      /\ proc' = CASE x.type = "NewThread" ->
                        [proc EXCEPT ![k[1]].tidptrs = Append(@, p.clones + 1),
                                     ![k[1]].words = @ \cup {p.clones + 1},
                                     ![k[1]].clones = p.clones + 1]
                   [] x.type = "Syscall" /\ x.kind = "futex_wake" ->
                        [proc EXCEPT ![k[1]].words = @ \ {x.word}]
                   [] OTHER -> proc
  BY DEF Write, WrittenBy
<1> HIDE DEF x
<1>3. DOMAIN rec' = Key /\ \A j \in Key \ {k} : rec'[j] = rec[j]
  BY <1>1, <1>2
<1>4. /\ s.todo = Tail(rec[k].todo) /\ s.word = rec[k].word /\ DOMAIN s = DOMAIN rec[k]
      /\ s.tid = rec[k].tid /\ s.state = IF x.type = "End" THEN "ended" ELSE rec[k].state
      /\ s.wait = IF x.type \in Awaited THEN x ELSE rec[k].wait
  BY <1>1, <1>2 DEF IsRecorder
<1>5. IsSeq(rec[k].todo)
  BY <1>1 DEF IsRecorder
<1>6. IsSeq(Tail(rec[k].todo))
  BY <1>2, <1>5, TailSeq
<1> HIDE DEF s
<1>7. IsRecorder(s)
  BY <1>1, <1>4, <1>6 DEF IsRecorder
<1> HIDE DEF p
<1>8. proc' = IF x.type = "NewThread"
              THEN [proc EXCEPT ![k[1]] = [p EXCEPT !.tidptrs = Append(@, p.clones + 1),
                                             !.words = @ \cup {p.clones + 1}, !.clones = p.clones + 1]]
              ELSE IF x.type = "Syscall" /\ x.kind = "futex_wake"
              THEN [proc EXCEPT ![k[1]] = [p EXCEPT !.words = @ \ {x.word}]]
              ELSE proc
  <2>1. CASE x.type = "NewThread"
    BY <1>1, <1>2, <2>1 DEF p
  <2>2. CASE x.type # "NewThread" /\ x.type = "Syscall" /\ x.kind = "futex_wake"
    BY <1>1, <1>2, <2>2 DEF p
  <2>3. CASE x.type # "NewThread" /\ ~(x.type = "Syscall" /\ x.kind = "futex_wake")
    BY <1>1, <1>2, <2>3
  <2> QED
    BY <2>1, <2>2, <2>3
<1>9. /\ rec[k].state # "run" => s.state # "run"
      /\ s.state = "run" => rec[k].state = "run"
  BY <1>4
<1> QED
  BY <1>2, <1>3, <1>4, <1>7, <1>8, <1>9, Zenon DEF s, p, x

LEMMA WriteKeeps ==
    ASSUME Orderly(proc, rec), NEW k \in Key, Write(k)
    PROVE  Orderly(proc', rec')
<1> DEFINE r == rec[k]
           h == Head(r.todo)
           x == WrittenBy(k, h)
           s == rec'[k]
           a == k[1]
           p == proc[a]
           m == <<a, 0>>
           word == p.clones + 1
<1>1. /\ DOMAIN rec' = Key /\ \A j \in Key \ {k} : rec'[j] = rec[j]
      /\ r.todo # <<>> /\ IsRecorder(s) /\ s.todo = Tail(r.todo) /\ s.word = r.word
      /\ s.tid = r.tid /\ (r.state # "run" => s.state # "run") /\ (s.state = "run" => r.state = "run")
      /\ s.wait = IF x.type \in Awaited THEN x ELSE r.wait
      /\ proc' = IF x.type = "NewThread"
                 THEN [proc EXCEPT ![a] = [p EXCEPT !.tidptrs = Append(@, word),
                                             !.words = @ \cup {word}, !.clones = word]]
                 ELSE IF x.type = "Syscall" /\ x.kind = "futex_wake"
                 THEN [proc EXCEPT ![a] = [p EXCEPT !.words = @ \ {x.word}]]
                 ELSE proc
  BY WriteStep
<1>2. /\ Recorded(r, k[2], p.threads) /\ a \in Apps /\ IsProcess(p) /\ Cloning(p, rec[m]) /\ m \in Key
      /\ m[1] = a /\ k[2] \in Nat /\ (k[2] = 0 => k = m)
  BY BeforeStep, Keys DEF Orderly
<1>3. IsSeq(r.todo)
  BY <1>2 DEF Recorded, IsRecorder
<1>4. h = r.todo[1] /\ 1 \in DOMAIN r.todo /\ Len(r.todo) \in Nat /\ DOMAIN s.todo = 1 .. Len(r.todo) - 1
  BY <1>1, <1>3, TailSeq
<1>5. MayWrite(r, k[2], 1)
  BY <1>2, <1>4 DEF Recorded
<1>6. /\ h.type = "NewThread" => x.type = "NewThread" /\ x.word = word
      /\ h.type # "NewThread" => x = h
  BY DEF WrittenBy
<1>7. "NewThread" \in Awaited
  BY DEF Awaited
<1>8. p.clones \in Nat /\ p.threads \in Nat
  BY <1>2 DEF IsProcess
<1> SUFFICES Orderly(proc', rec')
  OBVIOUS
<1> HIDE DEF x, h, s, r
<1>9. k[2] # 0 => s.wait.type # "NewThread"
  BY <1>1, <1>2, <1>4, <1>5, <1>6 DEF MayWrite, Harmless, ClearsWord, Recorded
<1>10. Recorded(s, k[2], p.threads) /\ (HasClone(s.todo) => HasClone(r.todo))
  <2> DEFINE n == k[2]
             threads == p.threads
  <2>1. /\ Recorded(r, n, threads) /\ r.todo # <<>> /\ IsRecorder(s) /\ s.todo = Tail(r.todo)
        /\ s.word = r.word /\ s.tid = r.tid /\ (r.state # "run" => s.state # "run")
        /\ (n # 0 => s.wait.type # "NewThread")
    BY <1>1, <1>2, <1>9, Zenon
  <2> HIDE DEF n, threads
  <2>2. Recorded(s, n, threads) /\ (HasClone(s.todo) => HasClone(r.todo))
    BY <2>1, HeadWritten
  <2> QED
    BY <2>2 DEF n, threads
<1>11. CASE Harmless(h)
  <2>1. x = h /\ proc' = proc /\ x.type # "NewThread"
    BY <1>1, <1>6, <1>11 DEF Harmless
  <2>2. s.wait = r.wait \/ s.wait.type # "NewThread"
    BY <1>1, <2>1
  <2>3. Keeps(s, r, k[2], p)
    BY <1>1, <1>10, <2>2 DEF Keeps
  <2> QED
    BY <1>1, <2>1, <2>3, OneThread DEF s, r
<1>12. CASE h.type = "NewThread"
  <2> DEFINE q == [p EXCEPT !.tidptrs = Append(@, word), !.words = @ \cup {word}, !.clones = word]
  <2>1. k[2] = 0 /\ Len(r.todo) = 1 /\ k = m
    BY <1>2, <1>4, <1>5, <1>12 DEF MayWrite, Harmless, ClearsWord
  <2>2. DOMAIN s.todo = {}
    BY <1>4, <2>1
  <2>3. HasClone(rec[m].todo)
    BY <1>4, <1>12, <2>1 DEF HasClone, r
  <2>4. AllStarted(p, rec[m])
    BY <1>2, <2>3 DEF Cloning, OneToStart
  <2>5. p.threads = word /\ p.tidptrs = <<>> /\ p.cloned = {}
    BY <2>4 DEF AllStarted
  <2>6. Append(<<>>, word) = <<word>>
    OBVIOUS
  <2>7. proc' = [proc EXCEPT ![a] = q]
    BY <1>1, <1>6, <1>12
  <2>8. /\ IsProcess(q) /\ q.threads = p.threads /\ q.clones = word /\ q.tidptrs = <<word>> /\ q.cloned = {}
        /\ q.words = p.words \cup {word}
    BY <1>2, <1>8, <2>5, <2>6 DEF IsProcess
  <2>9. s.wait = x /\ s.wait.word = word
    BY <1>1, <1>6, <1>7, <1>12
  <2> HIDE DEF q, p, word
  <2>10. Cloning(q, s)
    BY <2>2, <2>5, <2>8, <2>9 DEF Cloning, OneToStart, HasClone
  <2>11. ASSUME NEW j \in Key, j[1] = a PROVE Recorded(rec'[j], j[2], q.threads) /\ Alive(rec'[j], q)
    <3>1. CASE j = k
      <4>1. Alive(r, p)
        BY DEF Orderly, r, p
      <4> QED
        BY <1>1, <1>10, <2>8, <3>1, <4>1 DEF Alive, s
    <3>2. CASE j # k
      <4>1. rec'[j] = rec[j] /\ Recorded(rec[j], j[2], p.threads) /\ Alive(rec[j], p)
        BY <1>1, <2>11, <3>2 DEF Orderly, p
      <4> QED
        BY <2>8, <4>1 DEF Alive
    <3> QED
      BY <3>1, <3>2
  <2>12. DOMAIN rec' = Key /\ \A j \in Key : j[1] # a => rec'[j] = rec[j]
    BY <1>1
  <2>13. Cloning(q, rec'[m])
    BY <2>1, <2>10 DEF s
  <2> QED
    BY <1>2, <2>7, <2>11, <2>12, <2>13, AppStep
<1>13. CASE ClearsWord(h, r.word) /\ r.word # NoWord /\ r.state # "run"
  <2> DEFINE q == [p EXCEPT !.words = @ \ {r.word}]
  <2>1. x = h /\ x.type = "Syscall" /\ x.kind = "futex_wake" /\ x.word = r.word
    BY <1>6, <1>13 DEF ClearsWord
  <2>2. proc' = [proc EXCEPT ![a] = q]
    BY <1>1, <2>1
  <2>3. r.word = k[2] /\ k[2] < p.threads
    BY <1>2, <1>13 DEF Recorded
  <2>4. /\ IsProcess(q) /\ q.threads = p.threads /\ q.clones = p.clones /\ q.tidptrs = p.tidptrs
        /\ q.cloned = p.cloned /\ q.words = p.words \ {r.word}
    BY <1>2 DEF IsProcess
  <2>5. k[2] # 0
    BY <1>13, <2>3 DEF NoWord
  <2>6. rec'[m] = rec[m]
    BY <1>1, <1>2, <2>5, Keys
  <2> HIDE DEF q, p
  <2>7. Cloning(q, rec'[m])
    <3>1. CASE AllStarted(p, rec[m])
      BY <2>4, <2>6, <3>1 DEF Cloning, AllStarted
    <3>2. CASE OneToStart(p, rec[m])
      <4>1. p.clones # r.word
        BY <1>2, <1>8, <2>3, <3>2 DEF OneToStart
      <4> QED
        BY <2>4, <2>6, <3>2, <4>1 DEF Cloning, OneToStart
    <3> QED
      BY <1>2, <3>1, <3>2 DEF Cloning
  <2>8. ASSUME NEW j \in Key, j[1] = a PROVE Recorded(rec'[j], j[2], q.threads) /\ Alive(rec'[j], q)
    <3>1. CASE j = k
      BY <1>1, <1>10, <1>13, <2>4, <3>1 DEF Alive, s
    <3>2. CASE j # k
      <4>1. rec'[j] = rec[j] /\ Recorded(rec[j], j[2], p.threads) /\ Alive(rec[j], p)
        BY <1>1, <2>8, <3>2 DEF Orderly, p
      <4>2. j[2] # k[2]
        BY <2>8, <3>2, Keys
      <4>3. rec[j].word \in {NoWord, j[2]}
        BY <4>1 DEF Recorded
      <4> QED
        BY <2>3, <2>4, <4>1, <4>2, <4>3 DEF Alive
    <3> QED
      BY <3>1, <3>2
  <2>9. DOMAIN rec' = Key /\ \A j \in Key : j[1] # a => rec'[j] = rec[j]
    BY <1>1
  <2> QED
    BY <1>2, <2>2, <2>7, <2>8, <2>9, AppStep
<1> QED
  BY <1>4, <1>5, <1>11, <1>12, <1>13 DEF MayWrite

-----------------------------------------------------------------------------
(* Answers.                                                                 *)

\* Steps after which the words, the clones and the pointers of every process are as before.
LEMMA QuietAnswers ==
    ASSUME Orderly(proc, rec), DOMAIN rec' = Key, DOMAIN proc' = Apps,
           \A j \in Key : rec'[j] = rec[j] \/ Keeps(rec'[j], rec[j], j[2], proc[j[1]]),
           \A b \in Apps : proc'[b] = proc[b] \/ SameProcess(proc'[b], proc[b])
    PROVE  Orderly(proc', rec')
<1>1. \A j \in Key : Recorded(rec[j], j[2], proc[j[1]].threads)
  BY DEF Orderly
<1>2. \A j \in Key : Keeps(rec[j], rec[j], j[2], proc[j[1]])
  BY <1>1, Untouched
<1>3. \A j \in Key : Keeps(rec'[j], rec[j], j[2], proc[j[1]])
  BY <1>2
<1>4. \A b \in Apps : SameProcess(proc[b], proc[b])
  BY StayOrderly
<1>5. \A b \in Apps : SameProcess(proc'[b], proc[b])
  BY <1>4
<1> QED
  BY <1>3, <1>5, QuietSteps

LEMMA ModeChanges ==
    ASSUME NEW p, IsProcess(p), NEW mode, NEW roi
    PROVE  /\ SameProcess(SetMode(p, mode), p) /\ SameProcess([p EXCEPT !.mode = mode, !.roi = roi], p)
           /\ SameProcess([p EXCEPT !.roi = roi, !.mode = mode], p)
<1>1. SameProcess(p, p)
  BY DEF SameProcess
<1>2. SameProcess([p EXCEPT !.mode = mode], p)
  BY DEF SameProcess, IsProcess
<1>3. SameProcess([p EXCEPT !.mode = mode, !.roi = roi], p)
  BY DEF SameProcess, IsProcess
<1>4. SameProcess([p EXCEPT !.roi = roi, !.mode = mode], p)
  BY DEF SameProcess, IsProcess
<1> QED
  BY <1>1, <1>2, <1>3, <1>4 DEF SetMode

\* The application asked for a thread and has it: it is the one to start.
LEMMA NewThreadAnswered ==
    ASSUME Orderly(proc, rec), NEW k \in Key, rec[k].wait.type = "NewThread",
           rec' = [rec EXCEPT ![k] = [rec[k] EXCEPT !.wait = Idle]],
           proc' = [proc EXCEPT ![k[1]].cloned = @ \cup {rec[k].wait.word}]
    PROVE  Orderly(proc', rec')
<1> DEFINE r == rec[k]
           s == [r EXCEPT !.wait = Idle]
           a == k[1]
           p == proc[a]
           q == [p EXCEPT !.cloned = @ \cup {r.wait.word}]
           m == <<a, 0>>
<1>1. DOMAIN rec = Key /\ DOMAIN proc = Apps /\ IsRecorder(r) /\ a \in Apps /\ IsProcess(p)
  BY BeforeStep
<1>2. Recorded(r, k[2], p.threads) /\ Cloning(p, rec[m]) /\ m \in Key /\ m[1] = a /\ (k[2] = 0 => k = m)
  BY Keys DEF Orderly
<1>3. k = m
  BY <1>2 DEF Recorded
<1>4. OneToStart(p, r)
  BY <1>2, <1>3 DEF Cloning, AllStarted
<1>5. p.cloned = {} /\ r.wait.word = p.clones
  BY <1>4 DEF OneToStart
<1>6. /\ IsProcess(q) /\ q.threads = p.threads /\ q.clones = p.clones /\ q.tidptrs = p.tidptrs
      /\ q.words = p.words /\ q.cloned = {p.clones}
  BY <1>1, <1>5 DEF IsProcess
<1>7. /\ rec' = [rec EXCEPT ![k] = s] /\ proc' = [proc EXCEPT ![a] = q]
  BY <1>1
<1>8. /\ s.todo = r.todo /\ s.state = r.state /\ s.word = r.word /\ s.wait = Idle
  BY <1>1 DEF IsRecorder
<1>9. Keeps(s, r, k[2], p)
  BY <1>2, WaitIsOver
<1> HIDE DEF s, q, p, r
<1>10. Cloning(q, s)
  <2>1. s.wait.type # "NewThread"
    BY <1>8 DEF Idle
  <2>2. OneToStart(q, s)
    BY <1>4, <1>6, <1>8, <2>1 DEF OneToStart
  <2> QED
    BY <1>6, <2>2 DEF Cloning
<1>11. DOMAIN rec' = Key /\ rec'[k] = s /\ \A j \in Key \ {k} : rec'[j] = rec[j]
  BY <1>1, <1>7
<1>12. ASSUME NEW j \in Key, j[1] = a PROVE Recorded(rec'[j], j[2], q.threads) /\ Alive(rec'[j], q)
  <2>1. CASE j = k
    <3>1. Alive(r, p)
      BY DEF Orderly, r, p
    <3> QED
      BY <1>6, <1>8, <1>9, <1>11, <2>1, <3>1 DEF Alive, Keeps
  <2>2. CASE j # k
    <3>1. rec'[j] = rec[j] /\ Recorded(rec[j], j[2], p.threads) /\ Alive(rec[j], p)
      BY <1>11, <1>12, <2>2 DEF Orderly, p
    <3> QED
      BY <1>6, <3>1 DEF Alive
  <2> QED
    BY <2>1, <2>2
<1>13. \A j \in Key : j[1] # a => rec'[j] = rec[j]
  BY <1>11
<1>14. Cloning(q, rec'[m])
  BY <1>3, <1>10, <1>11
<1> QED
  BY <1>1, <1>7, <1>11, <1>12, <1>13, <1>14, AppStep

\* A process is forked: its child begins without threads to start.
LEMMA ForkAnswered ==
    ASSUME Orderly(proc, rec), NEW k \in Key, NEW c,
           rec' = Forked(k, c, [rec[k] EXCEPT !.wait = Idle]),
           proc' = [proc EXCEPT ![c].mode = proc[k[1]].mode, ![c].roi = proc[k[1]].roi]
    PROVE  Orderly(proc', rec')
<1> DEFINE r == rec[k]
           s == [r EXCEPT !.wait = Idle]
           n == [NewRecorder(NoWord, NoWord) EXCEPT !.left = r.left]
           mode == proc[k[1]].mode
           roi == proc[k[1]].roi
<1>1. DOMAIN rec = Key /\ DOMAIN proc = Apps /\ Recorded(r, k[2], proc[k[1]].threads)
  BY BeforeStep DEF Orderly
<1>2. \A b \in Apps : IsProcess(proc[b])
  BY DEF Orderly, Cloning
<1>3. rec' = [rec EXCEPT ![k] = s, ![<<c, 0>>] = n]
  BY DEF Forked
<1>4. Keeps(s, r, k[2], proc[k[1]])
  BY <1>1, WaitIsOver
<1>5. IsRecorder(n) /\ n.todo = <<>> /\ n.wait = Idle /\ n.word = NoWord /\ n.tid = NoWord
  BY NoSeq DEF IsRecorder, NewRecorder
<1> SUFFICES Orderly(proc', rec')
  OBVIOUS
<1> HIDE DEF n, s, r
<1>6. \A p, t : Keeps(n, t, 0, p)
  BY <1>5, StartsAnew
<1>7. DOMAIN rec' = Key /\ DOMAIN proc' = Apps
  BY <1>1, <1>3
<1>8. ASSUME NEW j \in Key PROVE rec'[j] = rec[j] \/ Keeps(rec'[j], rec[j], j[2], proc[j[1]])
  <2>1. CASE j = <<c, 0>>
    BY <1>1, <1>3, <1>6, <2>1
  <2>2. CASE j # <<c, 0>> /\ j = k
    BY <1>1, <1>3, <1>4, <2>2 DEF r
  <2>3. CASE j # <<c, 0>> /\ j # k
    BY <1>1, <1>3, <2>3
  <2> QED
    BY <2>1, <2>2, <2>3
<1>9. ASSUME NEW b \in Apps PROVE proc'[b] = proc[b] \/ SameProcess(proc'[b], proc[b])
  <2>1. CASE b = c
    <3>1. proc'[b] = [proc[b] EXCEPT !.mode = mode, !.roi = roi]
      BY <1>1, <2>1
    <3> HIDE DEF mode, roi
    <3>2. SameProcess([proc[b] EXCEPT !.mode = mode, !.roi = roi], proc[b])
      BY <1>2, ModeChanges
    <3> QED
      BY <3>1, <3>2
  <2>2. CASE b # c
    BY <1>1, <2>2
  <2> QED
    BY <2>1, <2>2
<1> QED
  BY <1>7, <1>8, <1>9, QuietAnswers

\* beginROI and endROI.
LEMMA MagicAnswered ==
    ASSUME Orderly(proc, rec), NEW k \in Key, NEW cmd,
           rec' = [rec EXCEPT ![k] = AfterMagic(k, cmd).rec],
           proc' = [proc EXCEPT ![k[1]] = AfterMagic(k, cmd).proc]
    PROVE  Orderly(proc', rec')
<1> DEFINE r == rec[k]
           p == proc[k[1]]
           t1 == IF r.reported > 0 THEN <<[Count(r.reported) EXCEPT !.apply = FALSE]>> ELSE <<>>
           t2 == <<Syscall("exit_group", NoWord), [type |-> "End"]>>
           s1 == [r EXCEPT !.wait = Idle, !.reported = 0, !.todo = t1]
           s2 == [r EXCEPT !.wait = Idle, !.state = "finish", !.todo = t2]
           s3 == [r EXCEPT !.wait = Idle]
           p1 == [p EXCEPT !.roi = TRUE, !.mode = "Detailed"]
           p2 == [p EXCEPT !.roi = FALSE, !.mode = "Icount"]
<1>1. DOMAIN rec = Key /\ DOMAIN proc = Apps /\ Recorded(r, k[2], p.threads) /\ IsRecorder(r)
      /\ IsProcess(p) /\ k[1] \in Apps
  BY BeforeStep DEF Orderly
<1>2. \/ AfterMagic(k, cmd).rec = s1 /\ AfterMagic(k, cmd).proc = p1
      \/ AfterMagic(k, cmd).rec = s2 /\ AfterMagic(k, cmd).proc = p2
      \/ AfterMagic(k, cmd).rec = s3 /\ AfterMagic(k, cmd).proc = p
  BY DEF AfterMagic
<1>3. Harmlessly(t1)
  BY CountHarmless, HarmlessOne, HarmlessNone
<1>4. Harmlessly(t2)
  <2> DEFINE x == Syscall("exit_group", NoWord)
             e == [type |-> "End"]
  <2>1. Harmless(x) /\ Harmless(e)
    BY CountHarmless, CallHarmless
  <2> HIDE DEF x, e
  <2>2. <<x, e>> \in Seq({x, e}) /\ DOMAIN <<x, e>> = {1, 2} /\ <<x, e>>[1] = x /\ <<x, e>>[2] = e
    OBVIOUS
  <2>3. Harmlessly(<<x, e>>)
    BY <2>1, <2>2, AnySeq DEF Harmlessly
  <2> QED
    BY <2>3 DEF x, e
<1>5. SameProcess(p1, p) /\ SameProcess(p2, p)
  BY <1>1, ModeChanges
<1> HIDE DEF t1, t2
<1>6. /\ DOMAIN s1 = DOMAIN r /\ s1.wait = Idle /\ s1.todo = t1 /\ s1.state = r.state
      /\ s1.word = r.word /\ s1.tid = r.tid
  BY <1>1 DEF IsRecorder
<1>7. /\ DOMAIN s2 = DOMAIN r /\ s2.wait = Idle /\ s2.todo = t2 /\ s2.state = "finish"
      /\ s2.word = r.word /\ s2.tid = r.tid
  BY <1>1 DEF IsRecorder
<1>8. Keeps(s3, r, k[2], p)
  BY <1>1, WaitIsOver
<1> HIDE DEF s1, s2, s3, p1, p2, r, p
<1>9. Idle.type # "NewThread"
  BY DEF Idle
<1>10. IsRecorder(s1) /\ IsRecorder(s2)
  BY <1>1, <1>3, <1>4, <1>6, <1>7 DEF IsRecorder, Harmlessly
<1>11. Keeps(s1, r, k[2], p)
  BY <1>1, <1>3, <1>6, <1>9, <1>10, NextRequests
<1>12. Keeps(s2, r, k[2], p)
  BY <1>1, <1>4, <1>7, <1>9, <1>10, NextRequests
<1>13. DOMAIN rec' = Key /\ DOMAIN proc' = Apps
  BY <1>1
<1>14. ASSUME NEW j \in Key PROVE rec'[j] = rec[j] \/ Keeps(rec'[j], rec[j], j[2], proc[j[1]])
  BY <1>1, <1>2, <1>8, <1>11, <1>12 DEF r, p
<1>15. ASSUME NEW b \in Apps PROVE proc'[b] = proc[b] \/ SameProcess(proc'[b], proc[b])
  BY <1>1, <1>2, <1>5 DEF p
<1> QED
  BY <1>13, <1>14, <1>15, QuietAnswers

\* The process exits: Fini closes the pipes.
LEMMA ExitAnswered ==
    ASSUME Orderly(proc, rec), NEW k \in Key, proc' = proc,
           rec' = ProcessExit(k, [rec[k] EXCEPT !.wait = Idle])
    PROVE  Orderly(proc', rec')
<1> DEFINE x == <<Syscall("exit", NoWord)>>
           e == <<[type |-> "End"]>>
           Ends(c) == (IF c THEN x ELSE <<>>) \o e
<1>1. Harmlessly(x) /\ Harmlessly(e) /\ Harmlessly(<<>>)
  BY CountHarmless, CallHarmless, HarmlessOne, HarmlessNone
<1>2. rec' = [j \in Key |->
         CASE j = k -> [[rec[k] EXCEPT !.wait = Idle] EXCEPT !.state = "finish", !.todo = Ends(k[2] = 0)]
           [] j # k /\ j[1] = k[1] /\ rec[j].state = "run" ->
                [rec[j] EXCEPT !.state = "finish", !.wait = Idle,
                               !.todo = Ends(j[2] = 0 /\ rec[j].wait = Idle)]
           [] OTHER -> rec[j]]
  BY DEF ProcessExit
<1> HIDE DEF x, e
<1>3. \A c : Harmlessly(Ends(c))
  <2> TAKE c
  <2> DEFINE y == IF c THEN x ELSE <<>>
  <2>1. Harmlessly(y)
    BY <1>1
  <2> HIDE DEF y
  <2>2. Harmlessly(y \o e)
    BY <1>1, <2>1, ConcatHarmlessly
  <2> QED
    BY <2>2 DEF y
<1> HIDE DEF Ends
<1>4. ASSUME NEW j \in Key PROVE rec'[j] = rec[j] \/ Keeps(rec'[j], rec[j], j[2], proc[j[1]])
  <2>1. Recorded(rec[j], j[2], proc[j[1]].threads)
    BY DEF Orderly
  <2> DEFINE r == rec[j]
             n == j[2]
             p == proc[j[1]]
             s(t) == [r EXCEPT !.state = "finish", !.wait = Idle, !.todo = t]
             u(t) == [[r EXCEPT !.wait = Idle] EXCEPT !.state = "finish", !.todo = t]
  <2>2. ASSUME NEW t, Harmlessly(t) PROVE Keeps(s(t), r, n, p) /\ Keeps(u(t), r, n, p)
    BY <2>1, <2>2, EndsHarmlessly
  <2>3. CASE j = k
    <3>1. rec'[j] = u(Ends(k[2] = 0))
      BY <1>2, <2>3
    <3>2. Harmlessly(Ends(k[2] = 0))
      BY <1>3, Zenon
    <3> DEFINE t == Ends(k[2] = 0)
    <3> HIDE DEF t
    <3>3. rec'[j] = u(t) /\ Harmlessly(t)
      BY <3>1, <3>2 DEF t
    <3>4. Keeps(u(t), r, n, p)
      BY <2>2, <3>3
    <3> QED
      BY <3>3, <3>4
  <2>4. CASE j # k /\ j[1] = k[1] /\ rec[j].state = "run"
    <3>1. rec'[j] = s(Ends(j[2] = 0 /\ rec[j].wait = Idle))
      BY <1>2, <2>4
    <3>2. Harmlessly(Ends(j[2] = 0 /\ rec[j].wait = Idle))
      BY <1>3, Zenon
    <3> DEFINE t == Ends(j[2] = 0 /\ rec[j].wait = Idle)
    <3> HIDE DEF t
    <3>3. rec'[j] = s(t) /\ Harmlessly(t)
      BY <3>1, <3>2 DEF t
    <3>4. Keeps(s(t), r, n, p)
      BY <2>2, <3>3
    <3> QED
      BY <3>3, <3>4
  <2>5. CASE j # k /\ ~(j[1] = k[1] /\ rec[j].state = "run")
    BY <1>2, <2>5
  <2> QED
    BY <2>3, <2>4, <2>5
<1>5. DOMAIN rec' = Key /\ DOMAIN proc' = Apps
  BY <1>2 DEF Orderly
<1> QED
  BY <1>4, <1>5, QuietAnswers

LEMMA ReceiveKeeps ==
    ASSUME Orderly(proc, rec), NEW k \in Key, ReceiveAnswer(k)
    PROVE  Orderly(proc', rec')
<1> DEFINE w == rec[k].wait
           s == [rec[k] EXCEPT !.wait = Idle]
<1>1. DOMAIN rec = Key /\ DOMAIN proc = Apps /\ k[1] \in Apps /\ IsProcess(proc[k[1]])
      /\ Recorded(rec[k], k[2], proc[k[1]].threads)
  BY BeforeStep DEF Orderly
<1>2. Keeps(s, rec[k], k[2], proc[k[1]])
  BY <1>1, WaitIsOver
<1>3. CASE /\ rec' = [rec EXCEPT ![k] = s]
           /\ \E mode : proc' = [proc EXCEPT ![k[1]] = SetMode(@, mode)]
  <2>1. PICK mode : proc' = [proc EXCEPT ![k[1]] = SetMode(@, mode)]
    BY <1>3
  <2>2. SameProcess(SetMode(proc[k[1]], mode), proc[k[1]])
    BY <1>1, ModeChanges
  <2> HIDE DEF s
  <2>3. \A j \in Key : rec'[j] = rec[j] \/ Keeps(rec'[j], rec[j], j[2], proc[j[1]])
    BY <1>1, <1>2, <1>3
  <2>4. \A b \in Apps : proc'[b] = proc[b] \/ SameProcess(proc'[b], proc[b])
    BY <1>1, <2>1, <2>2
  <2>5. DOMAIN rec' = Key /\ DOMAIN proc' = Apps
    BY <1>1, <1>3, <2>1
  <2> QED
    BY <2>3, <2>4, <2>5, QuietAnswers
<1>4. CASE rec' = [rec EXCEPT ![k] = s] /\ proc' = proc
  <2> HIDE DEF s
  <2>1. DOMAIN rec' = Key /\ rec'[k] = s /\ \A j \in Key \ {k} : rec'[j] = rec[j]
    BY <1>1, <1>4
  <2> QED
    BY <1>2, <1>4, <2>1, OneThread
<1>5. \/ /\ rec' = [rec EXCEPT ![k] = s]
         /\ \E mode : proc' = [proc EXCEPT ![k[1]] = SetMode(@, mode)]
      \/ /\ w.type = "NewThread" /\ rec' = [rec EXCEPT ![k] = s]
         /\ proc' = [proc EXCEPT ![k[1]].cloned = @ \cup {w.word}]
      \/ \E c : /\ rec' = Forked(k, c, s)
                /\ proc' = [proc EXCEPT ![c].mode = proc[k[1]].mode, ![c].roi = proc[k[1]].roi]
      \/ \E cmd : /\ rec' = [rec EXCEPT ![k] = AfterMagic(k, cmd).rec]
                  /\ proc' = [proc EXCEPT ![k[1]] = AfterMagic(k, cmd).proc]
      \/ rec' = ProcessExit(k, s) /\ proc' = proc
      \/ rec' = [rec EXCEPT ![k] = s] /\ proc' = proc
  BY DEF ReceiveAnswer
<1> QED
  BY <1>3, <1>4, <1>5, NewThreadAnswered, ForkAnswered, MagicAnswered, ExitAnswered

-----------------------------------------------------------------------------
(* The invariant.                                                           *)

LEMMA InvStarts == Init => Inv
<1> SUFFICES ASSUME Init PROVE Orderly(proc, rec)
  BY DEF Inv
<1>1. DOMAIN proc = Apps /\ DOMAIN rec = Key
  BY DEF Init
<1>2. ASSUME NEW k \in Key
      PROVE  /\ IsRecorder(rec[k]) /\ rec[k].todo = <<>> /\ rec[k].wait = Idle
             /\ rec[k].word = NoWord /\ rec[k].tid = NoWord
  BY NoSeq DEF Init, NewRecorder, NoRecorder, IsRecorder
<1>3. ASSUME NEW a \in Apps
      PROVE  /\ IsProcess(proc[a]) /\ proc[a].tidptrs = <<>> /\ proc[a].cloned = {}
             /\ proc[a].clones = 0 /\ proc[a].threads = 1
  BY DEF Init, IsProcess
<1>4. Idle.type # "NewThread"
  BY DEF Idle
<1>5. \A k \in Key : Recorded(rec[k], k[2], proc[k[1]].threads) /\ Alive(rec[k], proc[k[1]])
  <2> TAKE k \in Key
  <2>1. \A i \in DOMAIN rec[k].todo : MayWrite(rec[k], k[2], i)
    BY <1>2, NoSeq
  <2> QED
    BY <1>2, <1>4, <2>1 DEF Recorded, Alive
<1>6. \A a \in Apps : Cloning(proc[a], rec[<<a, 0>>])
  <2> TAKE a \in Apps
  <2>1. <<a, 0>> \in Key
    BY Keys
  <2>2. rec[<<a, 0>>].wait.type # "NewThread"
    BY <1>2, <1>4, <2>1
  <2> QED
    BY <1>3, <2>2 DEF Cloning, AllStarted
<1> QED
  BY <1>1, <1>5, <1>6 DEF Orderly

LEMMA SimulateKeeps ==
    ASSUME NEW k, Simulate(k) \/ ServeMemory(k)
    PROVE  rec' = rec /\ proc' = proc /\ config' = config
<1>1. CASE \E j \in Key : EndApplication(k, j)
  BY <1>1 DEF EndApplication
<1>2. CASE InitStream(k) \/ ReadCaches(k) \/ ReadOne(k) \/ ReadEnd(k) \/ ReadCount(k) \/ ReadNewThread(k)
  BY <1>2 DEF InitStream, ReadCaches, ReadOne, ReadEnd, ReadCount, ReadNewThread
<1>3. CASE ReadFork(k) \/ ReadMagic(k) \/ ReadEmu(k) \/ ReadSyscall(k) \/ ReadFutexWait(k)
  BY <1>3 DEF ReadFork, ReadMagic, ReadEmu, ReadSyscall, ReadFutexWait
<1>4. CASE ReadMemoryResponse(k) \/ ReadFutexWake(k) \/ ReadExitGroup(k) \/ ApplicationEnded(k)
  BY <1>4 DEF ReadMemoryResponse, ReadFutexWake, ReadExitGroup, ApplicationEnded
<1>5. CASE ThreadDone(k) \/ ServeMemory(k)
  BY <1>5 DEF ThreadDone, ServeMemory
<1> QED
  BY <1>1, <1>2, <1>3, <1>4, <1>5 DEF Simulate

LEMMA ConfigStays ==
    ASSUME [Next]_vars
    PROVE  config' = config
<1>1. ASSUME NEW k, RecorderStep(k) PROVE config' = config
  <2>1. CASE CountInsns(k) \/ SendCacheOnly(k) \/ SendOne(k)
    BY <2>1 DEF CountInsns, SendCacheOnly, SendOne, SendInstruction
  <2>2. CASE BlockingCall(k) \/ WriteCall(k) \/ Clone(k) \/ Fork(k) \/ \E word \in 1 .. MaxThreads : Join(k, word)
    BY <2>2 DEF BlockingCall, WriteCall, Clone, Fork, Join, SystemCall
  <2>3. CASE ExitGroup(k) \/ Finish(k) \/ \E cmd \in {"roi_start", "roi_end", "warmup"} : Magic(k, cmd)
    BY <2>3 DEF ExitGroup, Finish, Magic
  <2>4. CASE Write(k) \/ ReceiveAnswer(k)
    BY <2>4 DEF Write, ReceiveAnswer
  <2> QED
    BY <1>1, <2>1, <2>2, <2>3, <2>4, SimulateKeeps DEF RecorderStep
<1>2. ASSUME NEW a, Start(a) PROVE config' = config
  BY <1>2 DEF Start, ThreadStart
<1>3. CASE vars' = vars
  BY <1>3 DEF vars
<1> QED
  BY <1>1, <1>2, <1>3, SimulateKeeps DEF Next

LEMMA InvSteps == Inv /\ [Next]_vars => Inv'
<1> SUFFICES ASSUME Inv, [Next]_vars, ~config.racing PROVE Orderly(proc', rec')
  BY ConfigStays DEF Inv, Orderly
<1>1. Orderly(proc, rec)
  BY DEF Inv
<1>2. CASE proc' = proc /\ rec' = rec
  BY <1>1, <1>2
<1>3. ASSUME NEW k \in Key, RecorderStep(k) PROVE Orderly(proc', rec')
  <2>1. CASE \/ CountInsns(k) \/ SendCacheOnly(k) \/ SendOne(k)
             \/ \E cmd \in {"roi_start", "roi_end", "warmup"} : Magic(k, cmd)
    BY <1>1, <2>1, ExecutesKeeps
  <2>2. CASE \/ BlockingCall(k) \/ WriteCall(k) \/ Fork(k) \/ ExitGroup(k)
             \/ \E word \in 1 .. MaxThreads : Join(k, word)
    BY <1>1, <2>2, CallsKeep
  <2>3. CASE Clone(k)
    BY <1>1, <2>3, CloneKeeps
  <2>4. CASE Finish(k)
    BY <1>1, <2>4, FinishKeeps
  <2>5. CASE Write(k)
    BY <1>1, <2>5, WriteKeeps
  <2>6. CASE ServeMemory(k)
    BY <1>2, <2>6, SimulateKeeps
  <2>7. CASE ReceiveAnswer(k)
    BY <1>1, <2>7, ReceiveKeeps
  <2> QED
    BY <1>3, <2>1, <2>2, <2>3, <2>4, <2>5, <2>6, <2>7 DEF RecorderStep
<1>4. ASSUME NEW k \in Key, Simulate(k) PROVE Orderly(proc', rec')
  BY <1>2, <1>4, SimulateKeeps
<1>5. ASSUME NEW a \in Apps, Start(a) PROVE Orderly(proc', rec')
  BY <1>1, <1>5, ThreadStartKeeps DEF Start
<1>6. CASE vars' = vars
  BY <1>2, <1>6 DEF vars
<1> QED
  BY <1>3, <1>4, <1>5, <1>6 DEF Next

\* While an application creates a thread only when the one before has
\* started, no running thread is taken for ended by pthread_join: the oldest tid pointer, which
\* threadStart takes, is always that of the thread that starts, so that threadFinishHelper clears
\* the word of the thread that ends (SYS_clone in emulateSyscallFunc, threadStart,
\* threadFinishHelper).  This holds whatever the threads execute, how they fork, exit or are
\* aborted, and for any number of them.
THEOREM ThreadsClearTheirOwnWord == Spec => [](~config.racing => TidWordMeansAlive)
<1>1. Inv => (~config.racing => TidWordMeansAlive)
  BY DEF Inv, Orderly, Alive, TidWordMeansAlive
<1> QED
  BY <1>1, InvStarts, InvSteps, PTL DEF Spec
=============================================================================
