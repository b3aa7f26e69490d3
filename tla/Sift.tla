-------------------------------- MODULE Sift --------------------------------
(***************************************************************************)
(* The SIFT trace stream (sift/sift_writer.cc, sift/sift_reader.cc): what   *)
(* a writer puts in the pipe for an instruction, and how the reader builds  *)
(* the instruction back from its own caches.  Addresses are small numbers,  *)
(* PageSize stands for ICACHE_SIZE and PAGE_SIZE (both 4096), and the code  *)
(* does not change under the recorder, so an address has one instruction.   *)
(***************************************************************************)
EXTENDS Naturals, Sequences, FiniteSets, SequencesExt

PageSize == 2
Page(a) == a \div PageSize
Bytes(a, n) == a .. (a + n - 1)
PageBytes(p) == Bytes(p * PageSize, PageSize)

\* The writer's state and the reader's.  NoSinst: m_last_sinst == NULL.
NoSinst == [addr |-> 0, size |-> 0, decoded |-> FALSE]
NewWriter == [icache |-> {}, va2pa |-> {}, last |-> 0]
NewReader == [icache |-> {}, vcache |-> {}, last |-> 0, scache |-> {},
              next |-> {}, sinst |-> NoSinst]

-----------------------------------------------------------------------------
(* Writer *)

\* The code bytes the reader may not have yet: page by page, or, with
\* m_requires_icache_per_insn, the bytes of this instruction alone.
IcacheKeys(ins, perInsn) ==
    IF perInsn THEN {ins.addr} ELSE {Page(b) : b \in Bytes(ins.addr, ins.size)}
IcacheRecords(w, ins, perInsn) ==
    LET missing == IcacheKeys(ins, perInsn) \ w.icache
    IN  [i \in 1 .. Cardinality(missing) |->
            [type |-> "Icache",
             bytes |-> IF perInsn THEN Bytes(ins.addr, ins.size)
                       ELSE PageBytes(SetToSortSeq(missing, <)[i])]]

\* send_va2pa for the instruction and its data addresses, in that order: a page that is
\* present in physical memory (va2pa_lookup) has its mapping sent once, another has none sent
\* now and is looked up again at its next use.
Touched(ins) == <<ins.addr>> \o ins.mem
TouchedPages(ins) == {Page(a) : a \in Range(Touched(ins))}
Va2paRecords(w, ins, present) ==
    LET pages == (TouchedPages(ins) \cap present) \ w.va2pa
    IN  [i \in 1 .. Cardinality(pages) |->
            [type |-> "Logical2Physical", vp |-> SetToSortSeq(pages, <)[i]]]

\* "Try as simple instruction".
IsSimple(w, ins) == ins.addr = w.last /\ ~ins.predicate

\* Writer::Instruction: what goes into the pipe, and the writer afterwards.
InstructionRecord(w, ins) ==
    IF IsSimple(w, ins)
    THEN [type |-> "Instruction", size |-> ins.size, mem |-> ins.mem,
          branch |-> ins.branch]
    ELSE [type |-> "InstructionExt", addr |-> ins.addr, size |-> ins.size,
          mem |-> ins.mem, branch |-> ins.branch,
          predicate |-> ins.predicate, executed |-> ins.executed]
InstructionRecords(w, ins, format, present) ==
    IcacheRecords(w, ins, format.perInsn)
    \o (IF format.pa THEN Va2paRecords(w, ins, present) ELSE <<>>)
    \o <<InstructionRecord(w, ins)>>
AfterInstruction(w, ins, format, present) ==
    [icache |-> w.icache \cup IcacheKeys(ins, format.perInsn),
     va2pa |-> IF format.pa
               THEN w.va2pa \cup (TouchedPages(ins) \cap present)
               ELSE w.va2pa,
     last |-> ins.addr + ins.size]

-----------------------------------------------------------------------------
(* Reader *)

\* The RecOtherIcache, RecOtherIcacheVariable and RecOtherLogical2Physical
\* records of Reader::Read.
IsCacheRecord(rec) == rec.type \in {"Icache", "Logical2Physical"}
ReadCacheRecord(r, rec) ==
    IF rec.type = "Icache" THEN [r EXCEPT !.icache = @ \cup rec.bytes]
    ELSE [r EXCEPT !.vcache = @ \cup {rec.vp}]

\* decodeInstruction: the bytes come from the pages received so far.
DecodeInstruction(r, addr, size) ==
    [addr |-> addr, size |-> size, decoded |-> Bytes(addr, size) \subseteq r.icache]

\* Mutant: the link to the probable next instruction is taken unchecked.
LinkedUnchecked(r, addr) == {n.to : n \in {m \in r.next : m.from = r.sinst.addr}}
\* m_last_sinst->next, when it has the address looked for.
Linked(r, addr) ==
    {n.to : n \in {m \in r.next : m.from = r.sinst.addr /\ m.to.addr = addr}}
\* getStaticInstruction: the link, the map, or a new decode.
GetStaticInstruction(r, addr, size) ==
    LET cached == {s \in r.scache : s.addr = addr}
        sinst == IF Linked(r, addr) # {} THEN CHOOSE s \in Linked(r, addr) : TRUE
                 ELSE IF cached # {} THEN CHOOSE s \in cached : TRUE
                 ELSE DecodeInstruction(r, addr, size)
    IN  [r EXCEPT !.scache = @ \cup {sinst},
                  !.sinst = sinst,
                  !.next = IF r.sinst = NoSinst
                              \/ \E n \in r.next : n.from = r.sinst.addr
                           THEN @
                           ELSE @ \cup {[from |-> r.sinst.addr, to |-> sinst]}]

\* The end of Reader::Read: a short record continues at last_address, is not
\* predicated and was executed.
ReadAddress(r, rec) == IF rec.type = "Instruction" THEN r.last ELSE rec.addr
ReadInstruction(r, rec) ==
    [GetStaticInstruction(r, ReadAddress(r, rec), rec.size)
     EXCEPT !.last = ReadAddress(r, rec) + rec.size]
\* The Sift::Instruction handed to the caller (r: the reader after the read),
\* and the pages TraceThread::va2pa will find no mapping for.
Delivered(r, rec) ==
    [addr |-> r.sinst.addr, size |-> r.sinst.size, mem |-> rec.mem,
     branch |-> rec.branch,
     predicate |-> IF rec.type = "Instruction" THEN FALSE ELSE rec.predicate,
     executed |-> IF rec.type = "Instruction" THEN TRUE ELSE rec.executed]
Unmapped(r, ins) == TouchedPages(ins) \ r.vcache
=============================================================================
