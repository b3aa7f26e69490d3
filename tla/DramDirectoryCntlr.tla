------------------------- MODULE DramDirectoryCntlr -------------------------
(***************************************************************************)
(* The handlers of the home node's directory controller                    *)
(* (pr_l1_pr_l2_dram_directory_msi/dram_directory_cntlr.cc), written as    *)
(* operators on a directory context: what the controller knows of one      *)
(* address, together with what a handler has sent so far.  MemorySystem    *)
(* runs them as actions.                                                   *)
(*                                                                         *)
(* A context c is a record with                                            *)
(*   entry   the DirectoryEntry: dstate, sharers, owner, forwarder         *)
(*   queue   the request queue of the address, the current request first   *)
(*   out     the messages sent to each cache                               *)
(*   dram    the messages sent to the DRAM controller                      *)
(*   done    the handler ends in processNextReqFromL2Cache                 *)
(*   gone    the handler called invalidateDirectoryEntry                   *)
(*   failed  the assertions of the code that did not hold                  *)
(***************************************************************************)
EXTENDS Integers, Sequences, FiniteSets

CONSTANTS Config,   \* the configurations: records of the fields below, with the number of
                    \* directory entries and the user threads of a cache (MemorySystem)
          Data      \* contents of a line

ASSUME ConstantsAssumption ==
    /\ \A c \in Config : /\ c.nodes \in Nat \ {0} /\ c.entries \in Nat \ {0}
                          /\ c.protocol \in {"MSI", "MESI", "MESIF"}
                          /\ c.hwSharers \in Nat \ {0}
    /\ {"NULL", "UNDEF"} \cap Data = {}

VARIABLE config   \* the configuration of this simulation

NumNodes == config.nodes           \* number of last-level caches
Addr == config.addr                \* cache line addresses, all in one directory set
Protocol == config.protocol        \* m_protocol: "MSI", "MESI" or "MESIF"
MaxHwSharers == config.hwSharers   \* m_max_hw_sharers of the directory entries

Node == 0 .. NumNodes - 1

\* INVALID_CORE_ID, and the value a DirectoryEntry's m_forwarder_id has before
\* its first setForwarder: the constructor does not initialise it.
INVALID_CORE_ID == -1
UNINITIALISED == -2

\* Data buffers: no buffer, and a buffer whose contents are not defined (stack
\* memory never written, or memory already freed).
NULL == "NULL"
UNDEF == "UNDEF"
Buffer == Data \cup {NULL, UNDEF}

DState == {"UNCACHED", "SHARED", "EXCLUSIVE", "MODIFIED"}

Entry == [dstate : DState, sharers : SUBSET Node,
          owner : Node \cup {INVALID_CORE_ID},
          forwarder : Node \cup {INVALID_CORE_ID, UNINITIALISED}]

NewEntry == [dstate |-> "UNCACHED", sharers |-> {}, owner |-> INVALID_CORE_ID,
             forwarder |-> UNINITIALISED]

ReqType == {"EX_REQ", "SH_REQ", "UPGRADE_REQ"}

\* A ShmemReq: the type and requester of its message, m_wait_for_data,
\* m_forwarding_from, and the data pointer of the message.
ShmemReq == [type : ReqType \cup {"NULLIFY_REQ"}, requester : Node,
             wait : BOOLEAN, from : Node \cup {INVALID_CORE_ID}, buf : Buffer]

NewReq(type, requester) ==
    [type |-> type, requester |-> requester, wait |-> FALSE,
     from |-> INVALID_CORE_ID, buf |-> NULL]

Context(entry, queue) ==
    [entry |-> entry, queue |-> queue, out |-> [n \in Node |-> <<>>],
     dram |-> <<>>, done |-> FALSE, gone |-> FALSE, failed |-> {}]

-----------------------------------------------------------------------------
(* Building blocks of the handlers.                                         *)

Check(c, holds, name) ==
    IF holds THEN c ELSE [c EXCEPT !.failed = @ \cup {name}]

\* MemoryManager::sendMsg to every cache of a set; SmNode::send refuses a
\* receiver that does not exist.
Send(c, receivers, type, buf) ==
    Check([c EXCEPT !.out =
              [n \in Node |-> IF n \in receivers
                              THEN Append(c.out[n], [type |-> type, buf |-> buf])
                              ELSE c.out[n]]],
           receivers \subseteq Node, "receiver exists")

\* sendDataToDram, and the DRAM_READ_REQ of retrieveDataAndSendToL2Cache.
SendDram(c, type, buf) ==
    [c EXCEPT !.dram = Append(@, [type |-> type, buf |-> buf])]

NumSharers(c) == Cardinality(c.entry.sharers)

\* sharers_list_pair.second[0]: the list is in the order of core ids.
FirstSharer(c) == CHOOSE n \in c.entry.sharers :
                     \A m \in c.entry.sharers : n <= m

\* Mutant: the owner is not recorded.
TakeOverWithoutOwner(c, requester, dstate) ==
    [c EXCEPT !.entry.sharers = @ \cup {requester}, !.entry.dstate = dstate]

\* addSharer(requester), setOwner(requester), setDState(dstate) on an entry
\* without sharers, as all three requests do in state UNCACHED.
TakeOver(c, requester, dstate) ==
    LET c1 == Check(c, requester \notin c.entry.sharers, "addSharer: new")
        c2 == Check(c1, NumSharers(c) < MaxHwSharers, "addSharer: add_result")
    IN  [c2 EXCEPT !.entry.sharers = @ \cup {requester},
                   !.entry.owner = requester,
                   !.entry.dstate = dstate]

\* Mutant: the request stays on its queue.
ProcessNextForgotten(c) == c

\* The handler completes the request at the head of the queue.
ProcessNext(c) ==
    Check([c EXCEPT !.done = TRUE], c.queue # <<>>, "processNextReq: queue")

-----------------------------------------------------------------------------
(* retrieveDataAndSendToL2Cache.                                            *)

RetrieveDataAndSendToL2Cache(c, reply, receiver, buf) ==
    LET req == Head(c.queue)
        forward == /\ Protocol = "MESIF"
                   /\ req.from = INVALID_CORE_ID
                   /\ c.entry.dstate = "SHARED"
                   /\ c.entry.forwarder # INVALID_CORE_ID
    IN  IF buf # NULL
        THEN ProcessNext(Send([c EXCEPT !.entry.forwarder = receiver],
                              {receiver}, reply, buf))
        ELSE IF forward
        THEN Send([c EXCEPT !.queue[1].from = c.entry.forwarder],
                  {c.entry.forwarder}, "WB_REQ", NULL)
        ELSE SendDram([c EXCEPT !.queue[1].wait = TRUE], "DRAM_READ_REQ", NULL)

-----------------------------------------------------------------------------
(* The request handlers.  buf is cached_data_buf.                           *)

ProcessExReq(c, buf) ==
    LET requester == Head(c.queue).requester
        unbuffered == Check(c, buf = NULL, "processExReq: cached_data_buf")
    IN  CASE c.entry.dstate \in {"EXCLUSIVE", "MODIFIED"} ->
               Send(unbuffered, {c.entry.owner}, "FLUSH_REQ", NULL)
          [] c.entry.dstate = "SHARED" ->
               Send(unbuffered, c.entry.sharers, "INV_REQ", NULL)
          [] c.entry.dstate = "UNCACHED" ->
               RetrieveDataAndSendToL2Cache(TakeOver(c, requester, "MODIFIED"),
                                            "EX_REP", requester, buf)

\* victim is the sharer getOneSharer picks when the entry is full.
ProcessShReq(c, buf, victim) ==
    LET requester == Head(c.queue).requester
        unbuffered == Check(c, buf = NULL, "processShReq: cached_data_buf")
    IN  CASE c.entry.dstate = "EXCLUSIVE" ->
               Send(Check(unbuffered, requester # c.entry.owner,
                           "processShReq: requester owns the line"),
                    {c.entry.owner}, "WB_REQ", NULL)
          [] c.entry.dstate = "MODIFIED" ->
               Send(unbuffered, {c.entry.owner}, "WB_REQ", NULL)
          [] c.entry.dstate = "SHARED" /\ requester \in c.entry.sharers ->
               RetrieveDataAndSendToL2Cache(c, "SH_REP", requester, buf)
          [] /\ c.entry.dstate = "SHARED"
             /\ requester \notin c.entry.sharers
             /\ NumSharers(c) >= MaxHwSharers ->
               Send(c, {victim}, "INV_REQ", NULL)
          [] /\ c.entry.dstate = "SHARED"
             /\ requester \notin c.entry.sharers
             /\ NumSharers(c) < MaxHwSharers ->
               RetrieveDataAndSendToL2Cache(
                   [c EXCEPT !.entry.sharers = @ \cup {requester}],
                   "SH_REP", requester, buf)
          [] c.entry.dstate = "UNCACHED" /\ Protocol = "MSI" ->
               RetrieveDataAndSendToL2Cache(TakeOver(c, requester, "SHARED"),
                                            "SH_REP", requester, buf)
          [] c.entry.dstate = "UNCACHED" /\ Protocol # "MSI" ->
               RetrieveDataAndSendToL2Cache(TakeOver(c, requester, "EXCLUSIVE"),
                                            "EX_REP", requester, buf)

ProcessUpgradeReq(c, buf) ==
    LET requester == Head(c.queue).requester
        granted == ProcessNext(Send([c EXCEPT !.entry.owner = requester,
                                              !.entry.dstate = "MODIFIED"],
                                    {requester}, "UPGRADE_REP", NULL))
        others == c.entry.sharers \ {requester}
        \* The first sharer is flushed when the requester lost its copy.
        flushed == IF requester \in c.entry.sharers THEN {} ELSE {FirstSharer(c)}
    IN  CASE /\ c.entry.dstate \in {"EXCLUSIVE", "MODIFIED"}
             /\ FirstSharer(c) = requester ->
               Check(granted, c.entry.owner = requester, "processUpgradeReq: owner")
          [] /\ c.entry.dstate \in {"EXCLUSIVE", "MODIFIED"}
             /\ FirstSharer(c) # requester ->
               Send(c, {c.entry.owner}, "FLUSH_REQ", NULL)
          [] c.entry.dstate = "SHARED" /\ c.entry.sharers = {requester} ->
               granted
          [] c.entry.dstate = "SHARED" /\ c.entry.sharers # {requester} ->
               Send(Send(c, flushed, "FLUSH_REQ", NULL),
                    others \ flushed, "INV_REQ", NULL)
          [] c.entry.dstate = "UNCACHED" ->
               RetrieveDataAndSendToL2Cache(
                   TakeOver(Check(c, c.entry.sharers = {},
                                   "processUpgradeReq: sharers"),
                            requester, "MODIFIED"),
                   "EX_REP", requester,
                   IF buf = NULL THEN Head(c.queue).buf ELSE buf)

ProcessNullifyReq(c) ==
    CASE c.entry.dstate \in {"EXCLUSIVE", "MODIFIED"} ->
           Send(c, {c.entry.owner}, "FLUSH_REQ", NULL)
      [] c.entry.dstate = "SHARED" ->
           Send(c, c.entry.sharers, "INV_REQ", NULL)
      [] c.entry.dstate = "UNCACHED" ->
           ProcessNext([c EXCEPT !.gone = TRUE])

\* The dispatch of processNextReqFromL2Cache and of handleMsgFromL2Cache on the
\* type of the request at the head of the queue.
ProcessReq(c, victim) ==
    LET type == Head(c.queue).type
    IN  CASE type = "EX_REQ" -> ProcessExReq(c, NULL)
          [] type = "SH_REQ" -> ProcessShReq(c, NULL, victim)
          [] type = "UPGRADE_REQ" -> ProcessUpgradeReq(c, NULL)
          [] OTHER -> Check(c, FALSE, "processNextReq: type")

-----------------------------------------------------------------------------
(* The reply handlers.                                                      *)

\* Mutant: an upgrade goes on only when no sharer at all is left.
ProcessInvRepUntilEmpty(c, sender, victim) ==
    LET left == c.entry.sharers \ {sender}
        c1 == [c EXCEPT !.entry.sharers = left,
                        !.entry.dstate = IF left = {} THEN "UNCACHED" ELSE @]
    IN  IF c.queue = <<>> \/ left # {} THEN c1
        ELSE IF Head(c.queue).type = "NULLIFY_REQ" THEN ProcessNullifyReq(c1)
        ELSE ProcessReq(c1, victim)

\* removeSharer, and the directory state without the sharer.
RemoveSharer(c, sender) ==
    LET c1 == Check(c, c.entry.dstate \in {"SHARED", "EXCLUSIVE"},
                     "processInvRep: dstate")
        c2 == Check(c1, sender \in c.entry.sharers, "removeSharer")
        left == c.entry.sharers \ {sender}
    IN  [c2 EXCEPT !.entry.sharers = left,
                   !.entry.forwarder = IF @ = sender THEN INVALID_CORE_ID ELSE @,
                   !.entry.dstate = IF left = {} THEN "UNCACHED" ELSE @]

\* What an INV_REP of sender means for the current request.
GoOnAfterInvRep(c, sender, victim) ==
    LET req == Head(c.queue)
    IN  CASE req.type = "EX_REQ" ->
               IF c.entry.dstate = "UNCACHED" THEN ProcessExReq(c, NULL) ELSE c
          [] req.type = "UPGRADE_REQ" ->
               IF c.entry.sharers \in {{}, {req.requester}}
               THEN ProcessUpgradeReq(c, NULL) ELSE c
          [] req.type = "SH_REQ" ->
               IF \/ req.wait
                  \/ req.from # INVALID_CORE_ID /\ sender # req.from
               THEN c ELSE ProcessShReq(c, NULL, victim)
          [] req.type = "NULLIFY_REQ" ->
               IF c.entry.dstate = "UNCACHED" THEN ProcessNullifyReq(c) ELSE c

ProcessInvRep(c, sender, victim) ==
    IF c.queue = <<>> THEN RemoveSharer(c, sender)
    ELSE GoOnAfterInvRep(RemoveSharer(c, sender), sender, victim)

\* The sharer whose copy was flushed is removed, and with it owner and forwarder.
RemoveFlushed(c, sender) ==
    LET c1 == Check(c, sender \in c.entry.sharers, "processFlushRep: hasSharer")
        left == c.entry.sharers \ {sender}
        c2 == Check(c1, left = {} \/ c.entry.dstate = "SHARED",
                     "processFlushRep: dstate")
    IN  [c2 EXCEPT !.entry.sharers = left,
                   !.entry.forwarder = INVALID_CORE_ID,
                   !.entry.owner = INVALID_CORE_ID,
                   !.entry.dstate = IF left = {} THEN "UNCACHED" ELSE @]

\* What the data of a FLUSH_REP means for the current request.
GoOnAfterFlushRep(c, buf, victim) ==
    LET written == SendDram(c, "DRAM_WRITE_REQ", buf)
        req == Head(c.queue)
    IN  CASE req.type = "EX_REQ" -> ProcessExReq(c, buf)
          [] req.type = "SH_REQ" -> ProcessShReq(written, buf, victim)
          [] req.type = "UPGRADE_REQ" ->
               IF c.entry.sharers = {} THEN ProcessUpgradeReq(c, buf)
               \* setDataBuf keeps a pointer into the FLUSH_REP, whose
               \* buffer handleMsgFromNetwork frees when this returns.
               ELSE [c EXCEPT !.queue[1].buf = UNDEF]
          [] req.type = "NULLIFY_REQ" -> ProcessNullifyReq(written)

ProcessFlushRep(c, sender, buf, victim) ==
    IF c.queue = <<>>
    THEN SendDram(RemoveFlushed(c, sender), "DRAM_WRITE_REQ", buf)
    ELSE GoOnAfterFlushRep(RemoveFlushed(c, sender), buf, victim)

ProcessWbRep(c, sender, buf, victim) ==
    LET c1 == Check(c, sender \in c.entry.sharers, "processWbRep: hasSharer")
        c2 == [c1 EXCEPT !.entry.owner = INVALID_CORE_ID,
                         !.entry.dstate = "SHARED"]
    IN  IF c.queue = <<>> THEN Check(c2, FALSE, "processWbRep: no request")
        ELSE ProcessShReq(Check(c2, Head(c.queue).type = "SH_REQ",
                                 "processWbRep: type"), buf, victim)

ProcessDRAMReply(c, buf) ==
    IF c.queue = <<>> THEN Check(c, FALSE, "processDRAMReply: queue")
    ELSE LET req == Head(c.queue)
             expected == CASE req.type = "SH_REQ" -> {"SHARED", "EXCLUSIVE"}
                           [] req.type = "EX_REQ" -> {"MODIFIED"}
                           [] req.type = "UPGRADE_REQ" -> DState
                           [] OTHER -> {}
             reply == IF req.type = "SH_REQ" /\ c.entry.dstate # "EXCLUSIVE"
                      THEN "SH_REP" ELSE "EX_REP"
         IN  ProcessNext(Send(Check(c, c.entry.dstate \in expected,
                                     "processDRAMReply: dstate"),
                              {req.requester}, reply, buf))
=============================================================================
