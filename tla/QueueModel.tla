----------------------------- MODULE QueueModel -----------------------------
(***************************************************************************)
(* The queue models behind a link, a bus or a memory channel               *)
(* (common/performance_model/queue_model_*.cc): given when a request       *)
(* arrives and how long it is served, how long does it wait.  Requests may *)
(* come out of order in simulated time.  A queue holds the state of all    *)
(* four models; a model uses its own part.                                 *)
(***************************************************************************)
EXTENDS Integers, Sequences, SequencesExt, ContentionModel

Horizon == 1000   \* stands for 2^63, the end of the last free interval

\* A queue model: kind, and m_min_processing_time, m_max_free_interval_list_size,
\* m_analytical_model_enabled (history list); moving_avg window (basic, 0: none);
\* m_window_size (windowed M/G/1), with the global time it sees.
NewQueue ==
    [free |-> <<<<0, Horizon>>>>, delays |-> <<>>, busy |-> 0,
     contention |-> NewContention(1), window |-> <<>>]

\* MovingAverage: the last n numbers; MovingArithmeticMean::compute.
AddToWindow(w, x, n) == IF Len(w) < n THEN Append(w, x) ELSE Append(Tail(w), x)
Total(w) == FoldLeft(+, 0, w)
Mean(w) == Total(w) \div Len(w)


\* QueueModelBasic::computeQueueDelay
BasicDelay(m, q, t, p) ==
    LET seen == IF m.window = 0 THEN <<t>> ELSE AddToWindow(q.delays, t, m.window)
        ref == Mean(seen)
    IN  [delay |-> IF q.busy > ref THEN q.busy - ref ELSE 0,
         queue |-> [q EXCEPT !.delays = seen,
                             !.busy = (IF q.busy > ref THEN q.busy ELSE ref) + p]]

\* QueueModelContention::computeQueueDelay: one outstanding request.
ContentionDelay(m, q, t, p) ==
    [delay |-> CompletionTime(q.contention, t, p) - t - p,
     queue |-> [q EXCEPT !.contention = AfterRequest(@, t, p)]]

\* Unsigned: a - b >= c, where a - b wraps around when a < b.
AtLeast(a, b, c) == a < b \/ a - b >= c

\* QueueModelHistoryList::computeUsingHistoryList: the first free interval that
\* the request fits, or the first that begins after it (fit or not).
Fits(q, t, p, i) == t >= q.free[i][1] /\ t + p <= q.free[i][2]
Interval(q, t, p) ==
    CHOOSE k \in DOMAIN q.free :
        /\ Fits(q, t, p, k) \/ t < q.free[k][1]
        /\ \A j \in 1 .. k - 1 : ~Fits(q, t, p, j) /\ t >= q.free[j][1]
HistoryList(m, q, t, p) ==
    LET i == Interval(q, t, p)
        first == q.free[i][1]
        second == q.free[i][2]
        start == IF Fits(q, t, p, i) THEN t ELSE first
        left == IF Fits(q, t, p, i) /\ t - first >= m.min THEN <<<<first, t>>>> ELSE <<>>
        right == IF AtLeast(second, start + p, m.min) THEN <<<<start + p, second>>>> ELSE <<>>
        list == SubSeq(q.free, 1, i - 1) \o left \o right \o SubSeq(q.free, i + 1, Len(q.free))
    IN  [delay |-> start - t,
         queue |-> [q EXCEPT !.free = IF Len(list) > m.max THEN Tail(list) ELSE list,
                             !.delays = AddToWindow(@, start - t, m.max)]]

\* QueueModelHistoryList::computeQueueDelay: a request older than the history
\* waits as long as the others did on average.
IsOld(m, q, t, p) == m.analytical /\ t + p <= q.free[1][1]
\* "It doesn't make sense to me to demand a fit": it is served at the start of an
\* interval that is too short for it.
Squeezed(m, q, t, p) ==
    /\ m.kind = "history_list" /\ ~IsOld(m, q, t, p)
    /\ LET f == q.free[Interval(q, t, p)] IN t < f[1] /\ f[1] + p > f[2]
HistoryDelay(m, q, t, p) ==
    IF IsOld(m, q, t, p) THEN [delay |-> Mean(q.delays), queue |-> q]
    ELSE HistoryList(m, q, t, p)

\* QueueModelWindowedMG1::computeQueueDelay.  Both arguments of its max() are
\* unsigned differences: the window is emptied whenever one of them wraps, that is
\* until the request's time has reached ten window sizes.
WindowedDelay(m, q, t, p) ==
    LET before == t - 10 * m.window
        behind == m.global - m.window
        earliest == IF before < 0 \/ behind < 0 THEN Horizon
                    ELSE IF before > behind THEN before ELSE behind
        kept == SelectSeq(q.window, LAMBDA x : x[1] >= earliest)
        sum == FoldLeft(LAMBDA s, x : s + x[2], 0, kept)
        sum2 == FoldLeft(LAMBDA s, x : s + x[2] * x[2], 0, kept)
        wait == IF 100 * sum > 99 * m.window THEN (50 * sum2) \div m.window
                ELSE sum2 \div (2 * (m.window - sum))
    IN  [delay |-> IF Len(kept) <= 1 THEN 0 ELSE IF wait > m.window THEN m.window ELSE wait,
         queue |-> [q EXCEPT !.window = Append(kept, <<t, p>>)]]

\* QueueModel::create
ComputeQueueDelay(m, q, t, p) ==
    CASE m.kind = "basic" -> BasicDelay(m, q, t, p)
      [] m.kind = "history_list" -> HistoryDelay(m, q, t, p)
      [] m.kind = "contention" -> ContentionDelay(m, q, t, p)
      [] m.kind = "windowed_mg1" -> WindowedDelay(m, q, t, p)
=============================================================================
