-------------------------- MODULE LocalityPredictor --------------------------
(***************************************************************************)
(* The locality predictor: locality_profile.c and chunk_predictor.c around *)
(* one malloc().  A request is answered from the table of sizes            *)
(* (s2t_map), or from the allocation context of its call stack, of which   *)
(* it takes a snapshot; after the allocation NightWatch_sampling() either  *)
(* skips the chunk or has it monitored, and each finished round of the     *)
(* monitor comes back through update_context_mapping_type().               *)
(*                                                                         *)
(* Each section under context->lock or under a size entry's lock is one    *)
(* step; everything a thread read in one section and uses in the next is   *)
(* in req.  The locality of a chunk, its miss ratio, is a free choice.     *)
(***************************************************************************)
EXTENDS Integers, Sequences, FiniteSets

CONSTANTS
    Threads,
    Keys,                \* call stacks, get_context_key()
    Sizes,               \* the sizes asked for
    SMALL_MEMORY_CHUNK, LARGE_MEMORY_CHUNK, S2T_MAP_SIZE,
    CheckMax,            \* S2T_MAP_UPDATE_INTERVAL_MAX
    DecayInterval,       \* S2MT_ENTRY_DECAY_INTERVAL
    Ratio,               \* the 10 (and the 1/0.1) of update_s2t_map()
    IntWidth,            \* bits of an int
    Chunks               \* bound: the structures of monitored chunks

ASSUME PredictorAssumption ==
    /\ Sizes \subseteq Nat \ {0}
    /\ {SMALL_MEMORY_CHUNK, LARGE_MEMORY_CHUNK, S2T_MAP_SIZE} \subseteq Nat
    /\ SMALL_MEMORY_CHUNK <= LARGE_MEMORY_CHUNK
    /\ {CheckMax, DecayInterval, Ratio, IntWidth} \subseteq Nat \ {0}
    /\ Keys # {}

VARIABLES
    table,     \* locality_profile.s2t_map, the entries of Sizes
    context,   \* the contexts created so far
    found,     \* what hash_map_find_member() finds for a key, 0 for nothing
    chunk,     \* the monitored chunks
    pc,        \* where a thread is in malloc() or in an evaluation
    req        \* its request, and the snapshot of the context taken for it

vars == <<table, context, found, chunk, pc, req>>

Mappings == {"RESTRICT", "OPEN"}
Types == Mappings \cup {"UNKNOWN"}
InTable == {s \in Sizes : s <= S2T_MAP_SIZE}
Entry == [check_interval : Nat, to_check : Nat, mapping_type : Mappings,
          valid : BOOLEAN, n_open : Nat, n_restrict : Nat]
Free == [state |-> "FREE"]
InMalloc == {"find", "new", "interval", "snapshot", "alloc"}

\* What an int holds of the number x.
Int32(x) == ((x + 2^(IntWidth - 1)) % 2^IntWidth) - 2^(IntWidth - 1)

\* The thread-local snapshot starts as zeros, and RESTRICT_MAPPING is zero.
\* Between requests the fields that the next one sets are not told apart.
NoRequest == [key |-> CHOOSE k \in Keys : TRUE, size |-> 0,
              ctx |-> 0, sample_skip |-> 0, last |-> 0,
              predict_type |-> <<"RESTRICT", "RESTRICT">>, mapping |-> "OPEN"]

\* The request is over.
Done(t) ==
    /\ pc' = [pc EXCEPT ![t] = "idle"]
    /\ req' = [req EXCEPT ![t] = NoRequest]

\* The table is allocated by internal_calloc().
Init ==
    /\ table = [s \in InTable |->
                  [check_interval |-> 0, to_check |-> 0,
                   mapping_type |-> "RESTRICT", valid |-> FALSE,
                   n_open |-> 0, n_restrict |-> 0]]
    /\ context = <<>>
    /\ found = [k \in Keys |-> 0]
    /\ chunk = [c \in Chunks |-> Free]
    /\ pc = [t \in Threads |-> "idle"]
    /\ req = [t \in Threads |-> NoRequest]

-----------------------------------------------------------------------------
(* NightWatch_get_alloc_context().                                         *)

\* The size table may answer: it says yes to_check times.
TableAnswers(s) == s \in InTable /\ table[s].valid /\ table[s].to_check > 0

\* Mutant of QuickPath: the answers are not counted.
QuickPathForever(t, s) ==
    /\ pc[t] = "idle"
    /\ TableAnswers(s)
    /\ UNCHANGED vars

\* The quick path: the request is over as far as the predictor is concerned,
\* with the mapping of the entry; it is neither padded nor sampled.
QuickPath(t, s) ==
    /\ pc[t] = "idle"
    /\ TableAnswers(s)
    /\ table' = [table EXCEPT ![s].to_check = @ - 1]
    /\ UNCHANGED <<context, found, chunk, pc, req>>

\* The last guard is the bound on chunks: there is one for each request that
\* is on its way.
GeneralPath(t, k, s) ==
    /\ pc[t] = "idle"
    /\ ~TableAnswers(s)
    /\ Cardinality({u \in Threads : pc[u] \in InMalloc})
          < Cardinality({c \in Chunks : chunk[c] = Free})
    /\ req' = [req EXCEPT ![t].key = k, ![t].size = s]
    /\ pc' = [pc EXCEPT ![t] = "find"]
    /\ UNCHANGED <<table, context, found, chunk>>

FindContext(t) ==
    /\ pc[t] = "find"
    /\ req' = [req EXCEPT ![t].ctx = found[req[t].key]]
    /\ pc' = [pc EXCEPT ![t] = IF found[req[t].key] = 0 THEN "new" ELSE "interval"]
    /\ UNCHANGED <<table, context, found, chunk>>

\* init_context(): last_chunk_sz is whatever the memory holds.  The newest
\* member is the one found.
init_context(t) ==
    /\ pc[t] = "new"
    /\ \E last \in Sizes \cup {0} :
          context' = Append(context, [key |-> req[t].key,
                                      predict_type |-> <<"UNKNOWN", "UNKNOWN">>,
                                      sample_skip |-> 0, skip_interval |-> 0,
                                      last_chunk_sz |-> last])
    /\ found' = [found EXCEPT ![req[t].key] = Len(context) + 1]
    /\ req' = [req EXCEPT ![t].ctx = Len(context) + 1]
    /\ pc' = [pc EXCEPT ![t] = "interval"]
    /\ UNCHANGED <<table, chunk>>

\* Mutant of NextInterval: an entry that is not valid is left as it is.
IntervalUnset(e, n) ==
    n \in IF e.valid /\ e.to_check = 0 THEN (2 * CheckMax) .. (3 * CheckMax - 1)
          ELSE {e.check_interval}

\* The next check_interval of entry e is n, random() being free.
NextInterval(e, n) ==
    \/ /\ ~e.valid
       /\ n = 1
    \/ /\ e.valid /\ e.to_check > 0
       /\ n = e.check_interval
    \/ /\ e.valid /\ e.to_check = 0
       /\ n \in IF e.check_interval < CheckMax
                THEN e.check_interval .. (3 * e.check_interval - 1)
                ELSE (2 * CheckMax) .. (3 * CheckMax - 1)

update_s2t_skip_interval(t) ==
    LET s == req[t].size IN
    /\ pc[t] = "interval"
    /\ \/ /\ s \notin InTable
          /\ UNCHANGED table
       \/ /\ s \in InTable
          /\ \E n \in 0..(3 * CheckMax) :
                /\ NextInterval(table[s], n)
                /\ table' = [table EXCEPT
                       ![s].check_interval = n,
                       ![s].to_check = IF table[s].valid /\ @ > 0 THEN @ ELSE n]
    /\ pc' = [pc EXCEPT ![t] = "snapshot"]
    /\ UNCHANGED <<context, found, chunk, req>>

\* The snapshot has the size and the skip count, and not the prediction.
copy_context(t) ==
    LET c == context[req[t].ctx] IN
    /\ pc[t] = "snapshot"
    /\ req' = [req EXCEPT ![t].last = c.last_chunk_sz,
                          ![t].sample_skip = c.sample_skip]
    /\ pc' = [pc EXCEPT ![t] = "alloc"]
    /\ UNCHANGED <<table, context, found, chunk>>

-----------------------------------------------------------------------------
(* The allocation: NightWatch_size_demand(), NightWatch_heap_type_hint()   *)
(* and, once the memory is there, NightWatch_sampling().                   *)

\* Is the request enlarged to SMALL_MEMORY_CHUNK?
NightWatch_size_demand(r) == r.sample_skip = 0 /\ r.size < SMALL_MEMORY_CHUNK

NightWatch_heap_type_hint(r) ==
    IF \A i \in 1..2 : r.predict_type[i] = "RESTRICT" THEN "RESTRICT" ELSE "OPEN"

Skips(r) ==
    /\ r.sample_skip > 0
    /\ r.size < SMALL_MEMORY_CHUNK \/ (r.last = r.size /\ r.size < LARGE_MEMORY_CHUNK)

\* The chunk is skipped: the context's own count goes down.
SkipChunk(t) ==
    /\ pc[t] = "alloc"
    /\ Skips(req[t])
    /\ context' = [context EXCEPT ![req[t].ctx].sample_skip = Int32(@ - 1)]
    /\ Done(t)
    /\ UNCHANGED <<table, found, chunk>>

\* The context of a chunk that is going to be monitored.
Sampled(c, s) ==
    LET interval == IF c.last_chunk_sz # s THEN 0 ELSE c.skip_interval IN
    [c EXCEPT !.skip_interval = interval,
              !.predict_type[1] = IF c.last_chunk_sz # s THEN "UNKNOWN" ELSE @,
              !.sample_skip = IF @ <= 0 /\ s < LARGE_MEMORY_CHUNK
                              THEN interval ELSE @,
              !.last_chunk_sz = s]

NightWatch_sampling(t, c) ==
    LET r == req[t] IN
    /\ pc[t] = "alloc"
    /\ ~Skips(r)
    /\ chunk[c] = Free
    /\ chunk' = [chunk EXCEPT ![c] =
                   [state |-> "UNDER", ctx |-> r.ctx, size |-> r.size,
                    padded |-> NightWatch_size_demand(r),
                    mapping_type |-> NightWatch_heap_type_hint(r),
                    round |-> "START"]]
    /\ context' = [context EXCEPT ![r.ctx] = Sampled(@, r.size)]
    /\ Done(t)
    /\ UNCHANGED <<table, found>>

-----------------------------------------------------------------------------
(* update_context_mapping_type(), at the end of a round of the monitor     *)
(* (page_sample_complete()) or when a chunk still monitored is freed       *)
(* (stop_monit_chunk()).                                                   *)

Evaluated(c, x, mapping) ==
    LET interval == IF mapping # x.mapping_type THEN 0
                    ELSE IF c.skip_interval = 0 THEN 1
                    ELSE Int32(2 * c.skip_interval)
        types == <<c.predict_type[2], mapping>>
    IN  IF x.size < LARGE_MEMORY_CHUNK
        THEN [c EXCEPT !.predict_type = types, !.skip_interval = interval,
                       !.sample_skip = interval]
        ELSE [c EXCEPT !.predict_type = types]

\* From the second round on the chunk is moved to the mapping chosen; under
\* restrict mapping it waits to be revived.
NextRound(x, mapping) ==
    LET over == [x EXCEPT !.state = IF mapping = "RESTRICT" THEN "REVIVE" ELSE "OVER"]
    IN  IF x.round = "START" THEN [over EXCEPT !.round = "FIRST"]
        ELSE [over EXCEPT !.round = "SECOND", !.mapping_type = mapping]

update_context_mapping_type(t, c, mapping, last) ==
    LET x == chunk[c] IN
    /\ pc[t] = "idle"
    /\ x.state = "UNDER"
    /\ context' = [context EXCEPT ![x.ctx] = Evaluated(@, x, mapping)]
    /\ chunk' = [chunk EXCEPT ![c] = IF last THEN Free ELSE NextRound(x, mapping)]
    /\ IF x.size \in InTable
       THEN /\ req' = [req EXCEPT ![t].size = x.size, ![t].mapping = mapping]
            /\ pc' = [pc EXCEPT ![t] = "table"]
       ELSE UNCHANGED <<req, pc>>
    /\ UNCHANGED <<table, found>>

revive_sample_handler(c) ==
    /\ chunk[c].state = "REVIVE"
    /\ chunk' = [chunk EXCEPT ![c].state = "UNDER"]
    /\ UNCHANGED <<table, context, found, pc, req>>

\* A chunk that is not under monitoring is freed without another evaluation.
NightWatch_collect_sample(t, c) ==
    /\ pc[t] = "idle"
    /\ chunk[c].state \in {"REVIVE", "OVER"}
    /\ chunk' = [chunk EXCEPT ![c] = Free]
    /\ UNCHANGED <<table, context, found, pc, req>>

Counted(e, mapping) ==
    [e EXCEPT !.n_open = IF mapping = "OPEN" THEN @ + 1 ELSE @,
              !.n_restrict = IF mapping = "RESTRICT" THEN @ + 1 ELSE @]

\* One mapping decides when the other was never seen or is Ratio times rarer.
Decided(e) ==
    LET restrict == e.n_restrict # 0
                    /\ (e.n_open = 0 \/ e.n_open * Ratio < e.n_restrict)
        open == e.n_restrict = 0 \/ e.n_open > Ratio * e.n_restrict
    IN  [e EXCEPT !.valid = restrict \/ open,
                  !.mapping_type = IF restrict THEN "RESTRICT" ELSE "OPEN"]

\* Mutant of Decayed: only one counter is halved.
DecaysRestrict(e) ==
    IF e.n_open + e.n_restrict >= DecayInterval
    THEN [e EXCEPT !.n_restrict = @ \div 2]
    ELSE e

Decayed(e) ==
    IF e.n_open + e.n_restrict >= DecayInterval
    THEN [e EXCEPT !.n_open = @ \div 2, !.n_restrict = @ \div 2]
    ELSE e

update_s2t_map(t) ==
    /\ pc[t] = "table"
    /\ table' = [table EXCEPT ![req[t].size] =
                   Decayed(Decided(Counted(@, req[t].mapping)))]
    /\ Done(t)
    /\ UNCHANGED <<context, found, chunk>>

-----------------------------------------------------------------------------
Request(t, s) == QuickPath(t, s) \/ \E k \in Keys : GeneralPath(t, k, s)

Step(t) ==
    \/ FindContext(t) \/ init_context(t) \/ update_s2t_skip_interval(t)
    \/ copy_context(t) \/ SkipChunk(t) \/ update_s2t_map(t)
    \/ \E c \in Chunks : NightWatch_sampling(t, c)

Next ==
    \/ \E c \in Chunks : revive_sample_handler(c)
    \/ \E t \in Threads :
        \/ \E s \in Sizes : Request(t, s)
        \/ Step(t)
        \/ \E c \in Chunks :
              \/ NightWatch_collect_sample(t, c)
              \/ \E mapping \in Mappings, last \in BOOLEAN :
                    update_context_mapping_type(t, c, mapping, last)

Spec == Init /\ [][Next]_vars

\* A malloc() that has started goes on, and the program keeps asking for every
\* size: this is the premise of Rechecked and nothing the library ensures.
AskingSpec ==
    /\ Spec
    /\ \A t \in Threads :
          WF_vars(Step(t)) /\ \A s \in Sizes : SF_vars(Request(t, s))

-----------------------------------------------------------------------------
(* Properties.                                                             *)

\* update_s2t_skip_interval() divides by twice the interval of an entry that is
\* valid: whichever thread made it valid, an interval had been set before.  The
\* interval stays below three times its base, and what is left of it, to_check,
\* never exceeds it, whatever the order of the threads' updates.
IntervalPositive ==
    \A s \in InTable :
        /\ table[s].valid => table[s].check_interval > 0
        /\ table[s].check_interval < 3 * CheckMax
        /\ table[s].to_check <= table[s].check_interval

\* A size answered from the table has one mapping seen Ratio times as often as
\* the other, also after the counters were halved by update_s2t_map(), which
\* keeps them below DecayInterval.
AnswerHasMajority ==
    \A s \in InTable :
        /\ table[s].n_open + table[s].n_restrict < DecayInterval
        /\ table[s].valid =>
            IF table[s].mapping_type = "RESTRICT"
            THEN table[s].n_open * Ratio <= table[s].n_restrict
            ELSE table[s].n_restrict * Ratio <= table[s].n_open

\* "page alignment for small sampled chunks": a small chunk that is monitored
\* was enlarged, because monit_chunk() protects pages of SMALL_MEMORY_CHUNK
\* bytes from its start on, whatever lies there.
MonitoredChunksPadded ==
    \A c \in Chunks :
        chunk[c] # Free /\ chunk[c].size < SMALL_MEMORY_CHUNK => chunk[c].padded

\* "uses its predecessor chunks' locality profiles to predict": the mapping
\* hinted for a request is the one its context's last two results call for.
HintFollowsProfile ==
    \A t \in Threads :
        pc[t] = "alloc" =>
            NightWatch_heap_type_hint(req[t])
                = NightWatch_heap_type_hint(context[req[t].ctx])

\* While the program keeps asking for a size, the table does not answer for
\* ever: the size goes back to its contexts again and again.
Rechecked ==
    \A s \in InTable : []<>(~table[s].valid \/ table[s].to_check = 0)
=============================================================================
