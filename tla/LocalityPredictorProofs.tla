----------------------- MODULE LocalityPredictorProofs -----------------------
(***************************************************************************)
(* Proofs about LocalityPredictor, for any threads, call stacks, sizes and *)
(* parameters of the library.                                              *)
(***************************************************************************)
EXTENDS LocalityPredictor, FiniteSetTheorems, SequenceTheorems, TLAPS

-----------------------------------------------------------------------------
(* Powers of two, the sizes of machine integers and of hash tables.  The   *)
(* provers know nothing of them, and 2^n is the number of subsets of 1..n: *)
(* counting subsets takes the place of an induction over n.                *)

\* A power of two is positive: there is at least the empty subset.
LEMMA PowerPositive == \A n \in Nat : 2^n \in Nat /\ 2^n > 0
<1> SUFFICES ASSUME NEW n \in Nat PROVE 2^n \in Nat /\ 2^n > 0
  OBVIOUS
<1>1. IsFiniteSet(1..n) /\ Cardinality(1..n) = n
  BY FS_Interval
<1>2. IsFiniteSet(SUBSET (1..n)) /\ Cardinality(SUBSET (1..n)) = 2^n
  BY <1>1, FS_SUBSET
<1>3. SUBSET (1..n) # {}
  OBVIOUS
<1> QED
  BY <1>2, <1>3, FS_EmptySet, FS_CardinalityType

-----------------------------------------------------------------------------
(* Types.                                                                  *)

PCs == InMalloc \cup {"idle", "table"}
Context == [key : Keys, predict_type : [1..2 -> Types], sample_skip : Int,
            skip_interval : Int, last_chunk_sz : Nat]
Monitored == [state : {"UNDER", "REVIVE", "OVER"}, ctx : Nat, size : Sizes,
              padded : BOOLEAN, mapping_type : Mappings,
              round : {"START", "FIRST", "SECOND"}]
RequestRecord == [key : Keys, size : Nat, ctx : Nat, sample_skip : Int, last : Nat,
                  predict_type : [1..2 -> Types], mapping : Mappings]

\* The types of the predictor's state.
TypeOK ==
    /\ table \in [InTable -> Entry]
    /\ context \in Seq(Context)
    /\ found \in [Keys -> Nat]
    /\ chunk \in [Chunks -> {Free} \cup Monitored]
    /\ pc \in [Threads -> PCs]
    /\ req \in [Threads -> RequestRecord]

\* Every reference to a context is to one that was created.
ContextsExist ==
    /\ \A k \in Keys : found[k] <= Len(context)
    /\ \A t \in Threads :
          pc[t] \in {"interval", "snapshot", "alloc"} =>
             req[t].ctx \in 1..Len(context)
    /\ \A c \in Chunks : chunk[c] # Free => chunk[c].ctx \in 1..Len(context)

\* A request is for a size of the program, and an update of the table for a
\* size of the table.
SizesKnown ==
    \A t \in Threads :
       /\ pc[t] \in InMalloc => req[t].size \in Sizes
       /\ pc[t] = "table" => req[t].size \in InTable

\* A request that went through update_s2t_skip_interval() left an interval
\* behind, and so did the request of every monitored chunk: this is what makes
\* the interval positive before update_s2t_map() makes the entry valid.
IntervalSet ==
    /\ \A t \in Threads :
          pc[t] \in {"snapshot", "alloc", "table"} /\ req[t].size \in InTable =>
             table[req[t].size].check_interval > 0
    /\ \A c \in Chunks :
          chunk[c] # Free /\ chunk[c].size \in InTable =>
             table[chunk[c].size].check_interval > 0

IInv ==
    /\ TypeOK
    /\ ContextsExist
    /\ SizesKnown
    /\ IntervalSet
    /\ IntervalPositive
    /\ AnswerHasMajority

-----------------------------------------------------------------------------
(* The operators of the model.                                             *)

\* What an int holds is an integer.
LEMMA Int32Type == \A x \in Int : Int32(x) \in Int
<1>1. IntWidth \in Nat /\ IntWidth - 1 \in Nat
  BY PredictorAssumption
<1>2. 2^IntWidth \in Nat /\ 2^IntWidth > 0 /\ 2^(IntWidth - 1) \in Nat
  BY <1>1, PowerPositive
<1> DEFINE m == 2^IntWidth
           h == 2^(IntWidth - 1)
<1>3. m \in Nat /\ m > 0 /\ h \in Nat
  BY <1>2
<1> HIDE DEF m, h
<1>4. \A x \in Int : ((x + h) % m) - h \in Int
  BY <1>3
<1> QED
  BY <1>4 DEF Int32, m, h

\* Halving both counters keeps a majority of Ratio to one.
LEMMA HalvesKeepMajority ==
  ASSUME NEW a \in Nat, NEW b \in Nat, NEW r \in Nat, a * r <= b
  PROVE  (a \div 2) * r <= b \div 2
OBVIOUS

\* What update_s2t_map() does to an entry: the counters stay below
\* DecayInterval, the interval is left alone, and an entry that becomes valid
\* has a majority.
LEMMA UpdatedEntry ==
  ASSUME NEW e \in Entry, NEW mapping \in Mappings,
         e.n_open + e.n_restrict < DecayInterval
  PROVE  LET f == Decayed(Decided(Counted(e, mapping))) IN
         /\ f \in Entry
         /\ f.check_interval = e.check_interval
         /\ f.to_check = e.to_check
         /\ f.n_open + f.n_restrict < DecayInterval
         /\ f.valid => IF f.mapping_type = "RESTRICT"
                       THEN f.n_open * Ratio <= f.n_restrict
                       ELSE f.n_restrict * Ratio <= f.n_open
<1> DEFINE g == Counted(e, mapping)
           h == Decided(g)
           f == Decayed(h)
<1>0. DecayInterval \in Nat \ {0} /\ Ratio \in Nat \ {0}
  BY PredictorAssumption
<1>1. /\ g \in Entry /\ g.check_interval = e.check_interval /\ g.to_check = e.to_check
      /\ g.n_open + g.n_restrict <= DecayInterval
  <2>1. e.n_open \in Nat /\ e.n_restrict \in Nat
    BY DEF Entry
  <2>2. PICK a \in Nat, b \in Nat :
           /\ g = [e EXCEPT !.n_open = a, !.n_restrict = b]
           /\ a + b = e.n_open + e.n_restrict + 1
    <3>1. CASE mapping = "OPEN"
      <4>1. g = [e EXCEPT !.n_open = e.n_open + 1, !.n_restrict = e.n_restrict]
        BY <3>1 DEF Counted
      <4>2. e.n_open + 1 \in Nat /\ (e.n_open + 1) + e.n_restrict = e.n_open + e.n_restrict + 1
        BY <2>1
      <4> HIDE DEF g
      <4> QED
        BY <2>1, <4>1, <4>2 
    <3>2. CASE mapping = "RESTRICT"
      <4>1. g = [e EXCEPT !.n_open = e.n_open, !.n_restrict = e.n_restrict + 1]
        BY <3>2 DEF Counted
      <4>2. e.n_restrict + 1 \in Nat /\ e.n_open + (e.n_restrict + 1) = e.n_open + e.n_restrict + 1
        BY <2>1
      <4> HIDE DEF g
      <4> QED
        BY <2>1, <4>1, <4>2
    <3> QED
      BY <3>1, <3>2 DEF Mappings
  <2> HIDE DEF g
  <2>3. g \in Entry /\ g.n_open = a /\ g.n_restrict = b
    BY <2>2 DEF Entry
  <2>4. g.check_interval = e.check_interval /\ g.to_check = e.to_check
    BY <2>2 DEF Entry
  <2> QED
    BY <1>0, <2>1, <2>2, <2>3, <2>4
<1> HIDE DEF g
<1> DEFINE restrict == /\ g.n_restrict # 0
                       /\ g.n_open = 0 \/ g.n_open * Ratio < g.n_restrict
           open == g.n_restrict = 0 \/ g.n_open > Ratio * g.n_restrict
<1>h. h = [g EXCEPT !.valid = restrict \/ open,
                    !.mapping_type = IF restrict THEN "RESTRICT" ELSE "OPEN"]
  BY DEF Decided
<1> HIDE DEF h
<1>2. /\ h \in Entry /\ h.check_interval = g.check_interval /\ h.to_check = g.to_check
      /\ h.n_open = g.n_open /\ h.n_restrict = g.n_restrict
      /\ h.valid => restrict \/ open
      /\ h.mapping_type = IF restrict THEN "RESTRICT" ELSE "OPEN"
  BY <1>h, <1>1 DEF Entry, Mappings
<1>3. h.valid => IF h.mapping_type = "RESTRICT"
                 THEN h.n_open * Ratio <= h.n_restrict
                 ELSE h.n_restrict * Ratio <= h.n_open
  <2>1. g.n_open \in Nat /\ g.n_restrict \in Nat
    BY <1>1 DEF Entry
  <2>2. restrict => g.n_open * Ratio <= g.n_restrict
    BY <1>0, <2>1
  <2>3. open => g.n_restrict * Ratio <= g.n_open
    BY <1>0, <2>1
  <2> HIDE DEF restrict, open
  <2> QED
    BY <1>2, <2>2, <2>3
<1> HIDE DEF h
<1>4. /\ f \in Entry /\ f.check_interval = h.check_interval /\ f.to_check = h.to_check
      /\ f.valid = h.valid /\ f.mapping_type = h.mapping_type
      /\ f.n_open + f.n_restrict < DecayInterval
  <2>1. h.n_open \in Nat /\ h.n_restrict \in Nat
    BY <1>2 DEF Entry
  <2>2. CASE h.n_open + h.n_restrict >= DecayInterval
    <3>1. f = [h EXCEPT !.n_open = h.n_open \div 2, !.n_restrict = h.n_restrict \div 2]
      BY <2>2 DEF Decayed
    <3>2. h.n_open \div 2 \in Nat /\ h.n_restrict \div 2 \in Nat
      BY <2>1
    <3>3. (h.n_open \div 2) + (h.n_restrict \div 2) < DecayInterval
      BY <1>0, <1>1, <1>2, <2>1
    <3> HIDE DEF f
    <3> QED
      BY <1>2, <2>1, <3>1, <3>2, <3>3 DEF Entry
  <2>3. CASE ~(h.n_open + h.n_restrict >= DecayInterval)
    BY <1>0, <1>2, <2>1, <2>3 DEF Decayed, Entry
  <2> QED
    BY <2>2, <2>3
<1>5. h.n_open \in Nat /\ h.n_restrict \in Nat
  BY <1>2 DEF Entry
<1>6. CASE h.n_open + h.n_restrict >= DecayInterval
  <2>1. f.n_open = h.n_open \div 2 /\ f.n_restrict = h.n_restrict \div 2
    BY <1>2, <1>6 DEF Decayed, Entry
  <2>2. h.n_open * Ratio <= h.n_restrict => f.n_open * Ratio <= f.n_restrict
    BY <1>0, <1>5, <2>1, HalvesKeepMajority
  <2>3. h.n_restrict * Ratio <= h.n_open => f.n_restrict * Ratio <= f.n_open
    BY <1>0, <1>5, <2>1, HalvesKeepMajority
  <2> HIDE DEF f
  <2> QED
    BY <1>1, <1>2, <1>3, <1>4, <2>2, <2>3 DEF f, g, h
<1>7. CASE ~(h.n_open + h.n_restrict >= DecayInterval)
  <2>1. f = h
    BY <1>7 DEF Decayed
  <2> HIDE DEF f
  <2> QED
    BY <1>1, <1>2, <1>3, <1>4, <2>1 DEF f, g, h
<1> QED
  BY <1>6, <1>7

\* What update_s2t_skip_interval() does to an entry.
LEMMA NextIntervalBounds ==
  ASSUME NEW e \in Entry, NEW n \in 0..(3 * CheckMax), NextInterval(e, n),
         e.valid => e.check_interval > 0, e.check_interval < 3 * CheckMax,
         e.to_check <= e.check_interval
  PROVE  /\ n > 0 /\ n < 3 * CheckMax
         /\ (IF e.valid /\ e.to_check > 0 THEN e.to_check ELSE n) \in Nat
         /\ (IF e.valid /\ e.to_check > 0 THEN e.to_check ELSE n) <= n
<1>1. CheckMax \in Nat \ {0}
  BY PredictorAssumption
<1>2. e.check_interval \in Nat /\ e.to_check \in Nat /\ e.valid \in BOOLEAN
  BY DEF Entry
<1> QED
  BY <1>1, <1>2 DEF NextInterval

\* The request of a thread that asks for nothing, and the contexts that
\* NightWatch_sampling() and update_context_mapping_type() leave, have their type.
LEMMA RecordTypes ==
  /\ NoRequest \in RequestRecord
  /\ \A c \in Context, s \in Sizes : Sampled(c, s) \in Context
  /\ \A c \in Context, x \in Monitored, mapping \in Mappings :
        Evaluated(c, x, mapping) \in Context
  /\ \A x \in Monitored, mapping \in Mappings :
        /\ NextRound(x, mapping) \in Monitored
        /\ NextRound(x, mapping).ctx = x.ctx
        /\ NextRound(x, mapping).size = x.size
        /\ NextRound(x, mapping).padded = x.padded
<1>1. NoRequest \in RequestRecord
  <2>1. (CHOOSE k \in Keys : TRUE) \in Keys
    BY PredictorAssumption
  <2>2. <<"RESTRICT", "RESTRICT">> \in [1..2 -> Types]
    BY DEF Types, Mappings
  <2> QED
    BY <2>1, <2>2 DEF NoRequest, RequestRecord, Mappings
<1>2. ASSUME NEW c \in Context, NEW s \in Sizes
      PROVE  Sampled(c, s) \in Context
  <2> DEFINE interval == IF c.last_chunk_sz # s THEN 0 ELSE c.skip_interval
             skip == IF c.sample_skip <= 0 /\ s < LARGE_MEMORY_CHUNK
                     THEN interval ELSE c.sample_skip
             types == [c.predict_type EXCEPT ![1] =
                         IF c.last_chunk_sz # s THEN "UNKNOWN" ELSE @]
  <2>1. interval \in Int /\ skip \in Int /\ s \in Nat
    BY PredictorAssumption DEF Context
  <2>2. types \in [1..2 -> Types]
    <3>1. c.predict_type \in [1..2 -> Types]
      BY DEF Context
    <3> QED
      BY <3>1 DEF Types
  <2>3. Sampled(c, s) = [c EXCEPT !.skip_interval = interval, !.predict_type = types,
                                  !.sample_skip = skip, !.last_chunk_sz = s]
    BY DEF Sampled, Context
  <2> HIDE DEF interval, skip, types
  <2> QED
    BY <2>1, <2>2, <2>3 DEF Context
<1>3. ASSUME NEW c \in Context, NEW x \in Monitored, NEW mapping \in Mappings
      PROVE  Evaluated(c, x, mapping) \in Context
  <2> DEFINE interval == IF mapping # x.mapping_type THEN 0
                         ELSE IF c.skip_interval = 0 THEN 1
                         ELSE Int32(2 * c.skip_interval)
             types == <<c.predict_type[2], mapping>>
  <2>1. interval \in Int
    BY Int32Type DEF Context
  <2>2. types \in [1..2 -> Types]
    BY DEF Context, Types
  <2>3. Evaluated(c, x, mapping) =
           IF x.size < LARGE_MEMORY_CHUNK
           THEN [c EXCEPT !.predict_type = types, !.skip_interval = interval,
                          !.sample_skip = interval]
           ELSE [c EXCEPT !.predict_type = types]
    BY DEF Evaluated
  <2> HIDE DEF interval, types
  <2> QED
    BY <2>1, <2>2, <2>3 DEF Context
<1>4. ASSUME NEW x \in Monitored, NEW mapping \in Mappings
      PROVE  /\ NextRound(x, mapping) \in Monitored
             /\ NextRound(x, mapping).ctx = x.ctx
             /\ NextRound(x, mapping).size = x.size
             /\ NextRound(x, mapping).padded = x.padded
  <2> DEFINE st == IF mapping = "RESTRICT" THEN "REVIVE" ELSE "OVER"
             over == [x EXCEPT !.state = st]
             first == [over EXCEPT !.round = "FIRST"]
             second == [over EXCEPT !.round = "SECOND", !.mapping_type = mapping]
  <2>1. /\ over \in Monitored /\ over.ctx = x.ctx /\ over.size = x.size
        /\ over.padded = x.padded
    BY DEF Monitored
  <2>2. NextRound(x, mapping) = IF x.round = "START" THEN first ELSE second
    BY DEF NextRound
  <2> HIDE DEF over
  <2>3. /\ first \in Monitored /\ first.ctx = over.ctx /\ first.size = over.size
        /\ first.padded = over.padded
    BY <2>1 DEF Monitored
  <2>4. /\ second \in Monitored /\ second.ctx = over.ctx /\ second.size = over.size
        /\ second.padded = over.padded
    BY <2>1 DEF Monitored
  <2> HIDE DEF first, second
  <2> QED
    BY <2>1, <2>2, <2>3, <2>4
<1> QED
  BY <1>1, <1>2, <1>3, <1>4

-----------------------------------------------------------------------------
(* IInv is inductive.                                                      *)

\* The size table is empty, no context exists and no chunk is monitored.
LEMMA InitIInv == Init => IInv
<1> SUFFICES ASSUME Init PROVE IInv
  OBVIOUS
<1>1. TypeOK
  <2>1. context \in Seq(Context)
    BY DEF Init
  <2> QED
    BY <2>1, RecordTypes DEF Init, TypeOK, Entry, Mappings, PCs
<1>2. IntervalPositive /\ AnswerHasMajority
  <2>1. 0 < 3 * CheckMax /\ 0 < DecayInterval /\ 0 * Ratio = 0
    BY PredictorAssumption
  <2> QED
    BY <2>1 DEF Init, IntervalPositive, AnswerHasMajority
<1>3. ContextsExist /\ SizesKnown /\ IntervalSet
  BY DEF Init, ContextsExist, SizesKnown, IntervalSet, InMalloc
<1> QED
  BY <1>1, <1>2, <1>3 DEF IInv

\* Each entry of a table that changed in one place only is the old one or the new.
LEMMA TableUpdate ==
  ASSUME TypeOK, NEW s \in InTable, NEW e \in Entry,
         table' = [table EXCEPT ![s] = e]
  PROVE  /\ table' \in [InTable -> Entry]
         /\ table'[s] = e
         /\ \A r \in InTable : r # s => table'[r] = table[r]
BY DEF TypeOK

\* A request that the size table answers only counts down to the next check.
LEMMA QuickPathKeeps ==
  ASSUME IInv, NEW t \in Threads, NEW s \in Sizes, QuickPath(t, s)
  PROVE  IInv'
<1> USE DEF IInv
<1> DEFINE e == [table[s] EXCEPT !.to_check = @ - 1]
<1>1. s \in InTable /\ table' = [table EXCEPT ![s] = e] /\ table[s].to_check > 0
  BY DEF QuickPath, TableAnswers, TypeOK
<1>2. table[s] \in Entry
  BY <1>1 DEF TypeOK
<1>3. /\ e \in Entry /\ e.check_interval = table[s].check_interval
      /\ e.to_check = table[s].to_check - 1 /\ e.valid = table[s].valid
      /\ e.n_open = table[s].n_open /\ e.n_restrict = table[s].n_restrict
      /\ e.mapping_type = table[s].mapping_type
  BY <1>1, <1>2 DEF Entry
<1> HIDE DEF e
<1>4. /\ table' \in [InTable -> Entry] /\ table'[s] = e
      /\ \A r \in InTable : r # s => table'[r] = table[r]
  BY <1>1, <1>3, TableUpdate
<1>5. UNCHANGED <<context, found, chunk, pc, req>>
  BY DEF QuickPath
<1>6. TypeOK'
  BY <1>4, <1>5 DEF TypeOK
<1>7. ContextsExist' /\ SizesKnown'
  BY <1>5 DEF ContextsExist, SizesKnown
<1>8. IntervalSet'
  BY <1>3, <1>4, <1>5 DEF IntervalSet
<1>9. IntervalPositive'
  <2>1. \A r \in InTable : table[r].to_check \in Nat /\ table[r].check_interval \in Nat
    BY DEF TypeOK, Entry
  <2> QED
    BY <1>1, <1>3, <1>4, <2>1 DEF IntervalPositive
<1>10. AnswerHasMajority'
  BY <1>1, <1>3, <1>4 DEF AnswerHasMajority
<1> QED
  BY <1>6, <1>7, <1>8, <1>9, <1>10

\* A step that leaves the table alone keeps what is said of its entries.
LEMMA TableUnchanged ==
  ASSUME IInv, table' = table
  PROVE  IntervalPositive' /\ AnswerHasMajority'
BY DEF IInv, IntervalPositive, AnswerHasMajority

\* A request that the table does not answer begins the search for its context.
LEMMA GeneralPathKeeps ==
  ASSUME IInv, NEW t \in Threads, NEW k \in Keys, NEW s \in Sizes,
         GeneralPath(t, k, s)
  PROVE  IInv'
<1> USE DEF IInv
<1>1. /\ req' = [req EXCEPT ![t].key = k, ![t].size = s]
      /\ pc' = [pc EXCEPT ![t] = "find"]
      /\ UNCHANGED <<table, context, found, chunk>>
  BY DEF GeneralPath
<1>2. s \in Nat
  BY PredictorAssumption
<1>3. TypeOK'
  <2>1. req' \in [Threads -> RequestRecord]
    BY <1>1, <1>2 DEF TypeOK, RequestRecord
  <2> QED
    BY <1>1, <2>1 DEF TypeOK, PCs, InMalloc
<1>4. /\ pc'[t] = "find" /\ req'[t].size = s
      /\ \A u \in Threads \ {t} : pc'[u] = pc[u] /\ req'[u] = req[u]
  BY <1>1 DEF TypeOK, RequestRecord
<1>5. ContextsExist'
  BY <1>1, <1>4 DEF ContextsExist
<1>6. SizesKnown'
  BY <1>1, <1>4 DEF SizesKnown
<1>7. IntervalSet'
  BY <1>1, <1>4 DEF IntervalSet
<1> QED
  BY <1>1, <1>3, <1>5, <1>6, <1>7, TableUnchanged

\* The context that the map finds for the key exists.
LEMMA FindContextKeeps ==
  ASSUME IInv, NEW t \in Threads, FindContext(t)
  PROVE  IInv'
<1> USE DEF IInv
<1> DEFINE f == found[req[t].key]
<1>1. /\ req' = [req EXCEPT ![t].ctx = f]
      /\ pc' = [pc EXCEPT ![t] = IF f = 0 THEN "new" ELSE "interval"]
      /\ UNCHANGED <<table, context, found, chunk>>
      /\ pc[t] = "find"
  BY DEF FindContext
<1>2. f \in Nat /\ f <= Len(context)
  BY DEF TypeOK, RequestRecord, ContextsExist
<1> HIDE DEF f
<1>3. TypeOK'
  <2>1. req' \in [Threads -> RequestRecord]
    BY <1>1, <1>2 DEF TypeOK, RequestRecord
  <2> QED
    BY <1>1, <2>1 DEF TypeOK, PCs, InMalloc
<1>4. /\ pc'[t] = IF f = 0 THEN "new" ELSE "interval"
      /\ req'[t].size = req[t].size /\ req'[t].ctx = f
      /\ \A u \in Threads \ {t} : pc'[u] = pc[u] /\ req'[u] = req[u]
  BY <1>1 DEF TypeOK, RequestRecord
<1>5. ContextsExist'
  <2>1. Len(context) \in Nat
    BY DEF TypeOK
  <2>2. f # 0 => f \in 1..Len(context)
    BY <1>2, <2>1
  <2> QED
    BY <1>1, <1>4, <2>2 DEF ContextsExist
<1>6. SizesKnown'
  BY <1>1, <1>4 DEF SizesKnown, InMalloc
<1>7. IntervalSet'
  BY <1>1, <1>4 DEF IntervalSet
<1> QED
  BY <1>1, <1>3, <1>5, <1>6, <1>7, TableUnchanged

\* A new context exists from here on, whichever thread made it.
LEMMA InitContextKeeps ==
  ASSUME IInv, NEW t \in Threads, init_context(t)
  PROVE  IInv'
<1> USE DEF IInv
<1>1. PICK last \in Sizes \cup {0} :
         context' = Append(context, [key |-> req[t].key,
                                     predict_type |-> <<"UNKNOWN", "UNKNOWN">>,
                                     sample_skip |-> 0, skip_interval |-> 0,
                                     last_chunk_sz |-> last])
  BY DEF init_context
<1> DEFINE n == Len(context) + 1
<1>2. /\ found' = [found EXCEPT ![req[t].key] = n]
      /\ req' = [req EXCEPT ![t].ctx = n]
      /\ pc' = [pc EXCEPT ![t] = "interval"]
      /\ UNCHANGED <<table, chunk>>
      /\ pc[t] = "new"
  BY DEF init_context
<1>3. req[t].key \in Keys /\ Len(context) \in Nat /\ n \in Nat
  BY DEF TypeOK, RequestRecord
<1>4. /\ context' \in Seq(Context) /\ Len(context') = n
  <2>1. last \in Nat
    BY PredictorAssumption
  <2>2. <<"UNKNOWN", "UNKNOWN">> \in [1..2 -> Types]
    BY DEF Types
  <2> DEFINE r == [key |-> req[t].key, predict_type |-> <<"UNKNOWN", "UNKNOWN">>,
                   sample_skip |-> 0, skip_interval |-> 0, last_chunk_sz |-> last]
  <2>3. r \in Context
    BY <1>3, <2>1, <2>2 DEF Context
  <2>4. context' = Append(context, r)
    BY <1>1
  <2> HIDE DEF r
  <2> QED
    BY <2>3, <2>4, AppendProperties DEF TypeOK
<1>5. n = Len(context) + 1
  OBVIOUS
<1> HIDE DEF n
<1>6. TypeOK'
  <2>1. req' \in [Threads -> RequestRecord]
    BY <1>2, <1>3 DEF TypeOK, RequestRecord
  <2>2. found' \in [Keys -> Nat]
    BY <1>2, <1>3 DEF TypeOK
  <2> QED
    BY <1>2, <1>4, <2>1, <2>2 DEF TypeOK, PCs, InMalloc
<1>7. /\ pc'[t] = "interval"
      /\ req'[t].size = req[t].size /\ req'[t].ctx = n
      /\ \A u \in Threads \ {t} : pc'[u] = pc[u] /\ req'[u] = req[u]
  BY <1>2 DEF TypeOK, RequestRecord
<1>8. ContextsExist'
  <2>1. \A k \in Keys : found'[k] = n \/ found'[k] = found[k]
    BY <1>2 DEF TypeOK
  <2>2. \A k \in Keys : found[k] \in Nat /\ found[k] <= Len(context)
    BY DEF TypeOK, ContextsExist
  <2>3. \A k \in Keys : found'[k] <= Len(context')
    BY <1>3, <1>4, <1>5, <2>1, <2>2
  <2>4. n \in 1..Len(context') /\ \A i \in 1..Len(context) : i \in 1..Len(context')
    BY <1>3, <1>4, <1>5
  <2> QED
    BY <1>2, <1>7, <2>3, <2>4 DEF ContextsExist
<1>9. SizesKnown'
  BY <1>2, <1>7 DEF SizesKnown, InMalloc
<1>10. IntervalSet'
  BY <1>2, <1>7 DEF IntervalSet
<1> QED
  BY <1>2, <1>6, <1>8, <1>9, <1>10, TableUnchanged

\* update_s2t_skip_interval() gives an entry a positive interval before the
\* thread goes on, and keeps what is left of it within the interval.
LEMMA SkipIntervalKeeps ==
  ASSUME IInv, NEW t \in Threads, update_s2t_skip_interval(t)
  PROVE  IInv'
<1> USE DEF IInv
<1> DEFINE s == req[t].size
<1>1. /\ pc[t] = "interval" /\ pc' = [pc EXCEPT ![t] = "snapshot"]
      /\ UNCHANGED <<context, found, chunk, req>>
  BY DEF update_s2t_skip_interval
<1>2. /\ pc'[t] = "snapshot" /\ pc' \in [Threads -> PCs]
      /\ \A u \in Threads \ {t} : pc'[u] = pc[u]
  BY <1>1 DEF TypeOK, PCs, InMalloc
<1>3. ContextsExist'
  BY <1>1, <1>2 DEF ContextsExist
<1>4. SizesKnown'
  BY <1>1, <1>2 DEF SizesKnown, InMalloc
<1>5. CASE s \notin InTable /\ UNCHANGED table
  <2>1. TypeOK'
    BY <1>1, <1>2, <1>5 DEF TypeOK
  <2>2. IntervalSet'
    BY <1>1, <1>2, <1>5 DEF IntervalSet
  <2> QED
    BY <1>3, <1>4, <1>5, <2>1, <2>2, TableUnchanged
<1>6. CASE /\ s \in InTable
           /\ \E n \in 0..(3 * CheckMax) :
                /\ NextInterval(table[s], n)
                /\ table' = [table EXCEPT
                       ![s].check_interval = n,
                       ![s].to_check = IF table[s].valid /\ @ > 0 THEN @ ELSE n]
  <2>1. PICK n \in 0..(3 * CheckMax) :
           /\ NextInterval(table[s], n)
           /\ table' = [table EXCEPT
                  ![s].check_interval = n,
                  ![s].to_check = IF table[s].valid /\ @ > 0 THEN @ ELSE n]
    BY <1>6
  <2> DEFINE c == IF table[s].valid /\ table[s].to_check > 0
                  THEN table[s].to_check ELSE n
             e == [table[s] EXCEPT !.check_interval = n, !.to_check = c]
  <2>2. table[s] \in Entry
    BY <1>6 DEF TypeOK
  <2>3. n > 0 /\ n < 3 * CheckMax /\ c \in Nat /\ c <= n /\ n \in Nat
    BY <1>6, <2>1, <2>2, NextIntervalBounds DEF IntervalPositive
  <2>4. table' = [table EXCEPT ![s] = e]
    BY <1>6, <2>1, <2>2 DEF TypeOK, Entry
  <2> HIDE DEF c
  <2>5. /\ e \in Entry /\ e.check_interval = n /\ e.to_check = c
        /\ e.valid = table[s].valid /\ e.mapping_type = table[s].mapping_type
        /\ e.n_open = table[s].n_open /\ e.n_restrict = table[s].n_restrict
    BY <2>2, <2>3 DEF Entry
  <2> HIDE DEF e, s
  <2>6. /\ table' \in [InTable -> Entry] /\ table'[s] = e
        /\ \A r \in InTable : r # s => table'[r] = table[r]
    BY <1>6, <2>4, <2>5, TableUpdate
  <2>7. TypeOK'
    BY <1>1, <1>2, <2>6 DEF TypeOK
  <2>8. IntervalSet'
    <3>1. \A r \in InTable :
             table[r].check_interval > 0 => table'[r].check_interval > 0
      BY <2>3, <2>5, <2>6
    <3>2. table'[s].check_interval > 0
      BY <2>3, <2>5, <2>6
    <3> QED
      BY <1>1, <1>2, <3>1, <3>2 DEF IntervalSet, s
  <2>9. IntervalPositive'
    BY <2>3, <2>5, <2>6 DEF IntervalPositive
  <2>10. AnswerHasMajority'
    BY <2>5, <2>6 DEF AnswerHasMajority
  <2> QED
    BY <1>3, <1>4, <2>7, <2>8, <2>9, <2>10
<1> QED
  BY <1>5, <1>6 DEF update_s2t_skip_interval

\* copy_context() changes the snapshot only.
LEMMA CopyContextKeeps ==
  ASSUME IInv, NEW t \in Threads, copy_context(t)
  PROVE  IInv'
<1> USE DEF IInv
<1> DEFINE c == context[req[t].ctx]
<1>1. /\ req' = [req EXCEPT ![t].last = c.last_chunk_sz,
                            ![t].sample_skip = c.sample_skip]
      /\ pc' = [pc EXCEPT ![t] = "alloc"]
      /\ UNCHANGED <<table, context, found, chunk>>
      /\ pc[t] = "snapshot"
  BY DEF copy_context
<1>2. c.last_chunk_sz \in Nat /\ c.sample_skip \in Int
  <2>1. c \in Context
    BY <1>1, ElementOfSeq DEF TypeOK, ContextsExist
  <2> QED
    BY <2>1 DEF Context
<1> HIDE DEF c
<1>3. TypeOK'
  <2>1. req' \in [Threads -> RequestRecord]
    BY <1>1, <1>2 DEF TypeOK, RequestRecord
  <2> QED
    BY <1>1, <2>1 DEF TypeOK, PCs, InMalloc
<1>4. /\ pc'[t] = "alloc"
      /\ req'[t].size = req[t].size /\ req'[t].ctx = req[t].ctx
      /\ \A u \in Threads \ {t} : pc'[u] = pc[u] /\ req'[u] = req[u]
  BY <1>1 DEF TypeOK, RequestRecord
<1>5. ContextsExist'
  BY <1>1, <1>4 DEF ContextsExist
<1>6. SizesKnown'
  BY <1>1, <1>4 DEF SizesKnown, InMalloc
<1>7. IntervalSet'
  BY <1>1, <1>4 DEF IntervalSet
<1> QED
  BY <1>1, <1>3, <1>5, <1>6, <1>7, TableUnchanged

\* The end of a request, and one context replaced by another.
LEMMA RequestEnds ==
  ASSUME IInv, NEW t \in Threads, Done(t)
  PROVE  /\ pc' \in [Threads -> PCs] /\ req' \in [Threads -> RequestRecord]
         /\ pc'[t] = "idle"
         /\ \A u \in Threads \ {t} : pc'[u] = pc[u] /\ req'[u] = req[u]
BY RecordTypes DEF IInv, TypeOK, Done, PCs, InMalloc

\* Writing one context leaves the others alone.
LEMMA ContextUpdate ==
  ASSUME TypeOK, NEW i \in 1..Len(context), NEW r \in Context,
         context' = [context EXCEPT ![i] = r]
  PROVE  /\ context' \in Seq(Context) /\ Len(context') = Len(context)
         /\ context'[i] = r
         /\ \A j \in 1..Len(context) : j # i => context'[j] = context[j]
BY ExceptSeq DEF TypeOK

\* SkipChunk: the context's count goes down and the request is over.
LEMMA SkipChunkKeeps ==
  ASSUME IInv, NEW t \in Threads, SkipChunk(t)
  PROVE  IInv'
<1> USE DEF IInv
<1> DEFINE i == req[t].ctx
           r == [context[i] EXCEPT !.sample_skip = Int32(context[i].sample_skip - 1)]
<1>1. /\ context' = [context EXCEPT ![i] = r] /\ Done(t)
      /\ UNCHANGED <<table, found, chunk>> /\ pc[t] = "alloc"
  BY DEF SkipChunk
<1>2. context[i] \in Context /\ i \in 1..Len(context)
  BY <1>1, ElementOfSeq DEF TypeOK, ContextsExist
<1>3. r \in Context
  <2>1. Int32(context[i].sample_skip - 1) \in Int
    BY <1>2, Int32Type DEF Context
  <2> QED
    BY <1>2, <2>1 DEF Context
<1> HIDE DEF i, r
<1>4. context' \in Seq(Context) /\ Len(context') = Len(context)
  BY <1>1, <1>2, <1>3, ContextUpdate
<1>5. TypeOK'
  BY <1>1, <1>4, RequestEnds DEF TypeOK
<1>6. ContextsExist'
  BY <1>1, <1>4, RequestEnds DEF ContextsExist
<1>7. SizesKnown'
  BY <1>1, RequestEnds DEF SizesKnown, InMalloc
<1>8. IntervalSet'
  BY <1>1, RequestEnds DEF IntervalSet
<1> QED
  BY <1>1, <1>5, <1>6, <1>7, <1>8, TableUnchanged

\* NightWatch_sampling() has a chunk monitored: its size keeps the interval
\* that its request left.
LEMMA SamplingKeeps ==
  ASSUME IInv, NEW t \in Threads, NEW c \in Chunks, NightWatch_sampling(t, c)
  PROVE  IInv'
<1> USE DEF IInv
<1> DEFINE i == req[t].ctx
           r == Sampled(context[i], req[t].size)
           x == [state |-> "UNDER", ctx |-> i, size |-> req[t].size,
                 padded |-> NightWatch_size_demand(req[t]),
                 mapping_type |-> NightWatch_heap_type_hint(req[t]),
                 round |-> "START"]
<1>1. /\ context' = [context EXCEPT ![i] = r] /\ Done(t)
      /\ chunk' = [chunk EXCEPT ![c] = x]
      /\ UNCHANGED <<table, found>> /\ pc[t] = "alloc"
  BY DEF NightWatch_sampling
<1>2. context[i] \in Context /\ i \in 1..Len(context)
  BY <1>1, ElementOfSeq DEF TypeOK, ContextsExist
<1>3. req[t].size \in Sizes
  BY <1>1 DEF SizesKnown, InMalloc
<1>4. r \in Context
  BY <1>2, <1>3, RecordTypes
<1>5. x \in Monitored /\ x.size = req[t].size /\ x.ctx = i
  <2>1. NightWatch_size_demand(req[t]) \in BOOLEAN
    BY DEF NightWatch_size_demand
  <2>2. NightWatch_heap_type_hint(req[t]) \in Mappings
    BY DEF NightWatch_heap_type_hint, Mappings
  <2>3. i \in Nat
    BY DEF TypeOK, RequestRecord
  <2> QED
    BY <1>3, <2>1, <2>2, <2>3 DEF Monitored
<1> HIDE DEF r, x
<1>6. context' \in Seq(Context) /\ Len(context') = Len(context)
  BY <1>1, <1>2, <1>4, ContextUpdate
<1>7. chunk'[c] = x /\ \A d \in Chunks \ {c} : chunk'[d] = chunk[d]
  BY <1>1 DEF TypeOK
<1>8. TypeOK'
  <2>1. chunk' \in [Chunks -> {Free} \cup Monitored]
    BY <1>1, <1>5 DEF TypeOK
  <2> QED
    BY <1>1, <1>6, <2>1, RequestEnds DEF TypeOK
<1>9. ContextsExist'
  <2>1. \A d \in Chunks : chunk'[d] # Free => chunk'[d].ctx \in 1..Len(context')
    BY <1>2, <1>5, <1>6, <1>7 DEF ContextsExist
  <2> QED
    BY <1>1, <1>6, <2>1, RequestEnds DEF ContextsExist
<1>10. SizesKnown'
  BY <1>1, RequestEnds DEF SizesKnown, InMalloc
<1>11. IntervalSet'
  BY <1>1, <1>5, <1>7, RequestEnds DEF IntervalSet
<1> QED
  BY <1>1, <1>8, <1>9, <1>10, <1>11, TableUnchanged

\* update_context_mapping_type(): the thread that goes on to the table does so
\* for the size of a chunk that was monitored.
LEMMA EvaluationKeeps ==
  ASSUME IInv, NEW t \in Threads, NEW c \in Chunks, NEW mapping \in Mappings,
         NEW last \in BOOLEAN, update_context_mapping_type(t, c, mapping, last)
  PROVE  IInv'
<1> USE DEF IInv
<1> DEFINE x == chunk[c]
           r == Evaluated(context[x.ctx], x, mapping)
           y == IF last THEN Free ELSE NextRound(x, mapping)
<1>1. /\ context' = [context EXCEPT ![x.ctx] = r]
      /\ chunk' = [chunk EXCEPT ![c] = y]
      /\ IF x.size \in InTable
         THEN /\ req' = [req EXCEPT ![t].size = x.size, ![t].mapping = mapping]
              /\ pc' = [pc EXCEPT ![t] = "table"]
         ELSE UNCHANGED <<req, pc>>
      /\ UNCHANGED <<table, found>>
      /\ pc[t] = "idle" /\ x.state = "UNDER"
  BY DEF update_context_mapping_type
<1>2. x \in Monitored /\ x # Free
  BY <1>1 DEF TypeOK, Free
<1>3. x.ctx \in 1..Len(context) /\ context[x.ctx] \in Context
  BY <1>2, ElementOfSeq DEF TypeOK, ContextsExist
<1>4. r \in Context
  BY <1>2, <1>3, RecordTypes
<1>5. /\ y \in {Free} \cup Monitored
      /\ y # Free => y.ctx = x.ctx /\ y.size = x.size
  BY <1>2, RecordTypes
<1> HIDE DEF r, y, x
<1>6. context' \in Seq(Context) /\ Len(context') = Len(context)
  BY <1>1, <1>3, <1>4, ContextUpdate
<1>7. chunk'[c] = y /\ \A d \in Chunks \ {c} : chunk'[d] = chunk[d]
  BY <1>1 DEF TypeOK
<1>8. /\ pc' \in [Threads -> PCs] /\ req' \in [Threads -> RequestRecord]
      /\ \A u \in Threads \ {t} : pc'[u] = pc[u] /\ req'[u] = req[u]
      /\ \/ pc'[t] = "idle"
         \/ pc'[t] = "table" /\ req'[t].size = x.size /\ x.size \in InTable
  <2>1. CASE x.size \in InTable
    <3>1. x.size \in Nat
      BY <2>1, PredictorAssumption DEF InTable
    <3>2. /\ req' = [req EXCEPT ![t].size = x.size, ![t].mapping = mapping]
          /\ pc' = [pc EXCEPT ![t] = "table"]
      BY <1>1, <2>1
    <3>3. req' \in [Threads -> RequestRecord] /\ req'[t].size = x.size
      BY <3>1, <3>2 DEF TypeOK, RequestRecord
    <3>4. \A u \in Threads \ {t} : pc'[u] = pc[u] /\ req'[u] = req[u]
      BY <3>2 DEF TypeOK
    <3>5. pc' \in [Threads -> PCs] /\ pc'[t] = "table"
      BY <3>2 DEF TypeOK, PCs
    <3> QED
      BY <2>1, <3>3, <3>4, <3>5
  <2>2. CASE x.size \notin InTable
    BY <1>1, <2>2 DEF TypeOK
  <2> QED
    BY <2>1, <2>2
<1>9. TypeOK'
  <2>1. chunk' \in [Chunks -> {Free} \cup Monitored]
    BY <1>1, <1>5 DEF TypeOK
  <2> QED
    BY <1>1, <1>6, <1>8, <2>1 DEF TypeOK
<1>10. ContextsExist'
  <2>1. \A d \in Chunks : chunk'[d] # Free => chunk'[d].ctx \in 1..Len(context')
    BY <1>3, <1>5, <1>6, <1>7 DEF ContextsExist
  <2>2. \A u \in Threads : pc'[u] \in {"interval", "snapshot", "alloc"} =>
                               req'[u].ctx \in 1..Len(context')
    BY <1>6, <1>8 DEF ContextsExist
  <2> QED
    BY <1>1, <1>6, <2>1, <2>2 DEF ContextsExist
<1>11. SizesKnown'
  BY <1>8 DEF SizesKnown, InMalloc
<1>12. IntervalSet'
  <2>1. x.size \in InTable => table[x.size].check_interval > 0
    BY <1>2 DEF IntervalSet, x
  <2>2. \A d \in Chunks : chunk'[d] # Free /\ chunk'[d].size \in InTable =>
                              table[chunk'[d].size].check_interval > 0
    BY <1>5, <1>7, <2>1 DEF IntervalSet
  <2> QED
    BY <1>1, <1>8, <2>1, <2>2 DEF IntervalSet
<1> QED
  BY <1>1, <1>9, <1>10, <1>11, <1>12, TableUnchanged

\* A chunk revived or collected: no reference appears.
LEMMA ChunkStepKeeps ==
  ASSUME IInv, NEW c \in Chunks,
         \/ revive_sample_handler(c)
         \/ \E t \in Threads : NightWatch_collect_sample(t, c)
  PROVE  IInv'
<1> USE DEF IInv
<1>1. PICK y : /\ chunk' = [chunk EXCEPT ![c] = y]
               /\ y \in {Free} \cup Monitored
               /\ y # Free => chunk[c] # Free /\ y.ctx = chunk[c].ctx
                                             /\ y.size = chunk[c].size
  <2>1. CASE revive_sample_handler(c)
    <3> DEFINE y == [chunk[c] EXCEPT !.state = "UNDER"]
    <3>1. chunk[c] \in Monitored /\ chunk[c] # Free
      BY <2>1 DEF revive_sample_handler, TypeOK, Free
    <3>2. y \in Monitored /\ y.ctx = chunk[c].ctx /\ y.size = chunk[c].size
      BY <3>1 DEF Monitored
    <3>3. chunk' = [chunk EXCEPT ![c] = y]
      BY <2>1 DEF revive_sample_handler
    <3> HIDE DEF y
    <3> QED
      BY <3>1, <3>2, <3>3
  <2>2. CASE \E t \in Threads : NightWatch_collect_sample(t, c)
    BY <2>2 DEF NightWatch_collect_sample
  <2> QED
    BY <2>1, <2>2
<1>2. UNCHANGED <<table, context, found, pc, req>>
  BY DEF revive_sample_handler, NightWatch_collect_sample
<1>3. chunk'[c] = y /\ \A d \in Chunks \ {c} : chunk'[d] = chunk[d]
  BY <1>1 DEF TypeOK
<1>4. TypeOK'
  <2>1. chunk' \in [Chunks -> {Free} \cup Monitored]
    BY <1>1 DEF TypeOK
  <2> QED
    BY <1>2, <2>1 DEF TypeOK
<1>5. ContextsExist'
  BY <1>1, <1>2, <1>3 DEF ContextsExist
<1>6. SizesKnown'
  BY <1>2 DEF SizesKnown
<1>7. IntervalSet'
  BY <1>1, <1>2, <1>3 DEF IntervalSet
<1> QED
  BY <1>2, <1>4, <1>5, <1>6, <1>7, TableUnchanged

\* update_s2t_map() may make an entry valid: its interval is positive already.
LEMMA UpdateMapKeeps ==
  ASSUME IInv, NEW t \in Threads, update_s2t_map(t)
  PROVE  IInv'
<1> USE DEF IInv
<1> DEFINE s == req[t].size
           e == Decayed(Decided(Counted(table[s], req[t].mapping)))
<1>1. /\ pc[t] = "table" /\ table' = [table EXCEPT ![s] = e] /\ Done(t)
      /\ UNCHANGED <<context, found, chunk>>
  BY DEF update_s2t_map
<1>2. s \in InTable /\ req[t].mapping \in Mappings
  BY <1>1 DEF SizesKnown, TypeOK, RequestRecord
<1>3. table[s] \in Entry /\ table[s].n_open + table[s].n_restrict < DecayInterval
  BY <1>2 DEF TypeOK, AnswerHasMajority
<1>4. /\ e \in Entry
      /\ e.check_interval = table[s].check_interval
      /\ e.to_check = table[s].to_check
      /\ e.n_open + e.n_restrict < DecayInterval
      /\ e.valid => IF e.mapping_type = "RESTRICT"
                    THEN e.n_open * Ratio <= e.n_restrict
                    ELSE e.n_restrict * Ratio <= e.n_open
  BY <1>2, <1>3, UpdatedEntry
<1> HIDE DEF e
<1>5. table[s].check_interval > 0
  BY <1>1, <1>2 DEF IntervalSet
<1>6. /\ table' \in [InTable -> Entry] /\ table'[s] = e
      /\ \A r \in InTable : r # s => table'[r] = table[r]
  BY <1>1, <1>2, <1>4, TableUpdate
<1> HIDE DEF s
<1>7. TypeOK'
  BY <1>1, <1>6, RequestEnds DEF TypeOK
<1>8. ContextsExist'
  BY <1>1, RequestEnds DEF ContextsExist
<1>9. SizesKnown'
  BY <1>1, RequestEnds DEF SizesKnown, InMalloc
<1>10. IntervalSet'
  <2>1. \A r \in InTable : table'[r].check_interval = table[r].check_interval
    BY <1>4, <1>6
  <2> QED
    BY <1>1, <2>1, RequestEnds DEF IntervalSet
<1>11. IntervalPositive'
  BY <1>2, <1>4, <1>5, <1>6 DEF IntervalPositive
<1>12. AnswerHasMajority'
  BY <1>2, <1>4, <1>6 DEF AnswerHasMajority
<1> QED
  BY <1>7, <1>8, <1>9, <1>10, <1>11, <1>12

\* Every step of the predictor keeps IInv.
LEMMA NextKeeps == IInv /\ [Next]_vars => IInv'
<1> SUFFICES ASSUME IInv, [Next]_vars PROVE IInv'
  OBVIOUS
<1>1. CASE \E c \in Chunks : revive_sample_handler(c)
  BY <1>1, ChunkStepKeeps
<1>2. ASSUME NEW t \in Threads, NEW s \in Sizes, Request(t, s) PROVE IInv'
  BY <1>2, QuickPathKeeps, GeneralPathKeeps DEF Request
<1>3. ASSUME NEW t \in Threads, Step(t) PROVE IInv'
  BY <1>3, FindContextKeeps, InitContextKeeps, SkipIntervalKeeps, CopyContextKeeps,
     SkipChunkKeeps, UpdateMapKeeps, SamplingKeeps DEF Step
<1>4. ASSUME NEW t \in Threads, NEW c \in Chunks, NightWatch_collect_sample(t, c)
      PROVE  IInv'
  BY <1>4, ChunkStepKeeps
<1>5. ASSUME NEW t \in Threads, NEW c \in Chunks, NEW mapping \in Mappings,
             NEW last \in BOOLEAN, update_context_mapping_type(t, c, mapping, last)
      PROVE  IInv'
  BY <1>5, EvaluationKeeps
<1>6. CASE UNCHANGED vars
  BY <1>6 DEF vars, IInv, TypeOK, ContextsExist, SizesKnown, IntervalSet,
     IntervalPositive, AnswerHasMajority
<1> QED
  BY <1>1, <1>2, <1>3, <1>4, <1>5, <1>6 DEF Next

\* The invariant of the predictor.
THEOREM PredictorInvariant == Spec => []IInv
BY InitIInv, NextKeeps, PTL DEF Spec

\* Whichever threads update the table of sizes, and in whatever order, an entry
\* is never valid without an interval for update_s2t_skip_interval() to divide
\* by, and an interval stays below three times its base.
THEOREM IntervalAlwaysPositive == Spec => []IntervalPositive
<1>1. IInv => IntervalPositive
  BY DEF IInv
<1> QED
  BY <1>1, PredictorInvariant, PTL

\* The table answers a request only with a mapping that was seen Ratio times as
\* often as the other, for any decay interval.
THEOREM AnswerAlwaysHasMajority == Spec => []AnswerHasMajority
<1>1. IInv => AnswerHasMajority
  BY DEF IInv
<1> QED
  BY <1>1, PredictorInvariant, PTL
=============================================================================
