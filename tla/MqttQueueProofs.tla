-------------------------- MODULE MqttQueueProofs ---------------------------
(***************************************************************************)
(* The safety invariants of the MQTT send queue for every number of        *)
(* producers, heap addresses, queue length and message size.               *)
(***************************************************************************)
EXTENDS MqttQueue, SequenceTheorems, TLAPS

-----------------------------------------------------------------------------
(* The inductive strengthening.                                            *)

\* What the control state of producers and task says about their data.
ControlInv ==
    /\ \A p \in Producers :
          ppc[p] = "link" => /\ held[p] \in Entry
                             /\ next[held[p]] = Null
                             /\ body[held[p]].msg = [producer |-> p, n |-> calls[p]]
    /\ \A p \in Producers : ppc[p] # "idle" => calls[p] \in 1..MaxPublish
    /\ \A p \in Producers : ppc[p] = "enqueue" => saw[p] # 0
    /\ \A e \in live : body[e] \in Body /\ body[e].size <= TxMax /\ body[e].born # 0
    /\ connected => session # 0
    /\ cpc \in {"drain", "reserve", "drop", "send", "sent"} => connected
    /\ cpc \in {"clear", "free"} => ~connected
    /\ txSize <= TxMax

\* The unlinked chain is a null-terminated list that cur walks.
ChainInv ==
    /\ chain # <<>> => cpc = "free"
    /\ cpc = "free" => cur = IF chain = <<>> THEN Null ELSE chain[1]
    /\ \A i \in 1..Len(chain) :
          next[chain[i]] = IF i = Len(chain) THEN Null ELSE chain[i + 1]
    /\ \A i, j \in 1..Len(chain) : chain[i] = chain[j] => i = j

\* Entries were linked in the current session, or in none while down.
BirthInv ==
    cpc # "clear" => \A i \in 1..Len(fifo) :
        body[fifo[i]].linked \in (IF connected THEN {0, session} ELSE {0})

IInv == /\ TypeOK /\ ControlInv /\ ListIsFifo /\ HeapOwnership /\ ChainInv
        /\ HeadStable /\ QueueBound /\ BufferFits /\ BirthInv

-----------------------------------------------------------------------------
(* Sequences: what the ends of a list look like after a link or an unlink. *)

\* Appending e to a sequence: length, elements and the set of elements.
LEMMA AppendFacts ==
    ASSUME NEW S, NEW s \in Seq(S), NEW e \in S
    PROVE  /\ Append(s, e) \in Seq(S)
           /\ Len(Append(s, e)) = Len(s) + 1
           /\ \A i \in 1..Len(s) : Append(s, e)[i] = s[i]
           /\ Append(s, e)[Len(s) + 1] = e
           /\ {Append(s, e)[i] : i \in 1..Len(Append(s, e))}
                = {s[i] : i \in 1..Len(s)} \cup {e}
  <1>1. /\ Append(s, e) \in Seq(S)
        /\ Len(Append(s, e)) = Len(s) + 1
        /\ \A i \in 1..Len(s) : Append(s, e)[i] = s[i]
        /\ Append(s, e)[Len(s) + 1] = e
    OBVIOUS
  <1>2. Len(s) \in Nat
    OBVIOUS
  <1>3. 1..Len(Append(s, e)) = (1..Len(s)) \cup {Len(s) + 1}
    BY <1>1, <1>2
  <1> QED
    BY <1>1, <1>3

\* Dropping the first element of a sequence without repetitions.
LEMMA TailFacts ==
    ASSUME NEW S, NEW s \in Seq(S), s # <<>>
    PROVE  /\ Tail(s) \in Seq(S)
           /\ Len(s) \in Nat \ {0}
           /\ Len(Tail(s)) = Len(s) - 1
           /\ \A i \in 1..Len(Tail(s)) : Tail(s)[i] = s[i + 1]
           /\ (\A i, j \in 1..Len(s) : s[i] = s[j] => i = j) =>
                {Tail(s)[i] : i \in 1..Len(Tail(s))}
                  = {s[i] : i \in 1..Len(s)} \ {s[1]}
  <1>1. /\ Tail(s) \in Seq(S)
        /\ Len(s) \in Nat \ {0}
        /\ Len(Tail(s)) = Len(s) - 1
        /\ \A i \in 1..Len(Tail(s)) : Tail(s)[i] = s[i + 1]
    OBVIOUS
  <1>2. ASSUME \A i, j \in 1..Len(s) : s[i] = s[j] => i = j
        PROVE  {Tail(s)[i] : i \in 1..Len(Tail(s))}
                  = {s[i] : i \in 1..Len(s)} \ {s[1]}
    <2>1. ASSUME NEW i \in 1..Len(Tail(s))
          PROVE  Tail(s)[i] \in {s[k] : k \in 1..Len(s)} \ {s[1]}
      BY <1>1, <1>2
    <2>2. ASSUME NEW k \in 1..Len(s), s[k] # s[1]
          PROVE  s[k] \in {Tail(s)[i] : i \in 1..Len(Tail(s))}
      <3>1. k - 1 \in 1..Len(Tail(s)) /\ Tail(s)[k - 1] = s[k]
        BY <1>1, <2>2
      <3> QED
        BY <3>1
    <2> QED
      BY <2>1, <2>2
  <1> QED
    BY <1>1, <1>2

-----------------------------------------------------------------------------
(* Ownership of heap blocks.                                               *)

\* No producer enters or leaves the link step: the held blocks stay.
LEMMA HeldSame ==
    ASSUME held' = held,
           \A q \in Producers : ppc'[q] = "link" <=> ppc[q] = "link"
    PROVE  Held' = Held
  BY DEF Held

\* The producer p lets go of its block.
LEMMA HeldReleased ==
    ASSUME TypeOK, HeapOwnership, NEW p \in Producers, ppc[p] = "link",
           ppc' = [ppc EXCEPT ![p] = "idle"],
           held' = [held EXCEPT ![p] = Null]
    PROVE  Held' = Held \ {held[p]}
  <1>1. \A q \in Producers \ {p} :
           held'[q] = held[q] /\ (ppc'[q] = "link" <=> ppc[q] = "link")
    BY DEF TypeOK
  <1>2. ppc'[p] # "link"
    BY DEF TypeOK
  <1>3. \A q \in Producers \ {p} : ppc[q] = "link" => held[q] # held[p]
    BY DEF HeapOwnership
  <1> QED
    BY <1>1, <1>2, <1>3 DEF Held

\* In the send path cur is the first linked entry.
LEMMA CurIsFirst ==
    ASSUME QueueAssumption, IInv, cpc \in {"reserve", "drop", "send", "sent"}
    PROVE  /\ fifo # <<>> /\ cur = fifo[1] /\ cur \in Entry
           /\ cur \in Linked /\ cur \in live
  <1>1. cur # Null /\ cur = head
    BY DEF IInv, HeadStable
  <1>2. fifo # <<>> /\ cur = fifo[1]
    BY <1>1 DEF IInv, ListIsFifo
  <1>3. fifo \in Seq(Entry) /\ 1 \in 1..Len(fifo)
    BY <1>2 DEF IInv, TypeOK
  <1>4. cur \in Linked
    BY <1>2, <1>3 DEF Linked
  <1> QED
    BY <1>2, <1>3, <1>4 DEF IInv, HeapOwnership

-----------------------------------------------------------------------------
(* Every action preserves the inductive invariant.                         *)

\* At first list, heap and pool are empty.
LEMMA InitInv == Init => IInv
  <1> SUFFICES ASSUME Init PROVE IInv
    OBVIOUS
  <1>1. Linked = {} /\ Held = {} /\ Doomed = {}
    BY DEF Init, Linked, Held, Doomed
  <1>2. HeapOwnership
    BY <1>1 DEF Init, HeapOwnership
  <1>3. TypeOK
    <2>1. /\ fifo \in Seq(Entry) /\ chain \in Seq(Entry) /\ sent \in Seq(Message)
      BY DEF Init
    <2>4. connected \in BOOLEAN
      BY DEF Init
    <2>2. /\ session \in 0..MaxSession /\ txSize \in Nat /\ count \in Nat
          /\ head \in Entry \cup {Null} /\ tail \in Entry \cup {Null}
          /\ cur \in Entry \cup {Null} /\ cpc = "idle" /\ live \subseteq Entry
          /\ next \in [Entry -> Entry \cup {Null}]
          /\ body \in [Entry -> Body \cup {Null}]
      BY QueueAssumption DEF Init
    <2>3. /\ ppc \in [Producers -> {"idle", "enqueue", "link"}]
          /\ held \in [Producers -> Entry \cup {Null}]
          /\ calls \in [Producers -> 0..MaxPublish]
          /\ saw \in [Producers -> 0..MaxSession]
      BY QueueAssumption DEF Init
    <2> QED
      BY <2>1, <2>2, <2>3, <2>4 DEF TypeOK
  <1>4. ControlInv /\ ListIsFifo /\ ChainInv /\ HeadStable /\ QueueBound /\ BufferFits /\ BirthInv
    BY QueueAssumption DEF Init, ControlInv, ListIsFifo, ChainInv, HeadStable, QueueBound, BufferFits, BirthInv
  <1> QED
    BY <1>2, <1>3, <1>4 DEF IInv

\* publish() looks at its mirror of the connection, without the lock.
LEMMA PublishStep ==
    ASSUME IInv, NEW p \in Producers, Publish(p)
    PROVE  IInv'
  <1> USE QueueAssumption DEF IInv, Publish, listVars, producerVars
  <1>1. HeapOwnership'
    <2>1. Linked' = Linked /\ Doomed' = Doomed
      BY DEF Linked, Doomed
    <2>2. Held' = Held
      BY HeldSame DEF TypeOK
    <2> QED
      BY <2>1, <2>2 DEF TypeOK, HeapOwnership
  <1>a. calls[p] \in 0..MaxPublish /\ calls[p] < Quota[p] /\ Quota[p] \in 0..MaxPublish
    BY QuotaAssumption DEF TypeOK
  <1>b. calls[p] < MaxPublish
    BY ONLY <1>a, QueueAssumption
  <1>2. TypeOK'
    BY <1>b DEF TypeOK, Body, Message
  <1>3. ControlInv'
    <2>1. \A q \in Producers : ppc'[q] = "enqueue" => saw'[q] # 0
      BY DEF TypeOK, ControlInv
    <2>2. \A q \in Producers : ppc'[q] = "link" => ppc[q] = "link" /\ calls'[q] = calls[q]
      BY DEF TypeOK
    <2>3. \A q \in Producers : ppc'[q] # "idle" => calls'[q] \in 1..MaxPublish
      BY <1>a, <1>b DEF TypeOK, ControlInv
    <2> QED
      BY <2>1, <2>2, <2>3 DEF ControlInv
  <1>4. ListIsFifo' /\ ChainInv' /\ HeadStable' /\ QueueBound' /\ BufferFits' /\ BirthInv'
    BY DEF ListIsFifo, ChainInv, HeadStable, QueueBound, BufferFits, BirthInv
  <1> QED
    BY <1>1, <1>2, <1>3, <1>4

\* publish() finds the queue full before it allocates.
LEMMA RejectFullStep ==
    ASSUME IInv, NEW p \in Producers, RejectFull(p)
    PROVE  IInv'
  <1> USE QueueAssumption DEF IInv, RejectFull, GiveUp, listVars, producerVars
  <1>1. HeapOwnership'
    <2>1. Linked' = Linked /\ Doomed' = Doomed
      BY DEF Linked, Doomed
    <2>2. Held' = Held
      BY HeldSame DEF TypeOK
    <2> QED
      BY <2>1, <2>2 DEF TypeOK, HeapOwnership
  <1>2. TypeOK'
    BY DEF TypeOK
  <1>3. ControlInv'
    BY DEF TypeOK, ControlInv
  <1>4. ListIsFifo' /\ ChainInv' /\ HeadStable' /\ QueueBound' /\ BufferFits' /\ BirthInv'
    BY DEF ListIsFifo, ChainInv, HeadStable, QueueBound, BufferFits, BirthInv
  <1> QED
    BY <1>1, <1>2, <1>3, <1>4

\* publish() rejects a message over the limit.
LEMMA RejectTooLargeStep ==
    ASSUME IInv, NEW p \in Producers, RejectTooLarge(p)
    PROVE  IInv'
  <1> USE QueueAssumption DEF IInv, RejectTooLarge, GiveUp, listVars, producerVars
  <1>1. HeapOwnership'
    <2>1. Linked' = Linked /\ Doomed' = Doomed
      BY DEF Linked, Doomed
    <2>2. Held' = Held
      BY HeldSame DEF TypeOK
    <2> QED
      BY <2>1, <2>2 DEF TypeOK, HeapOwnership
  <1>2. TypeOK'
    BY DEF TypeOK
  <1>3. ControlInv'
    BY DEF TypeOK, ControlInv
  <1>4. ListIsFifo' /\ ChainInv' /\ HeadStable' /\ QueueBound' /\ BufferFits' /\ BirthInv'
    BY DEF ListIsFifo, ChainInv, HeadStable, QueueBound, BufferFits, BirthInv
  <1> QED
    BY <1>1, <1>2, <1>3, <1>4

\* publish() gets no memory.
LEMMA RejectNoMemoryStep ==
    ASSUME IInv, NEW p \in Producers, RejectNoMemory(p)
    PROVE  IInv'
  <1> USE QueueAssumption DEF IInv, RejectNoMemory, GiveUp, listVars, producerVars
  <1>1. HeapOwnership'
    <2>1. Linked' = Linked /\ Doomed' = Doomed
      BY DEF Linked, Doomed
    <2>2. Held' = Held
      BY HeldSame DEF TypeOK
    <2> QED
      BY <2>1, <2>2 DEF TypeOK, HeapOwnership
  <1>2. TypeOK'
    BY DEF TypeOK
  <1>3. ControlInv'
    BY DEF TypeOK, ControlInv
  <1>4. ListIsFifo' /\ ChainInv' /\ HeadStable' /\ QueueBound' /\ BufferFits' /\ BirthInv'
    BY DEF ListIsFifo, ChainInv, HeadStable, QueueBound, BufferFits, BirthInv
  <1> QED
    BY <1>1, <1>2, <1>3, <1>4

\* publish() has its entry, not linked yet.
LEMMA AllocateStep ==
    ASSUME IInv, NEW p \in Producers, Allocate(p)
    PROVE  IInv'
  <1> USE QueueAssumption DEF IInv, Allocate, listVars, producerVars
  <1>a. PICK size \in Sizes, e \in Entry \ live :
           /\ size <= TxMax
           /\ live' = live \cup {e}
           /\ next' = [next EXCEPT ![e] = Null]
           /\ body' = [body EXCEPT ![e] =
                          [msg |-> [producer |-> p, n |-> calls[p]],
                           size |-> size, born |-> saw[p], linked |-> 0]]
           /\ held' = [held EXCEPT ![p] = e]
    OBVIOUS
  <1>b. /\ \A x \in Entry \ {e} : next'[x] = next[x] /\ body'[x] = body[x]
        /\ next'[e] = Null
        /\ body'[e] = [msg |-> [producer |-> p, n |-> calls[p]],
                       size |-> size, born |-> saw[p], linked |-> 0]
        /\ body'[e] \in Body
    BY <1>a DEF TypeOK, ControlInv, Body, Message
  <1>c. /\ \A q \in Producers \ {p} :
              held'[q] = held[q] /\ ppc'[q] = ppc[q] /\ calls'[q] = calls[q]
        /\ ppc'[p] = "link" /\ held'[p] = e /\ ppc[p] # "link" /\ calls' = calls
    BY <1>a DEF TypeOK
  <1>d. /\ \A q \in Producers : ppc[q] = "link" => held[q] \in live /\ held[q] # e
        /\ \A i \in 1..Len(fifo) : fifo[i] \in live /\ fifo[i] # e
        /\ \A i \in 1..Len(chain) : chain[i] \in live /\ chain[i] # e
    BY <1>a DEF HeapOwnership, Held, Linked, Doomed
  <1>1. TypeOK'
    BY <1>a, <1>b DEF TypeOK
  <1>2. ControlInv'
    BY <1>a, <1>b, <1>c, <1>d DEF ControlInv, TypeOK
  <1>3. ListIsFifo'
    BY <1>a, <1>b, <1>d DEF ListIsFifo, TypeOK
  <1>4. HeapOwnership'
    <2>1. Linked' = Linked /\ Doomed' = Doomed
      BY DEF Linked, Doomed
    <2>2. Held' = Held \cup {e}
      BY <1>c DEF Held
    <2>3. e \notin Linked /\ e \notin Doomed /\ e \notin Held
      BY <1>a DEF HeapOwnership
    <2> QED
      BY <1>a, <1>c, <1>d, <2>1, <2>2, <2>3 DEF HeapOwnership
  <1>5. ChainInv'
    BY <1>a, <1>b, <1>d DEF ChainInv, TypeOK
  <1>6. BufferFits'
    BY <1>a, <1>b, CurIsFirst DEF BufferFits
  <1>7. BirthInv'
    BY <1>a, <1>b, <1>d DEF BirthInv, TypeOK
  <1>8. HeadStable' /\ QueueBound'
    BY DEF HeadStable, QueueBound
  <1> QED
    BY <1>1, <1>2, <1>3, <1>4, <1>5, <1>6, <1>7, <1>8

\* The queue was filled meanwhile: the entry is freed again.
LEMMA LinkFullStep ==
    ASSUME IInv, NEW p \in Producers, LinkFull(p)
    PROVE  IInv'
  <1> USE QueueAssumption DEF IInv, LinkFull, listVars, producerVars
  <1>1. HeapOwnership'
    <2>1. Linked' = Linked /\ Doomed' = Doomed
      BY DEF Linked, Doomed
    <2>2. Held' = Held \ {held[p]} /\ held[p] \in Held
      BY HeldReleased DEF Held
    <2>3. \A q \in Producers \ {p} : held'[q] = held[q] /\ ppc'[q] = ppc[q]
      BY DEF TypeOK
    <2>4. ppc'[p] # "link"
      BY DEF TypeOK
    <2> QED
      BY <2>1, <2>2, <2>3, <2>4 DEF HeapOwnership
  <1>2. TypeOK'
    BY DEF TypeOK, Body, Message
  <1>3. \A q \in Producers : ppc'[q] # "idle" => ppc'[q] = ppc[q] /\ held'[q] = held[q]
    BY DEF TypeOK
  <1>4. ControlInv'
    BY <1>3 DEF TypeOK, ControlInv
  <1>5. ListIsFifo' /\ ChainInv' /\ HeadStable' /\ QueueBound' /\ BufferFits' /\ BirthInv'
    BY DEF ListIsFifo, ChainInv, HeadStable, QueueBound, BufferFits, BirthInv
  <1> QED
    BY <1>1, <1>2, <1>4, <1>5

\* The entry becomes the tail.
LEMMA LinkStep ==
    ASSUME IInv, NEW p \in Producers, Link(p)
    PROVE  IInv'
  <1> USE QueueAssumption DEF IInv, Link, listVars, producerVars
  <1> DEFINE e == held[p]
  <1>a. /\ e \in Entry /\ e # Null /\ next[e] = Null /\ e \in live
        /\ e \notin Linked /\ e \notin Doomed
    <2>1. e \in Entry /\ next[e] = Null
      BY DEF ControlInv
    <2>2. e \in Held
      BY DEF Held
    <2> QED
      BY <2>1, <2>2 DEF HeapOwnership
  <1>b. /\ fifo \in Seq(Entry) /\ Len(fifo) \in Nat
        /\ fifo' = Append(fifo, e) /\ fifo' \in Seq(Entry)
        /\ Len(fifo') = Len(fifo) + 1
        /\ \A i \in 1..Len(fifo) : fifo'[i] = fifo[i]
        /\ fifo'[Len(fifo) + 1] = e
        /\ Linked' = Linked \cup {e}
    <2>1. fifo \in Seq(Entry) /\ fifo' = Append(fifo, e) /\ e \in Entry
      BY <1>a DEF TypeOK
    <2>2. Len(fifo) \in Nat
      BY <2>1
    <2>3. /\ fifo' \in Seq(Entry)
          /\ Len(fifo') = Len(fifo) + 1
          /\ \A i \in 1..Len(fifo) : fifo'[i] = fifo[i]
          /\ fifo'[Len(fifo) + 1] = e
          /\ {fifo'[i] : i \in 1..Len(fifo')} = {fifo[i] : i \in 1..Len(fifo)} \cup {e}
      BY ONLY <2>1, AppendFacts
    <2> QED
      BY <2>1, <2>2, <2>3 DEF Linked
  <1>c. \A i \in 1..Len(fifo) : fifo[i] \in Linked /\ fifo[i] # e /\ fifo[i] \in Entry
    BY <1>a, <1>b DEF Linked
  <1>d. tail # Null <=> fifo # <<>>
    BY <1>b DEF ListIsFifo
  <1>e. \A x \in Entry : x # tail => next'[x] = next[x]
    BY DEF TypeOK
  <1>f. tail # Null => tail \in Linked /\ next'[tail] = e
    BY <1>b, <1>d DEF ListIsFifo, TypeOK, Linked
  <1>g. /\ \A x \in Entry \ {e} : body'[x] = body[x]
        /\ body[e] \in Body /\ body'[e] \in Body
        /\ body'[e].msg = body[e].msg /\ body'[e].size = body[e].size
        /\ body'[e].born = body[e].born
        /\ body'[e].linked = IF connected THEN session ELSE 0
    <2>1. body[e] \in Body /\ body \in [Entry -> Body \cup {Null}]
      BY <1>a DEF ControlInv, TypeOK
    <2>2. body' = [body EXCEPT ![e] = [body[e] EXCEPT !.linked = IF connected THEN session ELSE 0]]
      OBVIOUS
    <2>3. body'[e] = [body[e] EXCEPT !.linked = IF connected THEN session ELSE 0]
      BY <1>a, <2>1, <2>2
    <2>4. (IF connected THEN session ELSE 0) \in Nat
      BY DEF TypeOK
    <2> QED
      BY <1>a, <2>1, <2>2, <2>3, <2>4 DEF Body
  <1>h. /\ \A q \in Producers \ {p} : held'[q] = held[q] /\ ppc'[q] = ppc[q]
        /\ ppc'[p] = "idle"
    BY DEF TypeOK
  <1>1. TypeOK'
    BY SMTT(30), <1>a, <1>b, <1>g DEF TypeOK
  <1>2. ControlInv'
    <2>1. ASSUME NEW q \in Producers, ppc'[q] = "link"
          PROVE  /\ held'[q] \in Entry /\ next'[held'[q]] = Null
                 /\ body'[held'[q]].msg = [producer |-> q, n |-> calls'[q]]
      <3>1. q # p /\ ppc[q] = "link" /\ held'[q] = held[q]
        BY <2>1, <1>h
      <3>2. held[q] \in Held /\ held[q] \in Entry /\ held[q] # e
        BY <3>1 DEF Held, ControlInv, HeapOwnership
      <3>3. held[q] # tail
        BY <3>2, <1>a, <1>f DEF HeapOwnership, ControlInv
      <3> QED
        BY <3>1, <3>2, <3>3, <1>e, <1>g DEF ControlInv
    <2>2. \A x \in live' : /\ body'[x] \in Body /\ body'[x].size <= TxMax
                           /\ body'[x].born # 0
      BY <1>a, <1>g DEF ControlInv, TypeOK
    <2>3. \A q \in Producers : ppc'[q] # "idle" =>
             ppc[q] # "idle" /\ (ppc'[q] = "enqueue" => ppc[q] = "enqueue")
      BY <1>h
    <2>4. \A q \in Producers : /\ ppc'[q] # "idle" => calls'[q] \in 1..MaxPublish
                              /\ ppc'[q] = "enqueue" => saw'[q] # 0
      BY <2>3 DEF ControlInv
    <2>5. /\ cpc' \in {"drain", "reserve", "drop", "send", "sent"} => connected'
          /\ cpc' \in {"clear", "free"} => ~connected'
          /\ connected' => session' # 0
          /\ txSize' <= TxMax
      BY DEF ControlInv
    <2> QED
      BY <2>1, <2>2, <2>4, <2>5 DEF ControlInv
  <1>3. ListIsFifo'
    <2>1. count' = Len(fifo')
      BY <1>b DEF ListIsFifo
    <2>2. head' = fifo'[1] /\ tail' = fifo'[Len(fifo')] /\ fifo' # <<>>
      <3>1. CASE fifo = <<>>
        BY <3>1, <1>b, <1>d
      <3>2. CASE fifo # <<>>
        <4>1. 1 \in 1..Len(fifo)
          BY <3>2, <1>b
        <4> QED
          BY <3>2, <4>1, <1>b, <1>d DEF ListIsFifo
      <3> QED
        BY <3>1, <3>2
    <2>3. ASSUME NEW i \in 1..Len(fifo')
          PROVE  next'[fifo'[i]] = IF i = Len(fifo') THEN Null ELSE fifo'[i + 1]
      <3>1. CASE i = Len(fifo) + 1
        <4>1. fifo'[i] = e /\ e # tail
          BY <3>1, <1>a, <1>b, <1>f
        <4> QED
          BY <3>1, <4>1, <1>a, <1>b, <1>e
      <3>2. CASE i = Len(fifo)
        <4>1. fifo # <<>> /\ fifo'[i] = tail /\ fifo'[i + 1] = e
          BY <3>2, <1>b DEF ListIsFifo
        <4> QED
          BY <3>2, <4>1, <1>b, <1>d, <1>f
      <3>3. CASE i \in 1..(Len(fifo) - 1)
        <4>1. fifo # <<>> /\ i \in 1..Len(fifo) /\ i + 1 \in 1..Len(fifo)
          BY <3>3, <1>b
        <4>2. tail = fifo[Len(fifo)] /\ Len(fifo) \in 1..Len(fifo)
          BY <4>1, <1>b DEF ListIsFifo
        <4>3. fifo[i] # tail
          BY <3>3, <4>1, <4>2, <1>b DEF ListIsFifo
        <4>4. next[fifo[i]] = fifo[i + 1]
          BY <3>3, <4>1, <1>b DEF ListIsFifo
        <4> QED
          BY <3>3, <4>1, <4>3, <4>4, <1>b, <1>c, <1>e
      <3> QED
        BY <3>1, <3>2, <3>3, <1>b
    <2>4. \A i, j \in 1..Len(fifo') : fifo'[i] = fifo'[j] => i = j
      <3>1. \A i \in 1..Len(fifo') : i \in 1..Len(fifo) \/ i = Len(fifo) + 1
        BY <1>b
      <3> QED
        BY <3>1, <1>b, <1>c DEF ListIsFifo
    <2> QED
      BY <2>1, <2>2, <2>3, <2>4 DEF ListIsFifo
  <1>4. HeapOwnership'
    <2>1. Held' = Held \ {e} /\ e \in Held
      BY HeldReleased DEF Held
    <2>2. Doomed' = Doomed
      BY DEF Doomed
    <2> QED
      BY <2>1, <2>2, <1>a, <1>b, <1>h DEF HeapOwnership
  <1>5. ChainInv'
    <2>1. \A i \in 1..Len(chain) : chain[i] \in Entry /\ chain[i] \in Doomed
      <3>1. chain \in Seq(Entry)
        BY DEF TypeOK
      <3> QED
        BY ONLY <3>1 DEF Doomed
    <2>2. \A i \in 1..Len(chain) : chain[i] # tail
      BY <2>1, <1>f, QueueAssumption DEF HeapOwnership
    <2> QED
      BY <2>1, <2>2, <1>e DEF ChainInv
  <1>6. HeadStable'
    <2>1. CASE fifo = <<>>
      BY <2>1, <1>d DEF HeadStable, ListIsFifo
    <2>2. CASE fifo # <<>>
      BY <2>2, <1>d DEF HeadStable
    <2> QED
      BY <2>1, <2>2
  <1>7. QueueBound'
    BY <1>b DEF QueueBound, ListIsFifo
  <1>8. BufferFits'
    BY CurIsFirst, <1>a, <1>g DEF BufferFits
  <1>9. BirthInv'
    <2>1. \A i \in 1..Len(fifo') : i \in 1..Len(fifo) \/ i = Len(fifo) + 1
      BY <1>b
    <2> QED
      BY <2>1, <1>b, <1>c, <1>g DEF BirthInv
  <1> QED
    BY <1>1, <1>2, <1>3, <1>4, <1>5, <1>6, <1>7, <1>8, <1>9

\* The task comes round.
LEMMA RoundStep ==
    ASSUME IInv, Round
    PROVE  IInv'
  <1> USE QueueAssumption DEF IInv, Round, listVars, producerVars
  <1>1. TypeOK'
    <2>1. connected' \in BOOLEAN
      BY DEF TypeOK
    <2>2. session' \in 0..MaxSession
      BY DEF TypeOK
    <2>3. cpc' \in {"drain", "clear"}
      OBVIOUS
    <2> QED
      BY <2>1, <2>2, <2>3 DEF TypeOK
  <1>2. HeapOwnership'
    <2>1. Linked' = Linked /\ Doomed' = Doomed /\ Held' = Held
      BY DEF Linked, Doomed, Held
    <2> QED
      BY <2>1 DEF HeapOwnership
  <1>3. session' # 0 \/ ~connected'
    BY DEF ControlInv, TypeOK
  <1>4. ControlInv'
    BY <1>3 DEF ControlInv
  <1>5. ListIsFifo' /\ ChainInv' /\ HeadStable' /\ QueueBound' /\ BufferFits' /\ BirthInv'
    BY DEF ListIsFifo, ChainInv, HeadStable, QueueBound, BufferFits, BirthInv
  <1> QED
    BY <1>1, <1>2, <1>4, <1>5

\* clearQueue() detaches the whole list.
LEMMA ClearQueueStep ==
    ASSUME IInv, ClearQueue
    PROVE  IInv'
  <1> USE QueueAssumption DEF IInv, ClearQueue, listVars, producerVars
  <1>1. HeapOwnership'
    <2>1. Linked' = {} /\ Doomed' = Linked /\ Held' = Held
      BY DEF Linked, Doomed, Held
    <2>2. Doomed = {}
      BY DEF ChainInv, Doomed
    <2> QED
      BY <2>1, <2>2 DEF HeapOwnership
  <1>2. TypeOK'
    BY DEF TypeOK
  <1>3. ControlInv'
    BY DEF TypeOK, ControlInv
  <1>4. ListIsFifo' /\ ChainInv' /\ HeadStable' /\ QueueBound' /\ BufferFits' /\ BirthInv'
    BY DEF ListIsFifo, ChainInv, HeadStable, QueueBound, BufferFits, BirthInv
  <1> QED
    BY <1>1, <1>2, <1>3, <1>4

\* clearQueue() frees one detached entry.
LEMMA FreeNextStep ==
    ASSUME IInv, FreeNext
    PROVE  IInv'
  <1> USE QueueAssumption DEF IInv, FreeNext, listVars, producerVars
  <1>a. ASSUME cur # Null
        PROVE  /\ chain # <<>> /\ cur = chain[1] /\ cur \in Entry
               /\ chain' = Tail(chain) /\ chain' \in Seq(Entry)
               /\ Len(chain) \in Nat \ {0} /\ Len(chain') = Len(chain) - 1
               /\ \A i \in 1..Len(chain') : chain'[i] = chain[i + 1]
               /\ Doomed' = Doomed \ {cur} /\ cur \in Doomed
    <2>1. chain # <<>> /\ cur = chain[1]
      BY <1>a DEF ChainInv
    <2>2. chain \in Seq(Entry) /\ chain' = Tail(chain)
      BY <1>a DEF TypeOK
    <2>3. \A i, j \in 1..Len(chain) : chain[i] = chain[j] => i = j
      BY DEF ChainInv
    <2>4. 1 \in 1..Len(chain)
      BY <2>1, <2>2
    <2>5. /\ Tail(chain) \in Seq(Entry)
          /\ Len(chain) \in Nat \ {0} /\ Len(Tail(chain)) = Len(chain) - 1
          /\ \A i \in 1..Len(Tail(chain)) : Tail(chain)[i] = chain[i + 1]
          /\ {Tail(chain)[i] : i \in 1..Len(Tail(chain))}
               = {chain[i] : i \in 1..Len(chain)} \ {chain[1]}
      BY ONLY <2>1, <2>2, <2>3, TailFacts
    <2>6. Doomed' = {Tail(chain)[i] : i \in 1..Len(Tail(chain))}
      BY <2>2 DEF Doomed
    <2>7. Doomed' = Doomed \ {cur} /\ cur \in Doomed
      BY ONLY <2>1, <2>4, <2>5, <2>6 DEF Doomed
    <2>8. cur \in Entry
      BY ONLY <2>1, <2>2, <2>4
    <2> QED
      BY ONLY <2>1, <2>2, <2>5, <2>7, <2>8
  <1>b. ASSUME cur = Null
        PROVE  /\ chain = <<>> /\ Doomed = {}
               /\ chain' = chain /\ cur' = cur /\ live' = live /\ cpc' = "idle"
    <2>1. chain = <<>>
      <3>1. chain # <<>> => 1 \in 1..Len(chain) /\ chain[1] \in Entry
        BY DEF TypeOK
      <3> QED
        BY <1>b, <3>1 DEF ChainInv
    <2> QED
      BY <1>b, <2>1 DEF Doomed
  <1>1. TypeOK'
    BY <1>a, <1>b DEF TypeOK
  <1>2. HeapOwnership'
    <2>1. Linked' = Linked /\ Held' = Held
      BY DEF Linked, Held
    <2>2. CASE cur # Null
      BY <2>1, <2>2, <1>a DEF HeapOwnership
    <2>3. CASE cur = Null
      BY <2>1, <2>3, <1>b DEF HeapOwnership, Doomed
    <2> QED
      BY <2>2, <2>3
  <1>3. ChainInv'
    <2>1. CASE cur # Null
      <3>1. cpc' = "free" /\ cur' = next[chain[1]]
        BY <2>1, <1>a
      <3>2. \A i \in 1..Len(chain') : i + 1 \in 1..Len(chain)
        BY <2>1, <1>a
      <3>3. cur' = IF chain' = <<>> THEN Null ELSE chain'[1]
        <4>1. chain' = <<>> <=> Len(chain) = 1
          BY <2>1, <1>a
        <4>2. next[chain[1]] = IF 1 = Len(chain) THEN Null ELSE chain[1 + 1]
          BY <2>1, <1>a DEF ChainInv
        <4>3. Len(chain) # 1 => chain'[1] = chain[1 + 1]
          BY <2>1, <1>a
        <4> QED
          BY <3>1, <4>1, <4>2, <4>3
      <3>4. ASSUME NEW i \in 1..Len(chain')
            PROVE  next'[chain'[i]] = IF i = Len(chain') THEN Null ELSE chain'[i + 1]
        <4>1. next[chain[i + 1]] = IF i + 1 = Len(chain) THEN Null ELSE chain[i + 1 + 1]
          BY <3>2 DEF ChainInv
        <4>2. i # Len(chain') => chain'[i + 1] = chain[i + 1 + 1]
          BY <2>1, <1>a
        <4> QED
          BY <2>1, <1>a, <4>1, <4>2
      <3>5. \A i, j \in 1..Len(chain') : chain'[i] = chain'[j] => i = j
        BY <2>1, <1>a, <3>2 DEF ChainInv
      <3> QED
        BY <3>1, <3>3, <3>4, <3>5 DEF ChainInv
    <2>2. CASE cur = Null
      BY <2>2, <1>b DEF ChainInv
    <2> QED
      BY <2>1, <2>2
  <1>4. ControlInv' /\ ListIsFifo' /\ HeadStable' /\ QueueBound' /\ BufferFits' /\ BirthInv'
    BY DEF ControlInv, ListIsFifo, HeadStable, QueueBound, BufferFits, BirthInv
  <1> QED
    BY <1>1, <1>2, <1>3, <1>4

\* The task takes the head to work on, without the lock.
LEMMA DrainHeadStep ==
    ASSUME IInv, DrainHead
    PROVE  IInv'
  <1> USE QueueAssumption DEF IInv, DrainHead, listVars, producerVars
  <1>1. HeapOwnership'
    <2>1. Linked' = Linked /\ Doomed' = Doomed /\ Held' = Held
      BY DEF Linked, Doomed, Held
    <2> QED
      BY <2>1 DEF HeapOwnership
  <1>2. TypeOK'
    BY DEF TypeOK
  <1>3. ControlInv'
    BY DEF TypeOK, ControlInv
  <1>4. ListIsFifo' /\ ChainInv' /\ HeadStable' /\ QueueBound' /\ BufferFits' /\ BirthInv'
    BY DEF ListIsFifo, ChainInv, HeadStable, QueueBound, BufferFits, BirthInv
  <1> QED
    BY <1>1, <1>2, <1>3, <1>4

\* The task has a buffer for the head.
LEMMA ReserveStep ==
    ASSUME IInv, Reserve
    PROVE  IInv'
  <1> USE QueueAssumption DEF IInv, Reserve, listVars, producerVars
  <1>1. TypeOK'
    <2>1. body[cur].size \in Nat
      BY CurIsFirst DEF ControlInv, Body
    <2>2. txSize' \in Nat
      BY <2>1 DEF TypeOK
    <2> QED
      BY <2>2 DEF TypeOK
  <1>2. HeapOwnership'
    <2>1. Linked' = Linked /\ Doomed' = Doomed /\ Held' = Held
      BY DEF Linked, Doomed, Held
    <2> QED
      BY <2>1 DEF HeapOwnership
  <1>3. ControlInv' /\ ListIsFifo' /\ ChainInv' /\ HeadStable' /\ QueueBound' /\ BufferFits' /\ BirthInv'
    BY DEF ControlInv, ListIsFifo, ChainInv, HeadStable, QueueBound, BufferFits, BirthInv
  <1> QED
    BY <1>1, <1>2, <1>3

\* The task gets no buffer, the head stays.
LEMMA ReserveFailsStep ==
    ASSUME IInv, ReserveFails
    PROVE  IInv'
  <1> USE QueueAssumption DEF IInv, ReserveFails, listVars, producerVars
  <1>1. HeapOwnership'
    <2>1. Linked' = Linked /\ Doomed' = Doomed /\ Held' = Held
      BY DEF Linked, Doomed, Held
    <2> QED
      BY <2>1 DEF HeapOwnership
  <1>2. TypeOK'
    BY DEF TypeOK
  <1>3. ControlInv'
    BY DEF TypeOK, ControlInv
  <1>4. ListIsFifo' /\ ChainInv' /\ HeadStable' /\ QueueBound' /\ BufferFits' /\ BirthInv'
    BY DEF ListIsFifo, ChainInv, HeadStable, QueueBound, BufferFits, BirthInv
  <1> QED
    BY <1>1, <1>2, <1>3, <1>4

\* The message is sent.
LEMMA SendOkStep ==
    ASSUME IInv, SendOk
    PROVE  IInv'
  <1> USE QueueAssumption DEF IInv, SendOk, listVars, producerVars
  <1>1. TypeOK'
    <2>1. body[cur].msg \in Message
      BY CurIsFirst DEF ControlInv, Body
    <2>2. sent' \in Seq(Message)
      BY <2>1 DEF TypeOK
    <2> QED
      BY <2>2 DEF TypeOK
  <1>2. HeapOwnership'
    <2>1. Linked' = Linked /\ Doomed' = Doomed /\ Held' = Held
      BY DEF Linked, Doomed, Held
    <2> QED
      BY <2>1 DEF HeapOwnership
  <1>3. ControlInv' /\ ListIsFifo' /\ ChainInv' /\ HeadStable' /\ QueueBound' /\ BufferFits' /\ BirthInv'
    BY DEF ControlInv, ListIsFifo, ChainInv, HeadStable, QueueBound, BufferFits, BirthInv
  <1> QED
    BY <1>1, <1>2, <1>3

\* The message is not sent, the head stays.
LEMMA SendFailsStep ==
    ASSUME IInv, SendFails
    PROVE  IInv'
  <1> USE QueueAssumption DEF IInv, SendFails, listVars, producerVars
  <1>1. HeapOwnership'
    <2>1. Linked' = Linked /\ Doomed' = Doomed /\ Held' = Held
      BY DEF Linked, Doomed, Held
    <2> QED
      BY <2>1 DEF HeapOwnership
  <1>2. TypeOK'
    BY DEF TypeOK
  <1>3. ControlInv'
    BY DEF TypeOK, ControlInv
  <1>4. ListIsFifo' /\ ChainInv' /\ HeadStable' /\ QueueBound' /\ BufferFits' /\ BirthInv'
    BY DEF ListIsFifo, ChainInv, HeadStable, QueueBound, BufferFits, BirthInv
  <1> QED
    BY <1>1, <1>2, <1>3, <1>4

\* The head that was sent leaves the list.
LEMMA UnlinkHeadStep ==
    ASSUME IInv, UnlinkHead
    PROVE  IInv'
  <1> USE QueueAssumption DEF IInv, UnlinkHead, listVars, producerVars
  <1>a. fifo # <<>> /\ cur = fifo[1] /\ cur = head /\ cur \in Linked /\ cur \in Entry
    BY CurIsFirst, QueueAssumption DEF HeadStable
  <1>b. /\ fifo \in Seq(Entry) /\ fifo' = Tail(fifo) /\ fifo' \in Seq(Entry)
        /\ Len(fifo) \in Nat \ {0} /\ Len(fifo') = Len(fifo) - 1
        /\ \A i \in 1..Len(fifo') : fifo'[i] = fifo[i + 1]
        /\ Linked' = Linked \ {cur}
    <2>1. \A i, j \in 1..Len(fifo) : fifo[i] = fifo[j] => i = j
      BY DEF ListIsFifo
    <2>2. fifo \in Seq(Entry)
      BY DEF TypeOK
    <2>3. fifo' = Tail(fifo)
      OBVIOUS
    <2>5. fifo # <<>>
      BY <1>a
    <2>4. /\ Tail(fifo) \in Seq(Entry)
          /\ Len(fifo) \in Nat \ {0} /\ Len(Tail(fifo)) = Len(fifo) - 1
          /\ \A i \in 1..Len(Tail(fifo)) : Tail(fifo)[i] = fifo[i + 1]
          /\ {Tail(fifo)[i] : i \in 1..Len(Tail(fifo))}
               = {fifo[i] : i \in 1..Len(fifo)} \ {fifo[1]}
      BY ONLY <2>1, <2>2, <2>5, TailFacts
    <2>6. Linked' = {Tail(fifo)[i] : i \in 1..Len(Tail(fifo))}
      BY <2>3 DEF Linked
    <2>7. Linked' = Linked \ {cur}
      BY <1>a, <2>4, <2>6 DEF Linked
    <2> QED
      BY ONLY <2>2, <2>3, <2>4, <2>7
  <1>c. \A i \in 1..Len(fifo') : i + 1 \in 1..Len(fifo)
    BY <1>b
  <1>1. TypeOK'
    <2>1. count' \in Nat
      BY <1>b DEF ListIsFifo
    <2>2. tail' \in Entry \cup {Null}
      BY DEF TypeOK
    <2>3. live' \subseteq Entry /\ head' \in Entry \cup {Null}
      BY <1>a DEF TypeOK
    <2> QED
      BY <1>b, <2>1, <2>2, <2>3 DEF TypeOK
  <1>2. ControlInv'
    BY <1>a, <1>b DEF ControlInv
  <1>3. ListIsFifo'
    <2>1. count' = Len(fifo')
      BY <1>b DEF ListIsFifo
    <2>2. next[cur] = IF Len(fifo) = 1 THEN Null ELSE fifo[1 + 1]
      BY <1>a, <1>b DEF ListIsFifo
    <2>3. fifo' = <<>> <=> Len(fifo) = 1
      <3>1. fifo' \in Seq(Entry) /\ Len(fifo) \in Nat /\ Len(fifo') = Len(fifo) - 1
        BY <1>b
      <3>2. fifo' = <<>> <=> Len(fifo') = 0
        BY <3>1, EmptySeq
      <3> QED
        BY ONLY <3>1, <3>2
    <2>4. Len(fifo) # 1 => /\ fifo'[1] = fifo[1 + 1] /\ fifo[1 + 1] \in Entry
                           /\ fifo'[Len(fifo')] = fifo[Len(fifo)]
      BY <1>b
    <2>5. /\ head' = IF fifo' = <<>> THEN Null ELSE fifo'[1]
          /\ tail' = IF fifo' = <<>> THEN Null ELSE fifo'[Len(fifo')]
      BY <1>a, <2>2, <2>3, <2>4, QueueAssumption DEF ListIsFifo
    <2>6. ASSUME NEW i \in 1..Len(fifo')
          PROVE  next'[fifo'[i]] = IF i = Len(fifo') THEN Null ELSE fifo'[i + 1]
      <3>1. next[fifo[i + 1]] = IF i + 1 = Len(fifo) THEN Null ELSE fifo[i + 1 + 1]
        BY <1>c DEF ListIsFifo
      <3>2. i \in 1..Len(fifo') /\ Len(fifo') \in Nat /\ Len(fifo') = Len(fifo) - 1
        BY ONLY <1>b
      <3>a. Len(fifo) \in Nat
        BY ONLY <1>b
      <3>3. /\ i # Len(fifo') => i + 1 \in 1..Len(fifo')
            /\ i + 1 = Len(fifo) <=> i = Len(fifo')
        BY ONLY <3>2, <3>a
      <3>b. \A k \in 1..Len(fifo') : fifo'[k] = fifo[k + 1]
        BY ONLY <1>b
      <3>4. /\ i # Len(fifo') => fifo'[i + 1] = fifo[i + 1 + 1]
            /\ fifo'[i] = fifo[i + 1]
        BY ONLY <3>2, <3>3, <3>b
      <3>5. next' = next
        OBVIOUS
      <3> QED
        BY ONLY <3>1, <3>3, <3>4, <3>5
    <2>7. \A i, j \in 1..Len(fifo') : fifo'[i] = fifo'[j] => i = j
      BY <1>b, <1>c DEF ListIsFifo
    <2> QED
      BY <2>1, <2>5, <2>6, <2>7 DEF ListIsFifo
  <1>4. HeapOwnership'
    <2>1. Held' = Held /\ Doomed' = Doomed
      BY DEF Held, Doomed
    <2> QED
      BY <2>1, <1>a, <1>b DEF HeapOwnership
  <1>5. QueueBound'
    BY <1>b DEF QueueBound
  <1>6. BirthInv'
    BY <1>b, <1>c DEF BirthInv
  <1>7. ChainInv' /\ HeadStable' /\ BufferFits'
    BY DEF ChainInv, HeadStable, BufferFits
  <1> QED
    BY <1>1, <1>2, <1>3, <1>4, <1>5, <1>6, <1>7

\* A step that changes nothing keeps the invariant.
LEMMA StutterStep ==
    ASSUME IInv, UNCHANGED vars
    PROVE  IInv'
  <1> USE DEF IInv, vars, listVars, producerVars
  <1>1. Linked' = Linked /\ Held' = Held /\ Doomed' = Doomed
    BY DEF Linked, Held, Doomed
  <1>2. HeapOwnership'
    BY <1>1 DEF HeapOwnership
  <1>3. TypeOK' /\ ControlInv'
    BY DEF TypeOK, ControlInv
  <1>4. ListIsFifo' /\ ChainInv' /\ HeadStable' /\ QueueBound' /\ BufferFits' /\ BirthInv'
    BY DEF ListIsFifo, ChainInv, HeadStable, QueueBound, BufferFits, BirthInv
  <1> QED
    BY <1>2, <1>3, <1>4

\* Every step of a producer or of the MQTT task keeps the invariant.
LEMMA NextStep ==
    ASSUME IInv, [Next]_vars
    PROVE  IInv'
  <1>1. ASSUME NEW p \in Producers, Producer(p) PROVE IInv'
    BY <1>1, PublishStep, RejectFullStep, RejectTooLargeStep, RejectNoMemoryStep,
       AllocateStep, LinkFullStep, LinkStep DEF Producer
  <1>2. CASE Task
    BY <1>2, RoundStep, ClearQueueStep, FreeNextStep, DrainHeadStep, ReserveStep,
       ReserveFailsStep, SendOkStep, SendFailsStep, UnlinkHeadStep DEF Task
  <1>3. CASE UNCHANGED vars
    BY <1>3, StutterStep
  <1> QED
    BY <1>1, <1>2, <1>3 DEF Next

-----------------------------------------------------------------------------
(* Theorems.                                                               *)

\* The inductive invariant holds in every reachable state of the queue.
THEOREM Invariance == Spec => []IInv
  <1>1. IInv /\ [Next]_vars => IInv'
    BY NextStep
  <1> QED
    BY InitInv, <1>1, PTL DEF Spec

\* Every variable of the send queue keeps its type.
THEOREM TypeCorrectness == Spec => []TypeOK
  <1>1. IInv => TypeOK
    BY DEF IInv
  <1> QED
    BY Invariance, <1>1, PTL

\* enqueue(), drainQueue() and clearQueue() keep the linked list, _queueTail
\* and _queueCount equal to the sequence of accepted messages, for any number
\* of producers and any queue length.
THEOREM ListCorrectness == Spec => [](ListIsFifo /\ QueueBound)
  <1>1. IInv => ListIsFifo /\ QueueBound
    BY DEF IInv
  <1> QED
    BY Invariance, <1>1, PTL

\* No block of the queue is leaked, freed twice, or freed while reachable,
\* although malloc(), the send and the free of a cleared chain run unlocked.
THEOREM MemorySafety == Spec => [](HeapOwnership /\ HeadStable)
  <1>1. IInv => HeapOwnership /\ HeadStable
    BY DEF IInv
  <1> QED
    BY Invariance, <1>1, PTL

\* The head being sent fits the shared TX buffer; a connection is up, the head
\* was linked under it or while there was none, and if it was published under
\* another one, that was lost before the link.
THEOREM SendCorrectness == Spec => [](BufferFits /\ OnlyStragglersLate)
  <1>1. ASSUME IInv, cpc = "send"
        PROVE  /\ connected /\ session # 0 /\ body[cur].born # 0
               /\ body[cur].linked \in {0, session}
    <2>1. fifo # <<>> /\ cur = fifo[1] /\ 1 \in 1..Len(fifo)
      BY <1>1, CurIsFirst, QueueAssumption DEF IInv, TypeOK
    <2>2. cur \in live
      BY <1>1, CurIsFirst, QueueAssumption
    <2>3. connected /\ session # 0 /\ body[cur].born # 0
      BY <1>1, <2>2 DEF IInv, ControlInv
    <2>4. body[cur].linked \in (IF connected THEN {0, session} ELSE {0})
      BY <1>1, <2>1 DEF IInv, BirthInv
    <2> QED
      BY <2>3, <2>4
  <1>2. IInv => BufferFits
    BY DEF IInv
  <1>3. IInv => OnlyStragglersLate
    BY <1>1 DEF OnlyStragglersLate
  <1> QED
    BY Invariance, <1>2, <1>3, PTL

-----------------------------------------------------------------------------
(* The list implements the bounded FIFO of MqttFifo.  Accept() there asks  *)
(* for a message newer than all of its producer, which takes one more      *)
(* invariant: what a producer has linked or got sent is from a call it     *)
(* has finished.                                                           *)

\* The message m is of a call that publish() has returned from.
Finished(m) ==
    /\ m.n <= calls[m.producer]
    /\ ppc[m.producer] # "idle" => m.n < calls[m.producer]

OrderInv ==
    /\ \A i \in 1..Len(fifo) : Finished(body[fifo[i]].msg)
    /\ \A i \in 1..Len(sent) : Finished(sent[i])

\* Linked entries are filled; a step outside Link leaves them so.
LEMMA LinkedFilled ==
    ASSUME QueueAssumption, IInv, NEW i \in 1..Len(fifo)
    PROVE  /\ fifo[i] \in Entry /\ fifo[i] \in live
           /\ body[fifo[i]].msg \in Message
  <1>1. fifo[i] \in Entry /\ fifo[i] \in live
    BY DEF IInv, TypeOK, HeapOwnership, Linked
  <1> QED
    BY <1>1 DEF IInv, ControlInv, Body

\* A step that neither calls, links, sends nor writes to a linked entry keeps
\* OrderInv; it may unlink and end calls.
LEMMA OrderKept ==
    ASSUME QueueAssumption, IInv, OrderInv, calls' = calls, sent' = sent,
           \A p \in Producers : ppc'[p] \in {ppc[p], "idle"} \/ ppc[p] # "idle",
           fifo' \in Seq(Entry),
           \A i \in 1..Len(fifo') : \E j \in 1..Len(fifo) :
               fifo'[i] = fifo[j] /\ body'[fifo'[i]].msg = body[fifo[j]].msg
    PROVE  OrderInv'
  <1>1. ASSUME NEW m \in Message, Finished(m) PROVE Finished(m)'
    BY <1>1 DEF Finished, Message
  <1>2. ASSUME NEW i \in 1..Len(fifo')
        PROVE  Finished(body[fifo[i]].msg)'
    <2>1. PICK j \in 1..Len(fifo) :
              fifo'[i] = fifo[j] /\ body'[fifo'[i]].msg = body[fifo[j]].msg
      OBVIOUS
    <2>2. Finished(body[fifo[j]].msg) /\ body[fifo[j]].msg \in Message
      BY LinkedFilled DEF OrderInv
    <2>3. \A m \in Message : Finished(m) => Finished(m)'
      BY <1>1
    <2> QED
      BY <2>1, <2>2, <2>3 DEF Finished
  <1>3. \A i \in 1..Len(sent) : sent[i] \in Message
    BY DEF IInv, TypeOK
  <1>4. ASSUME NEW i \in 1..Len(sent') PROVE Finished(sent[i])'
    BY <1>1, <1>3 DEF OrderInv, Finished
  <1> QED
    BY <1>2, <1>4 DEF OrderInv

\* publish() raises the number of calls of its producer.
LEMMA PublishOrder ==
    ASSUME QueueAssumption, IInv, OrderInv, NEW p \in Producers, Publish(p)
    PROVE  OrderInv'
  <1>1. ASSUME NEW m \in Message, Finished(m) PROVE Finished(m)'
    <2>1. m.producer \in Producers /\ m.n \in Nat /\ calls[m.producer] \in Nat
      BY DEF Message, IInv, TypeOK
    <2>2. CASE m.producer = p
      BY <1>1, <2>1, <2>2 DEF Finished, Publish, IInv, TypeOK
    <2>3. CASE m.producer # p
      BY <1>1, <2>1, <2>3 DEF Finished, Publish, IInv, TypeOK
    <2> QED
      BY <2>2, <2>3
  <1>2. fifo' = fifo /\ body' = body /\ sent' = sent
    BY DEF Publish, listVars
  <1>3. \A i \in 1..Len(sent) : sent[i] \in Message
    BY DEF IInv, TypeOK
  <1>4. ASSUME NEW i \in 1..Len(fifo) PROVE Finished(body[fifo[i]].msg)'
    <2>1. body[fifo[i]].msg \in Message /\ Finished(body[fifo[i]].msg)
      BY LinkedFilled DEF OrderInv
    <2> QED
      BY <1>1, <1>2, <2>1 DEF Finished
  <1>5. ASSUME NEW i \in 1..Len(sent) PROVE Finished(sent[i])'
    BY <1>1, <1>2, <1>3 DEF OrderInv, Finished
  <1> QED
    BY <1>2, <1>4, <1>5 DEF OrderInv

\* enqueue() links the message of the call it ends.
LEMMA LinkOrder ==
    ASSUME QueueAssumption, IInv, OrderInv, NEW p \in Producers, Link(p)
    PROVE  OrderInv'
  <1> DEFINE e == held[p]
  <1>1. /\ e \in Entry /\ e \notin Linked
        /\ body[e].msg = [producer |-> p, n |-> calls[p]] /\ body[e] \in Body
    BY DEF IInv, Link, ControlInv, HeapOwnership, Held
  <1>2. /\ fifo \in Seq(Entry) /\ fifo' = Append(fifo, e)
        /\ calls' = calls /\ sent' = sent
        /\ \A q \in Producers : ppc'[q] = IF q = p THEN "idle" ELSE ppc[q]
    BY DEF Link, IInv, TypeOK
  <1>3. \A x \in Entry : body'[x].msg = body[x].msg
    <2>1. body' = [body EXCEPT ![e] = [body[e] EXCEPT !.linked = IF connected THEN session ELSE 0]]
      BY DEF Link
    <2> QED
      BY <1>1, <2>1 DEF IInv, TypeOK, Body
  <1>4. ASSUME NEW m \in Message, Finished(m) PROVE Finished(m)'
    BY <1>2, <1>4 DEF Finished, Message
  <1>5. ASSUME NEW i \in 1..Len(fifo') PROVE Finished(body[fifo[i]].msg)'
    <2>1. CASE i \in 1..Len(fifo)
      <3>1. fifo'[i] = fifo[i] /\ fifo[i] \in Entry
        BY <1>2, <2>1
      <3>2. body[fifo[i]].msg \in Message /\ Finished(body[fifo[i]].msg)
        BY <2>1, LinkedFilled DEF OrderInv
      <3> QED
        BY <1>3, <1>4, <3>1, <3>2 DEF Finished
    <2>2. CASE i = Len(fifo) + 1
      <3>1. body'[fifo'[i]].msg = [producer |-> p, n |-> calls[p]]
        BY <1>1, <1>2, <1>3, <2>2
      <3>2. calls[p] \in Nat
        BY DEF IInv, TypeOK
      <3> QED
        BY <1>2, <3>1, <3>2 DEF Finished
    <2> QED
      BY <1>2, <2>1, <2>2, AppendFacts
  <1>6. \A i \in 1..Len(sent) : sent[i] \in Message
    BY DEF IInv, TypeOK
  <1>7. ASSUME NEW i \in 1..Len(sent) PROVE Finished(sent[i])'
    BY <1>2, <1>4, <1>6 DEF OrderInv, Finished
  <1> QED
    BY <1>2, <1>5, <1>7 DEF OrderInv

\* The head is sent after those sent before it.
LEMMA SendOrder ==
    ASSUME QueueAssumption, IInv, OrderInv, SendOk
    PROVE  OrderInv'
  <1>1. /\ 1 \in 1..Len(fifo) /\ cur = fifo[1]
        /\ body[cur].msg \in Message /\ Finished(body[cur].msg)
    BY CurIsFirst, LinkedFilled DEF SendOk, OrderInv, IInv, TypeOK
  <1>2. /\ sent \in Seq(Message) /\ sent' = Append(sent, body[cur].msg)
        /\ fifo' = fifo /\ body' = body /\ calls' = calls /\ ppc' = ppc
    BY DEF SendOk, IInv, TypeOK, listVars, producerVars
  <1>3. \A i \in 1..Len(sent') : sent'[i] = body[cur].msg \/ \E j \in 1..Len(sent) : sent'[i] = sent[j]
    BY <1>1, <1>2
  <1>4. \A m : Finished(m)' = Finished(m)
    BY <1>2 DEF Finished
  <1>5. \A i \in 1..Len(sent') : Finished(sent'[i])
    BY <1>1, <1>3 DEF OrderInv
  <1>6. \A i \in 1..Len(fifo) : Finished(body[fifo[i]].msg)
    BY DEF OrderInv
  <1> QED
    BY <1>2, <1>4, <1>5, <1>6 DEF OrderInv

\* Every step keeps OrderInv.
LEMMA OrderStep ==
    ASSUME QueueAssumption, IInv, OrderInv, [Next]_vars
    PROVE  OrderInv'
  <1>1. fifo \in Seq(Entry) /\ <<>> \in Seq(Entry)
    BY DEF IInv, TypeOK
  <1>2. ASSUME NEW p \in Producers, Producer(p) PROVE OrderInv'
    <2>1. CASE RejectFull(p) \/ RejectTooLarge(p) \/ RejectNoMemory(p)
      BY <1>1, <2>1, OrderKept
         DEF RejectFull, RejectTooLarge, RejectNoMemory, GiveUp, listVars, IInv, TypeOK
    <2>2. CASE Allocate(p)
      <3>1. \A i \in 1..Len(fifo) : fifo[i] \in live /\ fifo[i] \in Entry
        BY LinkedFilled
      <3>2. \A x \in live \cap Entry : body'[x] = body[x]
        BY <2>2 DEF Allocate, IInv, TypeOK
      <3> QED
        BY <1>1, <2>2, <3>1, <3>2, OrderKept DEF Allocate, IInv, TypeOK
    <2>3. CASE LinkFull(p)
      BY <1>1, <2>3, OrderKept DEF LinkFull, listVars, IInv, TypeOK
    <2> QED
      BY <1>2, <2>1, <2>2, <2>3, PublishOrder, LinkOrder DEF Producer
  <1>3. CASE Task
    <2>1. CASE ClearQueue
      BY <1>1, <2>1, OrderKept DEF ClearQueue, producerVars
    <2>2. CASE UnlinkHead
      <3>1. fifo # <<>>
        BY <2>2, CurIsFirst DEF UnlinkHead
      <3>2. /\ Tail(fifo) \in Seq(Entry) /\ Len(fifo) \in Nat
            /\ Len(Tail(fifo)) = Len(fifo) - 1
            /\ \A i \in 1..Len(Tail(fifo)) : Tail(fifo)[i] = fifo[i + 1]
        BY <1>1, <3>1, TailFacts
      <3>3. \A i \in 1..Len(Tail(fifo)) : i + 1 \in 1..Len(fifo)
        BY <3>2
      <3> QED
        BY <2>2, <3>2, <3>3, OrderKept DEF UnlinkHead, producerVars
    <2>3. CASE Round \/ FreeNext \/ DrainHead \/ Reserve \/ ReserveFails \/ SendFails
      <3>1. fifo' = fifo /\ body' = body /\ calls' = calls /\ sent' = sent /\ ppc' = ppc
        BY <2>3 DEF Round, FreeNext, DrainHead, Reserve, ReserveFails, SendFails,
                    listVars, producerVars
      <3> QED
        BY <1>1, <3>1, OrderKept
    <2> QED
      BY <1>3, <2>1, <2>2, <2>3, SendOrder DEF Task
  <1>4. CASE UNCHANGED vars
    BY <1>1, <1>4, OrderKept DEF vars, listVars, producerVars
  <1> QED
    BY <1>2, <1>3, <1>4 DEF Next

-----------------------------------------------------------------------------
(* The simulation.                                                         *)

\* A sequence is the function it is.
LEMMA SeqAsFunction ==
    ASSUME NEW S, NEW s \in Seq(S)
    PROVE  s = [i \in 1..Len(s) |-> s[i]]
  OBVIOUS

\* msgs holds the message of every linked entry.
LEMMA MsgsFacts ==
    ASSUME QueueAssumption, IInv
    PROVE  /\ msgs \in Seq(Message) /\ Len(msgs) = Len(fifo) /\ Len(fifo) \in Nat
           /\ \A i \in 1..Len(fifo) : msgs[i] = body[fifo[i]].msg
           /\ msgs = <<>> <=> fifo = <<>>
  <1>1. Len(fifo) \in Nat
    BY DEF IInv, TypeOK
  <1>2. msgs \in [1..Len(fifo) -> Message]
    BY LinkedFilled DEF msgs
  <1>3. msgs \in Seq(Message) /\ Len(msgs) = Len(fifo)
    BY <1>1, <1>2
  <1>4. fifo = <<>> <=> Len(fifo) = 0
    BY DEF IInv, TypeOK
  <1> QED
    BY <1>1, <1>3, <1>4 DEF msgs

\* As long as list and messages stay, so does msgs.
LEMMA MsgsSame ==
    ASSUME fifo' = fifo, \A i \in 1..Len(fifo) : body'[fifo[i]].msg = body[fifo[i]].msg
    PROVE  msgs' = msgs
  BY DEF msgs

\* The queue is empty at first.
LEMMA InitFifo == Init => Fifo!Init
  BY DEF Init, Fifo!Init, queued, msgs

\* enqueue() links at the tail: Accept of its message.
LEMMA LinkAccepts ==
    ASSUME QueueAssumption, IInv, IInv', OrderInv, NEW p \in Producers, Link(p)
    PROVE  Fifo!Next
  <1> DEFINE e == held[p]
             m == [producer |-> p, n |-> calls[p]]
  <1>1. /\ e \in Entry /\ e \notin Linked /\ body[e].msg = m /\ body[e] \in Body
        /\ m \in Message /\ m.producer = p /\ m.n = calls[p] /\ calls[p] \in Nat
    BY SMTT(30) DEF IInv, Link, ControlInv, HeapOwnership, Held, Body, TypeOK
  <1>2. /\ fifo \in Seq(Entry) /\ fifo' = Append(fifo, e) /\ cpc' = cpc
        /\ sent' = sent /\ Len(fifo) < MaxQueue /\ Len(fifo) \in Nat
        /\ Len(fifo') = Len(fifo) + 1
        /\ \A i \in 1..Len(fifo) : fifo'[i] = fifo[i]
        /\ fifo'[Len(fifo) + 1] = e
    BY <1>1 DEF Link, IInv, TypeOK, ListIsFifo
  <1>3. \A x \in Entry : body'[x].msg = body[x].msg
    <2>1. body' = [body EXCEPT ![e] = [body[e] EXCEPT !.linked = IF connected THEN session ELSE 0]]
      BY DEF Link
    <2> QED
      BY <1>1, <2>1 DEF IInv, TypeOK, Body
  <1>4. /\ msgs \in Seq(Message) /\ Len(msgs) = Len(fifo)
        /\ \A i \in 1..Len(fifo) : msgs[i] = body[fifo[i]].msg
    BY MsgsFacts
  <1>5. msgs' = Append(msgs, m)
    <2>1. msgs' = [i \in 1..Len(fifo) + 1 |-> body'[fifo'[i]].msg]
      BY <1>2 DEF msgs
    <2>2. ASSUME NEW i \in 1..Len(fifo) + 1
          PROVE  body'[fifo'[i]].msg = Append(msgs, m)[i]
      <3>1. CASE i \in 1..Len(fifo)
        <4>1. fifo[i] \in Entry
          BY <1>2, <3>1
        <4> QED
          BY <1>2, <1>3, <1>4, <3>1, <4>1
      <3>2. CASE i = Len(fifo) + 1
        BY <1>1, <1>2, <1>3, <1>4, <3>2
      <3>3. i \in 1..Len(fifo) \/ i = Len(fifo) + 1
        BY <1>2, <2>2
      <3> QED
        BY <3>1, <3>2, <3>3
    <2>3. Append(msgs, m) = [i \in 1..Len(fifo) + 1 |-> Append(msgs, m)[i]]
      BY <1>1, <1>4
    <2> QED
      BY <2>1, <2>2, <2>3
  <1>6. cpc = "sent" => msgs # <<>>
    BY CurIsFirst, MsgsFacts
  <1>7. queued' = Append(queued, m)
    BY <1>2, <1>4, <1>5, <1>6 DEF queued
  <1>8. Fifo!Newest(m, queued)
    <2>1. \A i \in 1..Len(msgs) : msgs[i].producer = p => msgs[i].n < calls[p]
      BY <1>1, <1>4 DEF OrderInv, Finished, Link
    <2>2. CASE cpc = "sent"
      <3>1. /\ Len(Tail(msgs)) = Len(msgs) - 1 /\ Len(msgs) \in Nat
            /\ \A i \in 1..Len(Tail(msgs)) : Tail(msgs)[i] = msgs[i + 1]
        BY <1>4, <1>6, <2>2, TailFacts
      <3>2. \A i \in 1..Len(Tail(msgs)) : i + 1 \in 1..Len(msgs)
        BY <3>1
      <3> QED
        BY <1>1, <2>1, <2>2, <3>1, <3>2 DEF Fifo!Newest, queued
    <2>3. CASE cpc # "sent"
      BY <1>1, <2>1, <2>3 DEF Fifo!Newest, queued
    <2> QED
      BY <2>2, <2>3
  <1>9. Fifo!Newest(m, sent)
    BY <1>1 DEF Fifo!Newest, OrderInv, Finished, Link
  <1>10. Len(queued) < MaxQueue
    BY <1>2, <1>4, <1>6 DEF queued
  <1> QED
    BY <1>1, <1>2, <1>7, <1>8, <1>9, <1>10 DEF Fifo!Next, Fifo!Accept, Fifo!Message, Message

\* A successful send is the abstract one: the head leaves, although linked.
LEMMA SendOkSends ==
    ASSUME QueueAssumption, IInv, SendOk
    PROVE  Fifo!Next
  <1>1. fifo # <<>> /\ cur = fifo[1] /\ 1 \in 1..Len(fifo)
    BY CurIsFirst DEF SendOk, IInv, TypeOK
  <1>2. msgs \in Seq(Message) /\ msgs # <<>> /\ msgs[1] = body[cur].msg
    BY <1>1, MsgsFacts
  <1>3. msgs' = msgs
    BY DEF SendOk, msgs, listVars
  <1>4. queued = msgs /\ queued' = Tail(msgs) /\ sent' = Append(sent, Head(msgs))
    BY <1>2, <1>3 DEF SendOk, queued
  <1> QED
    BY <1>2, <1>4 DEF Fifo!Next, Fifo!Send

\* The unlink after a send changes nothing any more; after a drop it loses
\* the head.
LEMMA UnlinkHeadDrops ==
    ASSUME QueueAssumption, IInv, IInv', UnlinkHead
    PROVE  [Fifo!Next]_Fifo!fifoVars
  <1>1. fifo # <<>> /\ fifo \in Seq(Entry)
    BY CurIsFirst DEF UnlinkHead, IInv, TypeOK
  <1>2. /\ fifo' = Tail(fifo) /\ body' = body /\ sent' = sent /\ cpc' = "drain"
        /\ Len(fifo) \in Nat \ {0} /\ Len(fifo') = Len(fifo) - 1
        /\ \A i \in 1..Len(fifo') : fifo'[i] = fifo[i + 1]
    BY <1>1, TailFacts DEF UnlinkHead
  <1>3. /\ msgs \in Seq(Message) /\ msgs # <<>> /\ Len(msgs) = Len(fifo)
        /\ \A i \in 1..Len(fifo) : msgs[i] = body[fifo[i]].msg
    BY <1>1, MsgsFacts
  <1>4. /\ Tail(msgs) \in Seq(Message) /\ Len(Tail(msgs)) = Len(fifo')
        /\ \A i \in 1..Len(Tail(msgs)) : Tail(msgs)[i] = msgs[i + 1]
    BY <1>2, <1>3, TailFacts
  <1>5. msgs' = Tail(msgs)
    <2>1. \A i \in 1..Len(fifo') : i + 1 \in 1..Len(fifo)
      BY <1>2
    <2>2. \A i \in 1..Len(fifo') : body'[fifo'[i]].msg = Tail(msgs)[i]
      BY <1>2, <1>3, <1>4, <2>1
    <2>3. msgs' = [i \in 1..Len(fifo') |-> Tail(msgs)[i]]
      BY <2>2 DEF msgs
    <2>4. Tail(msgs) = [i \in 1..Len(Tail(msgs)) |-> Tail(msgs)[i]]
      BY <1>4, SeqAsFunction
    <2> QED
      BY <1>4, <2>3, <2>4
  <1>6. queued' = Tail(msgs)
    BY <1>2, <1>5 DEF queued
  <1>7. CASE cpc = "sent"
    BY <1>2, <1>6, <1>7 DEF queued, Fifo!fifoVars
  <1>8. CASE cpc = "drop"
    BY <1>2, <1>3, <1>6, <1>8 DEF queued, Fifo!Next, Fifo!DropHead
  <1> QED
    BY <1>7, <1>8 DEF UnlinkHead

\* Every step of the list is one of the abstract queue or none.
LEMMA StepSimulation ==
    ASSUME QueueAssumption, IInv, IInv', OrderInv, [Next]_vars
    PROVE  [Fifo!Next]_Fifo!fifoVars
  <1>1. ASSUME NEW p \in Producers, Producer(p) PROVE [Fifo!Next]_Fifo!fifoVars
    <2>1. CASE Link(p)
      BY <2>1, LinkAccepts
    <2>2. CASE Allocate(p)
      <3>1. \A i \in 1..Len(fifo) : fifo[i] \in live /\ fifo[i] \in Entry
        BY LinkedFilled
      <3>2. \A x \in live \cap Entry : body'[x] = body[x]
        BY <2>2 DEF Allocate, IInv, TypeOK
      <3>3. msgs' = msgs
        BY <2>2, <3>1, <3>2, MsgsSame DEF Allocate
      <3> QED
        BY <2>2, <3>3 DEF Allocate, queued, Fifo!fifoVars
    <2>3. CASE Publish(p) \/ RejectFull(p) \/ RejectTooLarge(p) \/ RejectNoMemory(p)
               \/ LinkFull(p)
      BY <2>3 DEF Publish, RejectFull, RejectTooLarge, RejectNoMemory, LinkFull,
                  GiveUp, listVars, queued, msgs, Fifo!fifoVars
    <2> QED
      BY <1>1, <2>1, <2>2, <2>3 DEF Producer
  <1>2. CASE Task
    <2>1. CASE ClearQueue
      <3>1. queued' = <<>> /\ sent' = sent
        BY <2>1 DEF ClearQueue, queued, msgs
      <3> QED
        BY <3>1 DEF Fifo!Next, Fifo!Clear
    <2>2. CASE Round \/ FreeNext \/ DrainHead \/ Reserve \/ ReserveFails \/ SendFails
      <3>1. fifo' = fifo /\ body' = body /\ sent' = sent /\ cpc # "sent" /\ cpc' # "sent"
        BY <2>2 DEF Round, FreeNext, DrainHead, Reserve, ReserveFails, SendFails, listVars
      <3> QED
        BY <3>1 DEF queued, msgs, Fifo!fifoVars
    <2> QED
      BY <1>2, <2>1, <2>2, SendOkSends, UnlinkHeadDrops DEF Task
  <1>3. CASE UNCHANGED vars
    BY <1>3 DEF vars, listVars, queued, msgs, Fifo!fifoVars
  <1> QED
    BY <1>1, <1>2, <1>3 DEF Next

\* The linked list, with its unlocked steps, its drops and its clearing, is a
\* bounded queue that sends what it accepted in order and at most once.
THEOREM Refinement == Spec => ImplementsFifo
  <1>1. Init => IInv /\ OrderInv
    BY InitInv DEF Init, OrderInv
  <1>2. IInv /\ OrderInv /\ [Next]_vars => IInv' /\ OrderInv'
    BY NextStep, OrderStep, QueueAssumption
  <1>3. Spec => [](IInv /\ OrderInv)
    BY <1>1, <1>2, PTL DEF Spec
  <1>4. IInv /\ IInv' /\ OrderInv /\ [Next]_vars => [Fifo!Next]_Fifo!fifoVars
    BY StepSimulation, QueueAssumption
  <1> QED
    BY <1>3, <1>4, InitFifo, PTL DEF Spec, ImplementsFifo, Fifo!Spec
=============================================================================
