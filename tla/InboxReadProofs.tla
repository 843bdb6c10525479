--------------------------- MODULE InboxReadProofs ---------------------------
(***************************************************************************)
(* What read_inbox promises its caller, for every number of messages,      *)
(* limit, page size and page count, and whatever Gmail answers.            *)
(***************************************************************************)
EXTENDS InboxRead, FiniteSetTheorems, TLAPS

(* The types, and the size of what was listed.                             *)
Shape ==
  /\ pc \in {"list", "get", "done", "error"}
  /\ inbox \subseteq Messages
  /\ steady \subseteq inbox
  /\ listed \subseteq Messages
  /\ Cardinality(listed) <= Limit
  /\ token \in Places
  /\ whole \in BOOLEAN
  /\ shows \in [DOMAIN shows -> Shown]
  /\ DOMAIN shows \subseteq listed

(* What the loop over the pages has established, and with what it leaves.  *)
Progress ==
  /\ pc = "list" => ~whole /\ DOMAIN shows = {}
  /\ pc = "get" => whole \/ Cardinality(listed) = Limit
  /\ pc = "done" => result \in Reads(Limit) /\ result.shows = shows /\ DOMAIN shows = listed

(* With anchored tokens no steady message is passed over: those at or      *)
(* above the next page's place are listed, and at the end all of them.     *)
NonePassedOver ==
  anchored => /\ pc = "list" => {m \in steady : token <= m} \subseteq listed
              /\ pc \in {"get", "done"} /\ whole => steady \subseteq listed

(* The result carries the listing's own verdict on its completeness.       *)
ResultTells == pc = "done" => result.whole = whole

ReadInv == Shape /\ Progress /\ NonePassedOver /\ ResultTells

------------------------------------------------------------------------------
(* The messages are numbers, and finitely many.                            *)
LEMMA MessagesFinite ==
  /\ \A m \in Messages : m \in Nat /\ m < Top
  /\ \A S \in SUBSET Messages : IsFiniteSet(S) /\ Cardinality(S) \in Nat
<1>1. 1 \in Int /\ Top - 1 \in Int
  BY ReadAssumption
<1>2. IsFiniteSet(1..(Top - 1))
  BY <1>1, FS_Interval
<1>3. \A S \in SUBSET Messages : IsFiniteSet(S)
  BY <1>2, ReadAssumption, FS_Subset
<1>4. \A S \in SUBSET Messages : Cardinality(S) \in Nat
  BY <1>3, FS_CardinalityType
<1>5. \A m \in Messages : m \in Nat /\ m < Top
  BY ReadAssumption
<1>6. QED
  BY <1>3, <1>4, <1>5

(* A page that is acceptable keeps the listing within the limit.           *)
LEMMA PageFits ==
  ASSUME NEW a, a.messages \subseteq Messages, listed \subseteq Messages, Acceptable(a)
  PROVE  Cardinality(listed \cup a.messages) <= Limit
<1>1. /\ IsFiniteSet(listed) /\ Cardinality(listed) \in Nat
      /\ IsFiniteSet(a.messages) /\ Cardinality(a.messages) \in Nat
  BY MessagesFinite
<1>2. listed \cap a.messages \in SUBSET Messages
  OBVIOUS
<1>3. Cardinality(listed \cap a.messages) \in Nat
  BY <1>2, MessagesFinite
<1>4. Cardinality(listed \cup a.messages) =
        Cardinality(listed) + Cardinality(a.messages) - Cardinality(listed \cap a.messages)
  BY <1>1, FS_Union
<1>5. Limit \in Nat /\ MaxPageSize \in Nat
  BY ReadAssumption
<1>6. Cardinality(a.messages) <= Limit - Cardinality(listed)
  BY <1>1, <1>5 DEF Acceptable, Least
<1>7. QED
  BY <1>1, <1>3, <1>4, <1>5, <1>6

(* A page lists messages only, and its token is a place if there is one.   *)
LEMMA AnswerShape ==
  ASSUME Shape, NEW a \in Answer
  PROVE  a.messages \subseteq Messages /\ a.next \in Places \cup {None}
<1>1. CASE anchored
  BY <1>1 DEF Answer, Shape
<1>2. CASE ~anchored
  BY <1>2 DEF Answer
<1>3. QED
  BY <1>1, <1>2

(* An honest page leaves no steady message behind: after the last one all  *)
(* of them are listed, after another all down to its token's place.        *)
LEMMA HonestPage ==
  ASSUME ReadInv, anchored, pc = "list", NEW a \in Answer, Honest(a)
  PROVE  /\ a.next = None => steady \subseteq listed \cup a.messages
         /\ a.next # None => {m \in steady : a.next <= m} \subseteq listed \cup a.messages
<1>1. /\ \A m \in steady : token <= m => m \in listed
      /\ steady \subseteq inbox /\ inbox \subseteq Messages /\ token \in Nat
  BY ReadAssumption DEF ReadInv, NonePassedOver, Shape, Places
<1>2. \A m \in inbox : m \in Nat
  BY <1>1, MessagesFinite
<1>3. ASSUME a.next = None, NEW m \in steady, m \notin listed, m \notin a.messages
      PROVE  FALSE
  <2>1. m < token
    BY <1>1, <1>2, <1>3
  <2>2. {n \in inbox : n < token} \ a.messages = {}
    BY <1>3 DEF Honest
  <2>3. QED
    BY <1>1, <1>3, <2>1, <2>2
<1>4. ASSUME a.next # None, NEW m \in steady, a.next <= m, m \notin listed, m \notin a.messages
      PROVE  FALSE
  <2>1. m < token
    BY <1>1, <1>2, <1>4
  <2>2. {n \in inbox : n < token} \ a.messages = {n \in inbox : n < a.next}
    BY <1>4 DEF Honest
  <2>3. a.next \in Nat
    BY <1>4, AnswerShape, ReadAssumption DEF ReadInv, Places
  <2>4. m < a.next
    BY <1>1, <1>4, <2>1, <2>2
  <2>5. QED
    BY <1>1, <1>2, <1>4, <2>3, <2>4
<1>5. QED
  BY <1>3, <1>4

------------------------------------------------------------------------------
(* A read begins with nothing listed, and no message above the top.        *)
LEMMA InitInv == ReadInit => ReadInv
<1>1. SUFFICES ASSUME ReadInit PROVE ReadInv
  OBVIOUS
<1>2. Cardinality({}) = 0
  BY FS_EmptySet
<1>3. Shape
  <2>1. Top \in Nat /\ Limit \in Nat
    BY ReadAssumption
  <2>2. token \in Places /\ Cardinality(listed) <= Limit
    BY <1>1, <1>2, <2>1 DEF ReadInit, Places
  <2>3. DOMAIN shows = {} /\ shows \in [{} -> Shown]
    BY <1>1 DEF ReadInit
  <2>4. QED
    BY <1>1, <2>2, <2>3 DEF ReadInit, Shape
<1>4. {m \in steady : token <= m} = {}
  <2>1. Top \in Nat /\ token = Top /\ steady \subseteq Messages
    BY <1>1, ReadAssumption DEF ReadInit
  <2>2. \A m \in steady : m \in Nat /\ m < Top
    BY <2>1, MessagesFinite
  <2>3. \A m \in steady : ~(token <= m)
    BY <2>1, <2>2
  <2>4. QED
    BY <2>3
<1>5. QED
  BY <1>1, <1>3, <1>4 DEF ReadInit, ReadInv, Progress, NonePassedOver, ResultTells

LEMMA ListPageInv == ReadInv /\ ListPage => ReadInv'
<1>1. SUFFICES ASSUME ReadInv, ListPage PROVE ReadInv'
  OBVIOUS
<1>2. PICK a \in Answer :
        /\ Honest(a)
        /\ \/ /\ Acceptable(a)
              /\ listed' = listed \cup a.messages
              /\ \/ /\ a.next = None
                    /\ whole' = TRUE /\ pc' = "get"
                    /\ UNCHANGED <<token, tokens>>
                 \/ /\ a.next # None
                    /\ token' = a.next /\ tokens' = tokens \cup {a.next}
                    /\ UNCHANGED <<pc, whole>>
           \/ /\ ~Acceptable(a)
              /\ pc' = "error"
              /\ UNCHANGED <<listed, token, tokens, whole>>
  BY <1>1 DEF ListPage
<1>3. /\ pc = "list" /\ UNCHANGED <<anchored, inbox, steady, shows, result>>
      /\ Shape /\ ~whole /\ DOMAIN shows = {}
  BY <1>1 DEF ListPage, ReadInv, Progress
<1>4. a.messages \subseteq Messages /\ a.next \in Places \cup {None}
  BY <1>3, AnswerShape
<1>5. CASE ~Acceptable(a)
  BY <1>2, <1>3, <1>5 DEF ReadInv, Shape, Progress, NonePassedOver, ResultTells
<1>6. CASE Acceptable(a)
  <2>1. Cardinality(listed \cup a.messages) <= Limit
    BY <1>3, <1>4, <1>6, PageFits DEF Shape
  <2>2. /\ anchored /\ a.next = None => steady \subseteq listed'
        /\ anchored /\ a.next # None => {m \in steady : a.next <= m} \subseteq listed'
    BY <1>1, <1>2, <1>3, <1>6, HonestPage
  <2>3. Shape'
    BY <1>2, <1>3, <1>4, <1>6, <2>1 DEF Shape
  <2>4. CASE a.next = None
    <3>1. whole' = TRUE /\ pc' = "get"
      BY <1>2, <1>6, <2>4
    <3>2. QED
      BY <1>3, <2>2, <2>3, <2>4, <3>1 DEF ReadInv, Progress, NonePassedOver, ResultTells
  <2>5. CASE a.next # None
    <3>1. token' = a.next /\ UNCHANGED <<pc, whole>>
      BY <1>2, <1>6, <2>5
    <3>2. QED
      BY <1>3, <2>2, <2>3, <2>5, <3>1 DEF ReadInv, Progress, NonePassedOver, ResultTells
  <2>6. QED
    BY <2>4, <2>5
<1>7. QED
  BY <1>5, <1>6

(* Both ways out of the loop without a further page.                       *)
LEMMA LeaveListingInv == ReadInv /\ (Abort \/ EndListing) => ReadInv'
<1>1. SUFFICES ASSUME ReadInv, Abort \/ EndListing PROVE ReadInv'
  OBVIOUS
<1>2. CASE Abort
  BY <1>1, <1>2 DEF Abort, ReadInv, Shape, Progress, NonePassedOver, ResultTells
<1>3. CASE EndListing
  BY <1>1, <1>3 DEF EndListing, ReadInv, Shape, Progress, NonePassedOver, ResultTells
<1>4. QED
  BY <1>1, <1>2, <1>3

LEMMA GetMessageInv == ReadInv /\ GetMessage => ReadInv'
<1>1. SUFFICES ASSUME ReadInv, GetMessage PROVE ReadInv'
  OBVIOUS
<1>2. PICK m \in listed \ DOMAIN shows : \E o \in Outcomes(m) :
        shows' = [n \in DOMAIN shows \cup {m} |-> IF n = m THEN o ELSE shows[n]]
  BY <1>1 DEF GetMessage
<1>3. PICK o \in Outcomes(m) :
        shows' = [n \in DOMAIN shows \cup {m} |-> IF n = m THEN o ELSE shows[n]]
  BY <1>2
<1>4. o \in Shown
  BY DEF Outcomes, Shown
<1>5. /\ shows' \in [DOMAIN shows' -> Shown]
      /\ DOMAIN shows' \subseteq listed
  BY <1>1, <1>2, <1>3, <1>4 DEF ReadInv, Shape
<1>6. /\ pc = "get"
      /\ UNCHANGED <<anchored, inbox, steady, pc, listed, page, token, tokens, whole, result>>
  BY <1>1 DEF GetMessage
<1>7. QED
  BY <1>1, <1>5, <1>6 DEF ReadInv, Shape, Progress, NonePassedOver, ResultTells

LEMMA ReturnInv == ReadInv /\ Return => ReadInv'
<1>1. SUFFICES ASSUME ReadInv, Return PROVE ReadInv'
  OBVIOUS
<1>2. /\ pc = "get" /\ pc' = "done" /\ DOMAIN shows = listed
      /\ UNCHANGED <<anchored, inbox, steady, listed, page, token, tokens, whole, shows>>
  BY <1>1 DEF Return
<1>3. PICK e \in Estimates : result' = [shows |-> shows, whole |-> whole, estimate |-> e]
  BY <1>1 DEF Return
<1>4. shows \in Shows /\ whole \in BOOLEAN /\ Cardinality(listed) <= Limit
  BY <1>1, <1>2 DEF ReadInv, Shape, Shows
<1>5. result' \in Result
  BY <1>3, <1>4 DEF Result
<1>6. whole \/ Cardinality(listed) = Limit
  BY <1>1, <1>2 DEF ReadInv, Progress
<1>7. result' \in Reads(Limit)
  BY <1>2, <1>3, <1>4, <1>5, <1>6 DEF Reads, Listed, StoppedAtLimit
<1>8. QED
  BY <1>1, <1>2, <1>3, <1>7 DEF ReadInv, Shape, Progress, NonePassedOver, ResultTells

(* Mail that moves is no longer steady, so it is owed to no listing.       *)
LEMMA MoveInv ==
  ASSUME ReadInv, NEW m \in Messages, Move(m)
  PROVE  ReadInv'
<1>1. /\ inbox' \subseteq Messages /\ steady' \subseteq inbox' /\ steady' \subseteq steady
  BY DEF Move, ReadInv, Shape
<1>2. UNCHANGED <<anchored, pc, listed, page, token, tokens, whole, shows, result>>
  BY DEF Move
<1>3. QED
  BY <1>1, <1>2 DEF ReadInv, Shape, Progress, NonePassedOver, ResultTells

(* What read_inbox holds at every point, whatever Gmail answers: the       *)
(* listing within the limit, and no steady message passed over.            *)
THEOREM ReadInvariant == ReadSpec => []ReadInv
<1>1. ReadInv /\ [ReadNext]_readVars => ReadInv'
  <2>1. SUFFICES ASSUME ReadInv, [ReadNext]_readVars PROVE ReadInv'
    OBVIOUS
  <2>2. CASE UNCHANGED readVars
    BY <2>1, <2>2 DEF readVars, ReadInv, Shape, Progress, NonePassedOver, ResultTells
  <2>3. ASSUME NEW m \in Messages, Move(m) PROVE ReadInv'
    BY <2>1, <2>3, MoveInv
  <2>4. QED
    BY <2>1, <2>2, <2>3, ListPageInv, LeaveListingInv, GetMessageInv, ReturnInv DEF ReadNext
<1>2. QED
  BY <1>1, InitInv, PTL DEF ReadSpec

------------------------------------------------------------------------------
(* Whatever Gmail answers, a read that does not raise yields one of the    *)
(* results a scan counts on (read_inbox).                                   *)
THEOREM ReadsYieldReads == ReadSpec => []YieldsARead
<1>1. ReadInv => YieldsARead
  BY DEF ReadInv, Progress, YieldsARead
<1>2. QED
  BY <1>1, ReadInvariant, PTL

(* A complete result stopped at no limit and shows every listed message    *)
(* with content (GmailReadResult.coverage, InventoryCounts).               *)
LEMMA CompleteMeans ==
  ASSUME NEW r \in Reads(Limit), Complete(r, Limit)
  PROVE  r.whole /\ Listed(r) \subseteq Showing(r, Contents)
<1>1. ~StoppedAtLimit(r, Limit) /\ Showing(r, {Failed}) = {}
  BY DEF Complete, Coverage
<1>2. r.whole
  BY <1>1 DEF Reads
<1>3. \A m \in Listed(r) : r.shows[m] # Failed /\ r.shows[m] # Outside
  BY <1>1 DEF Complete, Showing
<1>4. \A m \in Listed(r) : r.shows[m] \in Shown
  BY DEF Reads, Result, Shows, Listed
<1>5. QED
  BY <1>2, <1>3, <1>4 DEF Showing, Shown

(* A read that may be called complete saw every message that stayed in the *)
(* Inbox throughout, as long as page tokens name places (read_inbox).      *)
THEOREM CompleteReadsSawSteady == ReadSpec => []CompleteReadSawSteady
<1>1. ReadInv => CompleteReadSawSteady
  <2>1. SUFFICES ASSUME ReadInv, anchored, pc = "done", Complete(result, Limit)
                 PROVE  steady \subseteq Showing(result, Contents)
    BY DEF CompleteReadSawSteady
  <2>2. result \in Reads(Limit) /\ Listed(result) = listed
    BY <2>1 DEF ReadInv, Progress, Listed
  <2>3. whole /\ listed \subseteq Showing(result, Contents)
    BY <2>1, <2>2, CompleteMeans DEF ReadInv, ResultTells
  <2>4. steady \subseteq listed
    BY <2>1, <2>3 DEF ReadInv, NonePassedOver
  <2>5. QED
    BY <2>3, <2>4
<1>2. QED
  BY <1>1, ReadInvariant, PTL
==============================================================================
