--------------------------- MODULE ContentProofs ---------------------------
(***************************************************************************)
(* Proofs about what puts content into the database: the scripts, the      *)
(* seeded invitation and the defaults (Seeding), for every number of runs, *)
(* processes and items, wherever the scripts break off; and the staff's    *)
(* pages that edit versions (TestBuilder), for every number of requests,   *)
(* versions, edits and items.  The two share nothing.                      *)
(***************************************************************************)
EXTENDS Seeding, TestBuilder, SequencesExt, SequenceTheorems, WellFoundedInduction, TLAPS

-----------------------------------------------------------------------------
(***************************************************************************)
(* The sequences the scripts go through.                                   *)
(***************************************************************************)
ExamNames == {"demo", "official", "e2e"}

OtherTables ==
    {"organization", "permissions", "roles", "rolePermissions", "users", "userRoles", "questions",
     "exam", "profile", "taxonomy", "assessment", "assessmentVersion", "item", "itemVersion", "link",
     "category", "scoring", "scoringVersion", "template", "templateVersion", "norm", "normVersion"}

Owners == {"all", "demo", "official", "e2e"}
Names == Owners \cup {"exam", "1.0.0", "e2e-v1", "legacy-current"}
Key == Names \cup Nat \cup (Names \X Nat)

StepsOn(tables) ==
    {Keep(t, e, k) : t \in tables, e \in Owners, k \in Key}
    \cup {Update(t, e, k) : t \in tables, e \in Owners, k \in Key}

\* The steps but two; with the questions of the demo exam; with the invitation.
Other == StepsOn(OtherTables)
Plain == StepsOn(OtherTables \cup {"examQuestions"})
Step == StepsOn(OtherTables \cup {"examQuestions", "invitation"})

\* The questions of the demo exam come after the exam.
DemoExam == <<"exam", "demo", 0>>
DemoQuestions == <<"examQuestions", "demo", 0>>

ExamFirst(s) ==
    \A i \in 1..Len(s) : s[i].row = DemoQuestions => \E j \in 1..(i - 1) : s[j].row = DemoExam

\* Sets of steps by what their tables are.
LEMMA StepSets ==
  /\ Other \subseteq Plain /\ Plain \subseteq Step
  /\ \A st \in Plain : st.row[1] # "invitation"
  /\ \A st \in Other : st.row[1] # "examQuestions"
  <1>1. ASSUME NEW tables, NEW st \in StepsOn(tables) PROVE st.row[1] \in tables
    BY DEF StepsOn, Keep, Update
  <1>2. ASSUME NEW T, NEW U, T \subseteq U PROVE StepsOn(T) \subseteq StepsOn(U)
    BY <1>2 DEF StepsOn
  <1>3. Other \subseteq Plain /\ Plain \subseteq Step
    BY <1>2 DEF Other, Plain, Step
  <1>4. \A st \in Plain : st.row[1] \in OtherTables \cup {"examQuestions"}
    BY <1>1 DEF Plain
  <1>5. \A st \in Other : st.row[1] \in OtherTables
    BY <1>1 DEF Other
  <1>. QED
    BY <1>3, <1>4, <1>5 DEF OtherTables

\* The two kinds of steps, on every other table.
LEMMA OtherType ==
  ASSUME NEW t \in OtherTables, NEW e \in Owners, NEW k \in Key
  PROVE  Keep(t, e, k) \in Other /\ Update(t, e, k) \in Other
  BY DEF Other, StepsOn

\* Names, numbers and pairs of both are keys.
LEMMA KeyType ==
  /\ \A x \in Names : x \in Key
  /\ 0 \in Key
  BY DEF Key

LEMMA ItemKeys ==
  ASSUME NEW i \in 1..Items, NEW x \in Names
  PROVE  i \in Key /\ <<x, i>> \in Key
  BY ItemsAssumption DEF Key

\* A sequence over a set is one over a larger set.
LEMMA SeqGrows ==
  ASSUME NEW S, NEW T, S \subseteq T, NEW s \in Seq(S)
  PROVE  s \in Seq(T)
  OBVIOUS

\* What two sequences one after another contain.
LEMMA ConcatType ==
  ASSUME NEW S, NEW s \in Seq(S), NEW t \in Seq(S)
  PROVE  s \o t \in Seq(S) /\ ToSet(s \o t) = ToSet(s) \cup ToSet(t)
  <1>1. s \o t \in Seq(S) /\ Len(s \o t) = Len(s) + Len(t)
    OBVIOUS
  <1>2. ASSUME NEW x \in ToSet(s \o t) PROVE x \in ToSet(s) \cup ToSet(t)
    <2>1. PICK i \in 1..(Len(s) + Len(t)) : x = (s \o t)[i]
      BY <1>1, <1>2 DEF ToSet
    <2>2. CASE i <= Len(s)
      BY <2>1, <2>2 DEF ToSet
    <2>3. CASE i > Len(s)
      <3>1. i - Len(s) \in 1..Len(t) /\ (s \o t)[i] = t[i - Len(s)]
        BY <2>3
      <3>. QED
        BY <2>1, <3>1 DEF ToSet
    <2>. QED
      BY <2>2, <2>3
  <1>3. ASSUME NEW x \in ToSet(s) PROVE x \in ToSet(s \o t)
    <2>1. PICK i \in 1..Len(s) : x = s[i]
      BY <1>3 DEF ToSet
    <2>2. i \in 1..Len(s \o t) /\ (s \o t)[i] = s[i]
      BY <1>1
    <2>. QED
      BY <1>1, <2>1, <2>2 DEF ToSet
  <1>4. ASSUME NEW x \in ToSet(t) PROVE x \in ToSet(s \o t)
    <2>1. PICK i \in 1..Len(t) : x = t[i]
      BY <1>4 DEF ToSet
    <2>2. i + Len(s) \in 1..Len(s \o t) /\ (s \o t)[i + Len(s)] = t[i]
      BY <1>1
    <2>. QED
      BY <1>1, <2>1, <2>2 DEF ToSet
  <1>. QED
    BY <1>1, <1>2, <1>3, <1>4

\* Where the elements of two sequences are.
LEMMA ConcatParts ==
  ASSUME NEW S, NEW s \in Seq(S), NEW t \in Seq(S)
  PROVE  /\ Len(s \o t) = Len(s) + Len(t) /\ Len(s) \in Nat /\ Len(t) \in Nat
         /\ \A i \in 1..Len(s) : (s \o t)[i] = s[i]
         /\ \A i \in 1..Len(t) : (s \o t)[i + Len(s)] = t[i]
  OBVIOUS

LEMMA TailParts ==
  ASSUME NEW S, NEW s \in Seq(S), s # <<>>
  PROVE  /\ Len(s) \in Nat /\ Len(s) >= 1 /\ Len(Tail(s)) = Len(s) - 1
         /\ Head(s) = s[1] /\ \A i \in 1..(Len(s) - 1) : Tail(s)[i] = s[i + 1]
  OBVIOUS

\* What is first and what remains.
LEMMA TailType ==
  ASSUME NEW S, NEW s \in Seq(S), s # <<>>
  PROVE  /\ Head(s) \in ToSet(s) /\ Head(s) = s[1] /\ Tail(s) \in Seq(S)
         /\ ToSet(s) = ToSet(Tail(s)) \cup {Head(s)}
         /\ (Len(s) = 1) <=> (Tail(s) = <<>>)
  <1>1. /\ Len(s) \in Nat /\ Len(s) >= 1 /\ Tail(s) \in Seq(S) /\ Len(Tail(s)) = Len(s) - 1
        /\ DOMAIN Tail(s) = 1..Len(Tail(s))
        /\ Head(s) = s[1] /\ \A i \in 1..(Len(s) - 1) : Tail(s)[i] = s[i + 1]
    OBVIOUS
  <1>2. ASSUME NEW x \in ToSet(s) PROVE x \in ToSet(Tail(s)) \cup {Head(s)}
    <2>1. PICK i \in 1..Len(s) : x = s[i]
      BY <1>2 DEF ToSet
    <2>2. CASE i > 1
      <3>1. i - 1 \in 1..Len(Tail(s)) /\ Tail(s)[i - 1] = s[i]
        BY <1>1, <2>2
      <3>. QED
        BY <1>1, <2>1, <3>1 DEF ToSet
    <2>. QED
      BY <1>1, <2>1, <2>2
  <1>3. ASSUME NEW x \in ToSet(Tail(s)) PROVE x \in ToSet(s)
    <2>1. PICK i \in 1..(Len(s) - 1) : x = Tail(s)[i]
      BY <1>1, <1>3 DEF ToSet
    <2>. QED
      BY <1>1, <2>1 DEF ToSet
  <1>4. Head(s) \in ToSet(s)
    BY <1>1 DEF ToSet
  <1>5. (Len(s) = 1) <=> (Tail(s) = <<>>)
    <2>1. \A q \in Seq(S) : (Len(q) = 0) <=> (q = <<>>)
      BY EmptySeq
    <2>2. (Len(Tail(s)) = 0) <=> (Tail(s) = <<>>)
      BY <1>1, <2>1
    <2>. QED
      BY <1>1, <2>2
  <1>. QED
    BY <1>1, <1>2, <1>3, <1>4, <1>5

\* Short sequences.
LEMMA OneStep ==
  ASSUME NEW S, NEW a \in S
  PROVE  <<a>> \in Seq(S) /\ ToSet(<<a>>) = {a}
  BY DEF ToSet

LEMMA TwoSteps ==
  ASSUME NEW S, NEW a \in S, NEW b \in S
  PROVE  <<a, b>> \in Seq(S) /\ a \in ToSet(<<a, b>>) /\ b \in ToSet(<<a, b>>)
  BY DEF ToSet

LEMMA FourSteps ==
  ASSUME NEW S, NEW a \in S, NEW b \in S, NEW c \in S, NEW d \in S
  PROVE  <<a, b, c, d>> \in Seq(S)
  OBVIOUS

LEMMA FiveSteps ==
  ASSUME NEW S, NEW a \in S, NEW b \in S, NEW c \in S, NEW d \in S, NEW e \in S
  PROVE  <<a, b, c, d, e>> \in Seq(S) /\ {c, e} \subseteq ToSet(<<a, b, c, d, e>>)
  BY DEF ToSet

LEMMA SixSteps ==
  ASSUME NEW S, NEW a \in S, NEW b \in S, NEW c \in S, NEW d \in S, NEW e \in S, NEW f \in S
  PROVE  <<a, b, c, d, e, f>> \in Seq(S) /\ {b, d, f} \subseteq ToSet(<<a, b, c, d, e, f>>)
  BY DEF ToSet

\* A function on an initial segment is a sequence.
LEMMA FunctionIsSeq ==
  ASSUME NEW S, NEW n \in Nat, NEW s \in [1..n -> S]
  PROVE  s \in Seq(S)
  BY SeqDef

\* Every step of every block comes, and nothing else.
LEMMA ForEachItemType ==
  ASSUME NEW S, NEW size \in {3, 4}, NEW block,
         \A i \in 1..Items : \A j \in 1..size : block[i][j] \in S
  PROVE  /\ ForEachItem(size, block) \in Seq(S)
         /\ \A i \in 1..Items : \A j \in 1..size : block[i][j] \in ToSet(ForEachItem(size, block))
  <1>. DEFINE N == Items * size
              s == [k \in 1..N |-> block[((k - 1) \div size) + 1][((k - 1) % size) + 1]]
  <1>1. N \in Nat
    BY ItemsAssumption
  <1>2. ForEachItem(size, block) = s
    BY DEF ForEachItem
  <1>3. ASSUME NEW k \in 1..N
        PROVE  ((k - 1) \div size) + 1 \in 1..Items /\ ((k - 1) % size) + 1 \in 1..size
    <2>1. CASE size = 3
      BY <2>1, ItemsAssumption
    <2>2. CASE size = 4
      BY <2>2, ItemsAssumption
    <2>. QED
      BY <2>1, <2>2
  <1>4. s \in Seq(S)
    <2>1. s \in [1..N -> S]
      BY <1>3
    <2>. QED
      BY <1>1, <2>1, FunctionIsSeq
  <1>5. ASSUME NEW i \in 1..Items, NEW j \in 1..size
        PROVE  /\ (i - 1) * size + j \in 1..N
               /\ (((i - 1) * size + j - 1) \div size) + 1 = i
               /\ (((i - 1) * size + j - 1) % size) + 1 = j
    <2>1. CASE size = 3
      BY <2>1, ItemsAssumption
    <2>2. CASE size = 4
      BY <2>2, ItemsAssumption
    <2>. QED
      BY <2>1, <2>2
  <1>6. ASSUME NEW i \in 1..Items, NEW j \in 1..size PROVE block[i][j] \in ToSet(s)
    <2>. DEFINE k == (i - 1) * size + j
    <2>1. k \in 1..N /\ ((k - 1) \div size) + 1 = i /\ ((k - 1) % size) + 1 = j
      BY <1>5
    <2>. HIDE DEF k, N
    <2>2. s[k] = block[i][j]
      BY <2>1
    <2>3. DOMAIN s = 1..N
      OBVIOUS
    <2>. QED
      BY <2>1, <2>2, <2>3 DEF ToSet
  <1>. QED
    BY <1>2, <1>4, <1>6

\* The three steps of each item, and the four of the backfill.
LEMMA SeedItemsType ==
  /\ SeedItems \in Seq(Other)
  /\ \A i \in 1..Items : Update("link", "official", <<"1.0.0", i>>) \in ToSet(SeedItems)
  <1>. DEFINE block == [i \in 1..Items |->
           << Update("item", "official", i), Update("itemVersion", "official", i),
              Update("link", "official", <<"1.0.0", i>>) >>]
  <1>1. ASSUME NEW i \in 1..Items
        PROVE  /\ block[i][1] = Update("item", "official", i)
               /\ block[i][2] = Update("itemVersion", "official", i)
               /\ block[i][3] = Update("link", "official", <<"1.0.0", i>>)
    OBVIOUS
  <1>2. ASSUME NEW i \in 1..Items
        PROVE  /\ Update("item", "official", i) \in Other
               /\ Update("itemVersion", "official", i) \in Other
               /\ Update("link", "official", <<"1.0.0", i>>) \in Other
    <2>1. "1.0.0" \in Names
      BY DEF Names
    <2>2. 0 \in Key /\ i \in Key /\ <<"1.0.0", i>> \in Key
      BY <2>1, KeyType, ItemKeys
    <2>. QED
      BY <2>2, OtherType DEF OtherTables, Owners
  <1>3. SeedItems = ForEachItem(3, block)
    BY DEF SeedItems
  <1>. HIDE DEF block
  <1>4. \A i \in 1..Items : \A j \in 1..3 : block[i][j] \in Other
    <2>1. \A j \in 1..3 : j \in {1, 2, 3}
      OBVIOUS
    <2>. QED
      BY <2>1, <1>1, <1>2
  <1>. QED
    BY <1>1, <1>3, <1>4, ForEachItemType

LEMMA EnsureItemsType ==
  /\ EnsureItems \in Seq(Other)
  /\ \A i \in 1..Items : Update("link", "e2e", <<"e2e-v1", i>>) \in ToSet(EnsureItems)
  <1>. DEFINE block == [i \in 1..Items |->
           << Keep("item", "e2e", i), Keep("itemVersion", "e2e", i), Update("link", "e2e", <<"e2e-v1", i>>) >>]
  <1>1. ASSUME NEW i \in 1..Items
        PROVE  /\ block[i][1] = Keep("item", "e2e", i)
               /\ block[i][2] = Keep("itemVersion", "e2e", i)
               /\ block[i][3] = Update("link", "e2e", <<"e2e-v1", i>>)
    OBVIOUS
  <1>2. ASSUME NEW i \in 1..Items
        PROVE  /\ Keep("item", "e2e", i) \in Other
               /\ Keep("itemVersion", "e2e", i) \in Other
               /\ Update("link", "e2e", <<"e2e-v1", i>>) \in Other
    <2>1. "e2e-v1" \in Names
      BY DEF Names
    <2>2. 0 \in Key /\ i \in Key /\ <<"e2e-v1", i>> \in Key
      BY <2>1, KeyType, ItemKeys
    <2>. QED
      BY <2>2, OtherType DEF OtherTables, Owners
  <1>3. EnsureItems = ForEachItem(3, block)
    BY DEF EnsureItems
  <1>. HIDE DEF block
  <1>4. \A i \in 1..Items : \A j \in 1..3 : block[i][j] \in Other
    <2>1. \A j \in 1..3 : j \in {1, 2, 3}
      OBVIOUS
    <2>. QED
      BY <2>1, <1>1, <1>2
  <1>. QED
    BY <1>1, <1>3, <1>4, ForEachItemType

LEMMA BackfillItemsType ==
  ASSUME NEW e \in Owners, NEW read
  PROVE  /\ BackfillItems(e, read) \in Seq(Other)
         /\ <<"examQuestions", e, 0>> \in read =>
              \A i \in 1..Items : Keep("link", e, <<"1.0.0", i>>) \in ToSet(BackfillItems(e, read))
  <1>. DEFINE block == [i \in 1..Items |->
           << Keep("category", e, 0), Keep("item", e, i), Keep("itemVersion", e, i), Keep("link", e, <<"1.0.0", i>>) >>]
  <1>1. ASSUME NEW i \in 1..Items
        PROVE  /\ block[i][1] = Keep("category", e, 0) /\ block[i][2] = Keep("item", e, i)
               /\ block[i][3] = Keep("itemVersion", e, i) /\ block[i][4] = Keep("link", e, <<"1.0.0", i>>)
    OBVIOUS
  <1>2. ASSUME NEW i \in 1..Items
        PROVE  /\ Keep("category", e, 0) \in Other /\ Keep("item", e, i) \in Other
               /\ Keep("itemVersion", e, i) \in Other /\ Keep("link", e, <<"1.0.0", i>>) \in Other
    <2>1. "1.0.0" \in Names
      BY DEF Names
    <2>2. 0 \in Key /\ i \in Key /\ <<"1.0.0", i>> \in Key
      BY <2>1, KeyType, ItemKeys
    <2>. QED
      BY <2>2, OtherType DEF OtherTables, Owners
  <1>3. CASE <<"examQuestions", e, 0>> \notin read
    BY <1>3 DEF BackfillItems
  <1>4. CASE <<"examQuestions", e, 0>> \in read
    <2>1. BackfillItems(e, read) = ForEachItem(4, block)
      BY <1>4 DEF BackfillItems
    <2>. HIDE DEF block
    <2>2. \A i \in 1..Items : \A j \in 1..4 : block[i][j] \in Other
      <3>1. \A j \in 1..4 : j \in {1, 2, 3, 4}
        OBVIOUS
      <3>. QED
        BY <3>1, <1>1, <1>2
    <2>. QED
      BY <1>1, <2>1, <2>2, ForEachItemType
  <1>. QED
    BY <1>3, <1>4

\* Nothing but the seed writes the questions, and it has the exam before.
LEMMA ExamFirstWithout ==
  ASSUME NEW s \in Seq(Other)
  PROVE  ExamFirst(s)
  <1>1. ASSUME NEW i \in 1..Len(s) PROVE s[i].row # DemoQuestions
    <2>1. s[i].row[1] # "examQuestions"
      BY StepSets
    <2>. QED
      BY <2>1 DEF DemoQuestions
  <1>. QED
    BY <1>1 DEF ExamFirst

LEMMA ExamFirstConcat ==
  ASSUME NEW S, NEW s \in Seq(S), NEW t \in Seq(S), ExamFirst(s), ExamFirst(t)
  PROVE  ExamFirst(s \o t)
  <1>1. /\ Len(s \o t) = Len(s) + Len(t) /\ Len(s) \in Nat /\ Len(t) \in Nat
        /\ \A i \in 1..Len(s) : (s \o t)[i] = s[i]
        /\ \A i \in 1..Len(t) : (s \o t)[i + Len(s)] = t[i]
    BY ConcatParts
  <1>. DEFINE u == s \o t
  <1>. HIDE DEF u
  <1>2. ASSUME NEW i \in 1..(Len(s) + Len(t)), u[i].row = DemoQuestions
        PROVE  \E j \in 1..(i - 1) : u[j].row = DemoExam
    <2>1. CASE i <= Len(s)
      <3>1. i \in 1..Len(s) /\ s[i].row = DemoQuestions
        BY <1>1, <1>2, <2>1 DEF u
      <3>2. PICK j \in 1..(i - 1) : s[j].row = DemoExam
        BY <3>1 DEF ExamFirst
      <3>3. j \in 1..Len(s) /\ u[j] = s[j]
        BY <1>1, <3>1 DEF u
      <3>. QED
        BY <3>2, <3>3
    <2>2. CASE i > Len(s)
      <3>. DEFINE k == i - Len(s)
      <3>1. k \in 1..Len(t) /\ i = k + Len(s)
        BY <1>1, <2>2
      <3>. HIDE DEF k
      <3>2. t[k].row = DemoQuestions
        BY <1>1, <1>2, <3>1 DEF u
      <3>3. PICK j \in 1..(k - 1) : t[j].row = DemoExam
        BY <3>1, <3>2 DEF ExamFirst
      <3>4. j \in 1..Len(t) /\ u[j + Len(s)] = t[j]
        BY <1>1, <3>1 DEF u
      <3>5. j + Len(s) \in 1..(i - 1)
        BY <1>1, <3>1
      <3>. QED
        BY <3>3, <3>4, <3>5
    <2>. QED
      BY <1>1, <2>1, <2>2
  <1>. QED
    BY <1>1, <1>2 DEF ExamFirst, u

LEMMA ExamFirstTail ==
  ASSUME NEW S, NEW s \in Seq(S), s # <<>>, ExamFirst(s), Head(s).row # DemoExam
  PROVE  Head(s).row # DemoQuestions /\ ExamFirst(Tail(s))
  <1>1. /\ Len(s) \in Nat /\ Len(s) >= 1 /\ Len(Tail(s)) = Len(s) - 1
        /\ Head(s) = s[1] /\ \A i \in 1..(Len(s) - 1) : Tail(s)[i] = s[i + 1]
    OBVIOUS
  <1>. DEFINE u == Tail(s)
  <1>. HIDE DEF u
  <1>2. ASSUME NEW i \in 1..(Len(s) - 1), u[i].row = DemoQuestions
        PROVE  \E j \in 1..(i - 1) : u[j].row = DemoExam
    <2>1. i + 1 \in 1..Len(s) /\ s[i + 1].row = DemoQuestions
      BY <1>1, <1>2 DEF u
    <2>2. PICK j \in 1..i : s[j].row = DemoExam
      BY <2>1 DEF ExamFirst
    <2>3. j - 1 \in 1..(i - 1)
      BY <1>1, <2>2
    <2>4. u[j - 1] = s[j]
      BY <1>1, <2>3 DEF u
    <2>. QED
      BY <2>2, <2>3, <2>4
  <1>3. Head(s).row # DemoQuestions
    <2>1. 1 \in 1..Len(s) /\ ~\E j \in 1..(1 - 1) : s[j].row = DemoExam
      BY <1>1
    <2>. QED
      BY <1>1, <2>1 DEF ExamFirst
  <1>. QED
    BY <1>1, <1>2, <1>3 DEF ExamFirst, u

\* The rows that make the version of the official assessment complete.
LEMMA SeedStepsType ==
  /\ SeedSteps \in Seq(Plain) /\ ExamFirst(SeedSteps)
  /\ Update("assessmentVersion", "official", "1.0.0") \in ToSet(SeedSteps)
  /\ Update("scoringVersion", "official", "1.0.0") \in ToSet(SeedSteps)
  /\ Update("templateVersion", "official", "1.0.0") \in ToSet(SeedSteps)
  /\ \A i \in 1..Items : Update("link", "official", <<"1.0.0", i>>) \in ToSet(SeedSteps)
  <1>. DEFINE versionSteps == << Update("assessment", "official", 0), Update("assessmentVersion", "official", "1.0.0") >>
              s2 == SeedAccess \o SeedUsers
              s3 == s2 \o SeedDemoExam
              s4 == s3 \o EnsureTaxonomy
              s5 == s4 \o versionSteps
              s6 == s5 \o SeedItems
  <1>1. SeedAccess \in Seq(Other)
    BY OtherType, KeyType, FourSteps DEF SeedAccess, OtherTables, Owners, Names
  <1>2. SeedUsers \in Seq(Other)
    BY OtherType, KeyType, TwoSteps DEF SeedUsers, OtherTables, Owners, Names
  <1>3. EnsureTaxonomy \in Seq(Other)
    BY OtherType, KeyType, OneStep DEF EnsureTaxonomy, OtherTables, Owners, Names
  <1>4. versionSteps \in Seq(Other) /\ Update("assessmentVersion", "official", "1.0.0") \in ToSet(versionSteps)
    <2>1. Update("assessment", "official", 0) \in Other /\ Update("assessmentVersion", "official", "1.0.0") \in Other
      BY OtherType, KeyType DEF OtherTables, Owners, Names
    <2>. QED
      BY <2>1, TwoSteps
  <1>5. /\ SeedArtifacts \in Seq(Other)
        /\ Update("scoringVersion", "official", "1.0.0") \in ToSet(SeedArtifacts)
        /\ Update("templateVersion", "official", "1.0.0") \in ToSet(SeedArtifacts)
    <2>1. /\ Update("exam", "official", 0) \in Other
          /\ Update("scoring", "official", "official") \in Other
          /\ Update("scoringVersion", "official", "1.0.0") \in Other
          /\ Update("template", "official", "official") \in Other
          /\ Update("templateVersion", "official", "1.0.0") \in Other
      BY OtherType, KeyType DEF OtherTables, Owners, Names
    <2>. QED
      BY <2>1, FiveSteps DEF SeedArtifacts
  <1>6. SeedDemoExam \in Seq(Plain) /\ ExamFirst(SeedDemoExam)
    <2>1. /\ Update("questions", "demo", 0) \in Plain /\ Update("exam", "demo", 0) \in Plain
          /\ Update("profile", "demo", 0) \in Plain
      BY OtherType, KeyType, StepSets DEF OtherTables, Owners, Names
    <2>2. Update("examQuestions", "demo", 0) \in Plain
      BY KeyType DEF Plain, StepsOn, Owners
    <2>3. SeedDemoExam \in Seq(Plain)
      BY <2>1, <2>2, FourSteps DEF SeedDemoExam
    <2>4. Len(SeedDemoExam) = 4 /\ SeedDemoExam[1].row[1] = "questions"
          /\ SeedDemoExam[2].row = DemoExam
      BY DEF SeedDemoExam, Update, DemoExam
    <2>5. SeedDemoExam[1].row # DemoQuestions
      BY <2>4 DEF DemoQuestions
    <2>6. DemoExam # DemoQuestions
      BY DEF DemoExam, DemoQuestions
    <2>7. ASSUME NEW i \in 1..4, SeedDemoExam[i].row = DemoQuestions PROVE 2 \in 1..(i - 1)
      BY <2>4, <2>5, <2>6, <2>7
    <2>. QED
      BY <2>3, <2>4, <2>7 DEF ExamFirst
  <1>7. \A s \in Seq(Other) : s \in Seq(Plain) /\ ExamFirst(s)
    BY StepSets, SeqGrows, ExamFirstWithout
  <1>8. SeedSteps = s6 \o SeedArtifacts
    BY DEF SeedSteps
  <1>. HIDE DEF versionSteps
  <1>9. s2 \in Seq(Plain) /\ ExamFirst(s2)
    BY <1>1, <1>2, <1>7, ConcatType, ExamFirstConcat
  <1>. HIDE DEF s2
  <1>10. s3 \in Seq(Plain) /\ ExamFirst(s3)
    BY <1>6, <1>9, ConcatType, ExamFirstConcat
  <1>. HIDE DEF s3
  <1>11. s4 \in Seq(Plain) /\ ExamFirst(s4)
    BY <1>3, <1>7, <1>10, ConcatType, ExamFirstConcat
  <1>. HIDE DEF s4
  <1>12. s5 \in Seq(Plain) /\ ExamFirst(s5) /\ ToSet(versionSteps) \subseteq ToSet(s5)
    BY <1>4, <1>7, <1>11, ConcatType, ExamFirstConcat
  <1>. HIDE DEF s5
  <1>13. SeedItems \in Seq(Plain) /\ ExamFirst(SeedItems)
    BY SeedItemsType, <1>7
  <1>14. s6 \in Seq(Plain) /\ ExamFirst(s6) /\ ToSet(versionSteps) \subseteq ToSet(s6) /\ ToSet(SeedItems) \subseteq ToSet(s6)
    BY <1>12, <1>13, ConcatType, ExamFirstConcat
  <1>. HIDE DEF s6
  <1>15. /\ SeedSteps \in Seq(Plain) /\ ExamFirst(SeedSteps)
         /\ ToSet(SeedSteps) = ToSet(s6) \cup ToSet(SeedArtifacts)
    BY <1>5, <1>7, <1>8, <1>14, ConcatType, ExamFirstConcat
  <1>. QED
    BY <1>4, <1>5, <1>14, <1>15, SeedItemsType

\* The rows that make the version of the E2E assessment complete, and the
\* invitation after them.
E2EHead == EnsureUsers \o EnsureDelivery \o EnsureVersion \o EnsureItems \o EnsureArtifacts

VersionStep == Update("assessmentVersion", "e2e", "e2e-v1")

LEMMA E2EHeadType ==
  /\ E2EHead \in Seq(Other)
  /\ VersionStep \in ToSet(E2EHead)
  /\ Keep("scoringVersion", "e2e", "e2e-v1") \in ToSet(E2EHead)
  /\ Keep("templateVersion", "e2e", "e2e-v1") \in ToSet(E2EHead)
  /\ \A i \in 1..Items : Update("link", "e2e", <<"e2e-v1", i>>) \in ToSet(E2EHead)
  <1>. DEFINE s2 == EnsureUsers \o EnsureDelivery
              s3 == s2 \o EnsureVersion
              s4 == s3 \o EnsureItems
  <1>1. EnsureUsers \in Seq(Other)
    BY OtherType, KeyType, SixSteps DEF EnsureUsers, OtherTables, Owners, Names
  <1>2. EnsureDelivery \in Seq(Other)
    BY OtherType, KeyType, TwoSteps DEF EnsureDelivery, OtherTables, Owners, Names
  <1>3. EnsureVersion \in Seq(Other) /\ VersionStep \in ToSet(EnsureVersion)
    <2>1. Update("assessment", "e2e", 0) \in Other /\ VersionStep \in Other
      BY OtherType, KeyType DEF VersionStep, OtherTables, Owners, Names
    <2>. QED
      BY <2>1, TwoSteps DEF EnsureVersion, VersionStep
  <1>4. /\ EnsureArtifacts \in Seq(Other)
        /\ Keep("scoringVersion", "e2e", "e2e-v1") \in ToSet(EnsureArtifacts)
        /\ Keep("templateVersion", "e2e", "e2e-v1") \in ToSet(EnsureArtifacts)
    <2>1. \A t \in OtherTables : Keep(t, "e2e", "exam") \in Other /\ Keep(t, "e2e", "e2e-v1") \in Other
      BY OtherType, KeyType DEF Owners, Names
    <2>2. /\ Keep("norm", "e2e", "exam") \in Other /\ Keep("normVersion", "e2e", "e2e-v1") \in Other
          /\ Keep("scoring", "e2e", "exam") \in Other /\ Keep("scoringVersion", "e2e", "e2e-v1") \in Other
          /\ Keep("template", "e2e", "exam") \in Other /\ Keep("templateVersion", "e2e", "e2e-v1") \in Other
      BY <2>1 DEF OtherTables
    <2>. QED
      BY <2>2, SixSteps DEF EnsureArtifacts
  <1>5. E2EHead = s4 \o EnsureArtifacts
    BY DEF E2EHead
  <1>6. s2 \in Seq(Other)
    BY <1>1, <1>2, ConcatType
  <1>. HIDE DEF s2
  <1>7. s3 \in Seq(Other) /\ VersionStep \in ToSet(s3)
    BY <1>3, <1>6, ConcatType
  <1>. HIDE DEF s3
  <1>8. s4 \in Seq(Other) /\ VersionStep \in ToSet(s4) /\ ToSet(EnsureItems) \subseteq ToSet(s4)
    BY <1>7, EnsureItemsType, ConcatType
  <1>. HIDE DEF s4
  <1>9. E2EHead \in Seq(Other) /\ ToSet(E2EHead) = ToSet(s4) \cup ToSet(EnsureArtifacts)
    BY <1>4, <1>5, <1>8, ConcatType
  <1>. QED
    BY <1>4, <1>8, <1>9, EnsureItemsType

LEMMA E2EStepsType ==
  /\ E2ESteps \in Seq(Step) /\ ExamFirst(E2ESteps)
  /\ ToSet(E2EHead) \subseteq ToSet(E2ESteps)
  /\ \A i \in 1..Len(E2ESteps) : E2ESteps[i].row[1] = "invitation" => i = Len(E2ESteps)
  <1>1. E2ESteps = E2EHead \o SeededInvitation
    BY DEF E2ESteps, E2EHead
  <1>2. SeededInvitation \in Seq(Step) /\ Len(SeededInvitation) = 1 /\ SeededInvitation[1].row[1] = "invitation"
    <2>1. Update("invitation", "e2e", 0) \in Step
      BY KeyType DEF Step, StepsOn, Owners
    <2>. QED
      BY <2>1, OneStep DEF SeededInvitation, Update
  <1>3. E2EHead \in Seq(Other) /\ E2EHead \in Seq(Step)
    BY E2EHeadType, StepSets, SeqGrows
  <1>4. ExamFirst(SeededInvitation)
    <2>1. SeededInvitation[1].row # DemoQuestions
      BY <1>2 DEF DemoQuestions
    <2>. QED
      BY <1>2, <2>1 DEF ExamFirst
  <1>5. E2ESteps \in Seq(Step) /\ ExamFirst(E2ESteps) /\ ToSet(E2EHead) \subseteq ToSet(E2ESteps)
    BY <1>1, <1>2, <1>3, <1>4, ConcatType, ExamFirstConcat, ExamFirstWithout
  <1>6. ASSUME NEW i \in 1..Len(E2ESteps), E2ESteps[i].row[1] = "invitation" PROVE i = Len(E2ESteps)
    <2>1. /\ Len(E2EHead) \in Nat /\ Len(E2ESteps) = Len(E2EHead) + 1
          /\ \A k \in 1..Len(E2EHead) : E2ESteps[k] = E2EHead[k]
      <3>. DEFINE n == Len(E2EHead)
      <3>1. n \in Nat /\ Len(E2EHead \o SeededInvitation) = n + Len(SeededInvitation)
        BY <1>2, <1>3, ConcatParts
      <3>2. \A k \in 1..n : (E2EHead \o SeededInvitation)[k] = E2EHead[k]
        BY <1>2, <1>3, ConcatParts
      <3>. QED
        BY <1>1, <1>2, <3>1, <3>2
    <2>2. \A k \in 1..Len(E2EHead) : E2EHead[k].row[1] # "invitation"
      BY <1>3, StepSets
    <2>. QED
      BY <1>6, <2>1, <2>2
  <1>. QED
    BY <1>5, <1>6

\* What the backfill does with an exam it has read.
LEMMA BackfillExamType ==
  ASSUME NEW e \in ExamNames, NEW read
  PROVE  /\ BackfillExam(e, read) \in Seq(Other)
         /\ e \in ExamsRead(read) =>
               /\ Keep("assessmentVersion", e, "1.0.0") \in ToSet(BackfillExam(e, read))
               /\ Keep("scoringVersion", e, "legacy-current") \in ToSet(BackfillExam(e, read))
               /\ Keep("templateVersion", e, "legacy-current") \in ToSet(BackfillExam(e, read))
               /\ <<"examQuestions", e, 0>> \in read =>
                     \A i \in 1..Items : Keep("link", e, <<"1.0.0", i>>) \in ToSet(BackfillExam(e, read))
  <1>0. e \in Owners
    BY DEF Owners, ExamNames
  <1>1. BackfillVersion(e, read) \in Seq(Other) /\ Keep("assessmentVersion", e, "1.0.0") \in ToSet(BackfillVersion(e, read))
    <2>1. Update("assessment", e, 0) \in Other /\ Keep("assessmentVersion", e, "1.0.0") \in Other
      BY <1>0, OtherType, KeyType DEF OtherTables, Names
    <2>. QED
      BY <2>1, TwoSteps DEF BackfillVersion
  <1>2. /\ EnsureLegacyArtifacts(e) \in Seq(Other)
        /\ Keep("scoringVersion", e, "legacy-current") \in ToSet(EnsureLegacyArtifacts(e))
        /\ Keep("templateVersion", e, "legacy-current") \in ToSet(EnsureLegacyArtifacts(e))
    <2>1. \A t \in OtherTables : Keep(t, e, "exam") \in Other /\ Keep(t, e, "legacy-current") \in Other
      BY <1>0, OtherType, KeyType DEF Names
    <2>2. /\ Keep("norm", e, "exam") \in Other /\ Keep("normVersion", e, "legacy-current") \in Other
          /\ Keep("scoring", e, "exam") \in Other /\ Keep("scoringVersion", e, "legacy-current") \in Other
          /\ Keep("template", e, "exam") \in Other /\ Keep("templateVersion", e, "legacy-current") \in Other
      BY <2>1 DEF OtherTables
    <2>. QED
      BY <2>2, SixSteps DEF EnsureLegacyArtifacts
  <1>3. CASE e \notin ExamsRead(read)
    BY <1>3 DEF BackfillExam
  <1>4. CASE e \in ExamsRead(read)
    <2>. DEFINE s2 == BackfillVersion(e, read) \o BackfillItems(e, read)
    <2>1. BackfillExam(e, read) = s2 \o EnsureLegacyArtifacts(e)
      BY <1>4 DEF BackfillExam
    <2>2. /\ s2 \in Seq(Other)
          /\ ToSet(s2) = ToSet(BackfillVersion(e, read)) \cup ToSet(BackfillItems(e, read))
      BY <1>0, <1>1, BackfillItemsType, ConcatType
    <2>. HIDE DEF s2
    <2>3. /\ BackfillExam(e, read) \in Seq(Other)
          /\ ToSet(BackfillExam(e, read)) = ToSet(s2) \cup ToSet(EnsureLegacyArtifacts(e))
      BY <1>2, <2>1, <2>2, ConcatType
    <2>4. <<"examQuestions", e, 0>> \in read =>
             \A i \in 1..Items : Keep("link", e, <<"1.0.0", i>>) \in ToSet(BackfillItems(e, read))
      BY <1>0, BackfillItemsType
    <2>. HIDE DEF ExamsRead
    <2>. QED
      BY <1>1, <1>2, <2>2, <2>3, <2>4
  <1>. QED
    BY <1>3, <1>4

LEMMA BackfillStepsType ==
  ASSUME NEW read
  PROVE  /\ BackfillSteps(read) \in Seq(Other)
         /\ \A e \in ExamNames : ToSet(BackfillExam(e, read)) \subseteq ToSet(BackfillSteps(read))
  <1>. DEFINE s == BackfillExam("demo", read) \o BackfillExam("official", read)
  <1>1. \A e \in ExamNames : BackfillExam(e, read) \in Seq(Other)
    BY BackfillExamType
  <1>2. /\ BackfillExam("demo", read) \in Seq(Other) /\ BackfillExam("official", read) \in Seq(Other)
        /\ BackfillExam("e2e", read) \in Seq(Other)
    BY <1>1 DEF ExamNames
  <1>3. BackfillSteps(read) = s \o BackfillExam("e2e", read)
    BY DEF BackfillSteps
  <1>4. /\ s \in Seq(Other)
        /\ ToSet(s) = ToSet(BackfillExam("demo", read)) \cup ToSet(BackfillExam("official", read))
    BY <1>2, ConcatType
  <1>. HIDE DEF s
  <1>5. /\ BackfillSteps(read) \in Seq(Other)
        /\ ToSet(BackfillSteps(read)) = ToSet(s) \cup ToSet(BackfillExam("e2e", read))
    BY <1>2, <1>3, <1>4, ConcatType
  <1>. QED
    BY <1>4, <1>5 DEF ExamNames

-----------------------------------------------------------------------------
(***************************************************************************)
(* What is true of the scripts at every moment.                            *)
(***************************************************************************)
Scripts == {"seed", "seed:e2e", "backfill"}

RunState ==
    [script : Scripts \cup {Nothing}, todo : Seq(Step), exams : SUBSET ExamNames,
     questions : BOOLEAN, after : BOOLEAN, ended : {"no", "well", "badly"}]

SeedingTypeOK ==
    /\ run \in [Run -> RunState]
    /\ examAfter \in BOOLEAN /\ legacyNewer \in BOOLEAN

VersionKey(script) == IF script = "seed:e2e" THEN "e2e-v1" ELSE "1.0.0"
ArtifactKey(script) == IF script = "backfill" THEN "legacy-current" ELSE VersionKey(script)

\* The rows that are there when a run has done what it is there for.
VersionRows(x) == {<<"assessmentVersion", e, VersionKey(x.script)>> : e \in x.exams}

LinkRows(x) ==
    IF x.script = "backfill" THEN {}
    ELSE {<<"link", e, <<VersionKey(x.script), i>>>> : e \in x.exams, i \in 1..Items}

ArtifactRows(x) ==
    {<<t, e, ArtifactKey(x.script)>> : t \in {"scoringVersion", "templateVersion"}, e \in x.exams}

QuestionRows(x) ==
    IF x.questions THEN {<<"link", "demo", <<"1.0.0", i>>>> : i \in 1..Items} ELSE {}

RequiredRows(x) == VersionRows(x) \cup LinkRows(x) \cup ArtifactRows(x) \cup QuestionRows(x)

RowsIn(s) == {st.row : st \in ToSet(s)}

\* What a run that goes on has not written, it still has to do.
NothingLeftOut ==
    \A r \in Run :
        /\ run[r].ended # "badly" => RequiredRows(run[r]) \subseteq DOMAIN rows \cup RowsIn(run[r].todo)
        /\ run[r].ended = "well" => run[r].todo = <<>>

\* A backfill that has read the questions has read their exam.
QuestionsHaveExam ==
    \/ DemoExam \in DOMAIN rows
    \/ DemoQuestions \notin DOMAIN rows /\ \A r \in Run : ExamFirst(run[r].todo)

ScriptsInv == SeedingTypeOK /\ NothingLeftOut /\ QuestionsHaveExam

\* The invitation is the last thing seed:e2e writes.
ForInvitation(s) == {st \in ToSet(s) : st.row[1] = "invitation"}

AtTheEnd(x) ==
    /\ \A i \in 1..Len(x.todo) : x.todo[i].row[1] = "invitation" => i = Len(x.todo)
    /\ ForInvitation(x.todo) # {} => x.script = "seed:e2e"
    /\ x.script = "seed:e2e" => x.exams = {"e2e"}

InvitationIsLast == \A r \in Run : AtTheEnd(run[r])

\* Only the run that has created the version gets as far as the invitation:
\* the others have the update of the version, which is refused, ahead.
Held(s) == ForInvitation(s) = {} \/ VersionStep \in ToSet(s)

OneGetsThere ==
    \A r \in Run :
        \/ Held(run[r].todo)
        \/ /\ invitation = Nothing /\ VersionStep.row \in DOMAIN rows
           /\ \A q \in Run \ {r} : Held(run[q].todo)

\* An invitation that is there has its version and the items of it.
InvitationIsWhole ==
    /\ attempt # Nothing => invitation = "USED"
    /\ invitation # Nothing =>
          /\ VersionStep.row \in DOMAIN rows
          /\ \A i \in 1..Items : <<"link", "e2e", <<"e2e-v1", i>>>> \in DOMAIN rows

\* The version of a backfill is newer only when the seed has run again.
NewerIsLater ==
    /\ legacyNewer => examAfter
    /\ \A r \in Run : run[r].after => examAfter

InvitationInv ==
    ScriptsInv /\ InvitationIsLast /\ OneGetsThere /\ InvitationIsWhole /\ NewerIsLater /\ SeededClaimIsWhole

\* The defaults: who counts alone has counted what is there when it creates.
BootTypeOK ==
    /\ boot \in [Process -> [pc : {"start", "profiles", "between", "cutScores", "up"}, empty : BOOLEAN]]
    /\ defaults \in [{"profiles", "cutScores"} -> Nat]
    /\ together \in BOOLEAN

CountedIsThere ==
    together \/ \A kind \in {"profiles", "cutScores"} :
        /\ defaults[kind] <= 1
        /\ \A p \in Process : boot[p].pc = kind =>
              /\ boot[p].empty => defaults[kind] = 0
              /\ \A q \in Process \ {p} : boot[q].pc # kind

-----------------------------------------------------------------------------
(***************************************************************************)
(* The steps of the scripts.                                               *)
(***************************************************************************)
LEMMA RowOfStep ==
  ASSUME NEW s, NEW t, NEW e, NEW k, Keep(t, e, k) \in ToSet(s) \/ Update(t, e, k) \in ToSet(s)
  PROVE  <<t, e, k>> \in RowsIn(s)
  BY DEF RowsIn, Keep, Update

\* A script that starts has everything ahead that it is there for.
LEMMA SeedStart ==
  ASSUME NEW x, x.script = "seed", x.todo = SeedSteps, x.exams = {"official"}, x.questions = FALSE
  PROVE  RequiredRows(x) \subseteq RowsIn(x.todo)
  <1>1. /\ <<"assessmentVersion", "official", "1.0.0">> \in RowsIn(SeedSteps)
        /\ <<"scoringVersion", "official", "1.0.0">> \in RowsIn(SeedSteps)
        /\ <<"templateVersion", "official", "1.0.0">> \in RowsIn(SeedSteps)
    BY SeedStepsType, RowOfStep
  <1>2. \A i \in 1..Items : <<"link", "official", <<"1.0.0", i>>>> \in RowsIn(SeedSteps)
    BY SeedStepsType, RowOfStep
  <1>3. VersionKey(x.script) = "1.0.0" /\ ArtifactKey(x.script) = "1.0.0"
    BY DEF VersionKey, ArtifactKey
  <1>4. VersionRows(x) \subseteq RowsIn(x.todo)
    BY <1>1, <1>3 DEF VersionRows
  <1>5. LinkRows(x) \subseteq RowsIn(x.todo)
    BY <1>2, <1>3 DEF LinkRows
  <1>6. ArtifactRows(x) \subseteq RowsIn(x.todo)
    BY <1>1, <1>3 DEF ArtifactRows
  <1>7. QuestionRows(x) = {}
    BY DEF QuestionRows
  <1>. QED
    BY <1>4, <1>5, <1>6, <1>7 DEF RequiredRows

LEMMA E2EStart ==
  ASSUME NEW x, x.script = "seed:e2e", x.todo = E2ESteps, x.exams = {"e2e"}, x.questions = FALSE
  PROVE  RequiredRows(x) \subseteq RowsIn(x.todo)
  <1>1. /\ VersionStep \in ToSet(E2ESteps)
        /\ Keep("scoringVersion", "e2e", "e2e-v1") \in ToSet(E2ESteps)
        /\ Keep("templateVersion", "e2e", "e2e-v1") \in ToSet(E2ESteps)
        /\ \A i \in 1..Items : Update("link", "e2e", <<"e2e-v1", i>>) \in ToSet(E2ESteps)
    BY E2EHeadType, E2EStepsType
  <1>2. /\ <<"assessmentVersion", "e2e", "e2e-v1">> \in RowsIn(E2ESteps)
        /\ <<"scoringVersion", "e2e", "e2e-v1">> \in RowsIn(E2ESteps)
        /\ <<"templateVersion", "e2e", "e2e-v1">> \in RowsIn(E2ESteps)
    BY <1>1, RowOfStep DEF VersionStep
  <1>3. \A i \in 1..Items : <<"link", "e2e", <<"e2e-v1", i>>>> \in RowsIn(E2ESteps)
    BY <1>1, RowOfStep
  <1>4. VersionKey(x.script) = "e2e-v1" /\ ArtifactKey(x.script) = "e2e-v1"
    BY DEF VersionKey, ArtifactKey
  <1>5. VersionRows(x) \subseteq RowsIn(x.todo)
    BY <1>2, <1>4 DEF VersionRows
  <1>6. LinkRows(x) \subseteq RowsIn(x.todo)
    BY <1>3, <1>4 DEF LinkRows
  <1>7. ArtifactRows(x) \subseteq RowsIn(x.todo)
    BY <1>2, <1>4 DEF ArtifactRows
  <1>8. QuestionRows(x) = {}
    BY DEF QuestionRows
  <1>. QED
    BY <1>5, <1>6, <1>7, <1>8 DEF RequiredRows

LEMMA BackfillStart ==
  ASSUME NEW x, NEW read, x.script = "backfill", x.todo = BackfillSteps(read), x.exams = ExamsRead(read),
         x.questions => DemoQuestions \in read /\ DemoExam \in read
  PROVE  RequiredRows(x) \subseteq RowsIn(x.todo)
  <1>1. \A e \in ExamsRead(read) : e \in ExamNames
    BY DEF ExamsRead, ExamNames
  <1>2. ASSUME NEW e \in ExamsRead(read)
        PROVE  /\ <<"assessmentVersion", e, "1.0.0">> \in RowsIn(x.todo)
               /\ <<"scoringVersion", e, "legacy-current">> \in RowsIn(x.todo)
               /\ <<"templateVersion", e, "legacy-current">> \in RowsIn(x.todo)
    <2>1. /\ Keep("assessmentVersion", e, "1.0.0") \in ToSet(x.todo)
          /\ Keep("scoringVersion", e, "legacy-current") \in ToSet(x.todo)
          /\ Keep("templateVersion", e, "legacy-current") \in ToSet(x.todo)
      BY <1>1, BackfillExamType, BackfillStepsType
    <2>. QED
      BY <2>1, RowOfStep
  <1>3. VersionKey(x.script) = "1.0.0" /\ ArtifactKey(x.script) = "legacy-current"
    BY DEF VersionKey, ArtifactKey
  <1>4. VersionRows(x) \subseteq RowsIn(x.todo)
    BY <1>2, <1>3 DEF VersionRows
  <1>5. LinkRows(x) = {}
    BY DEF LinkRows
  <1>6. ArtifactRows(x) \subseteq RowsIn(x.todo)
    <2>1. \A t \in {"scoringVersion", "templateVersion"}, e \in x.exams :
            <<t, e, "legacy-current">> \in RowsIn(x.todo)
      BY <1>2
    <2>. QED
      BY <2>1, <1>3 DEF ArtifactRows
  <1>7. ASSUME x.questions, NEW i \in 1..Items
        PROVE  <<"link", "demo", <<"1.0.0", i>>>> \in RowsIn(x.todo)
    <2>1. "demo" \in ExamsRead(read) /\ <<"examQuestions", "demo", 0>> \in read
      BY <1>7 DEF ExamsRead, DemoExam, DemoQuestions
    <2>2. "demo" \in ExamNames
      BY <1>1, <2>1
    <2>3. Keep("link", "demo", <<"1.0.0", i>>) \in ToSet(BackfillExam("demo", read))
      BY <2>1, <2>2, BackfillExamType
    <2>4. Keep("link", "demo", <<"1.0.0", i>>) \in ToSet(x.todo)
      BY <2>2, <2>3, BackfillStepsType
    <2>. QED
      BY <2>4, RowOfStep
  <1>8. QuestionRows(x) \subseteq RowsIn(x.todo)
    BY <1>7 DEF QuestionRows
  <1>. QED
    BY <1>4, <1>5, <1>6, <1>8 DEF RequiredRows

LEMMA StartShape ==
  ASSUME ScriptsInv, NEW r \in Run, NEW script \in Scripts, Start(r, script)
  PROVE  /\ run'[r] \in RunState /\ run' = [run EXCEPT ![r] = run'[r]]
         /\ run'[r].script = script /\ run'[r].todo = StepsOf(script)
         /\ run'[r].exams = ExamsOf(script) /\ run'[r].after = examAfter
         /\ run'[r].ended = "well" => run'[r].todo = <<>>
         /\ RequiredRows(run'[r]) \subseteq RowsIn(run'[r].todo)
         /\ ExamFirst(run'[r].todo)
  <1>. DEFINE steps == StepsOf(script)
              questions == script = "backfill" /\ There("examQuestions", "demo", 0)
              ended == IF steps = <<>> THEN "well" ELSE "no"
              x == [script |-> script, todo |-> steps, exams |-> ExamsOf(script),
                    questions |-> questions, after |-> examAfter, ended |-> ended]
  <1>1. run' = [run EXCEPT ![r] = x]
    BY DEF Start
  <1>2. run'[r] = x /\ run' = [run EXCEPT ![r] = run'[r]]
    BY <1>1 DEF ScriptsInv, SeedingTypeOK
  <1>3. steps \in Seq(Step) /\ ExamFirst(steps) /\ ExamsOf(script) \in SUBSET ExamNames
    <2>1. CASE script = "seed"
      <3>1. steps = SeedSteps /\ ExamsOf(script) = {"official"}
        BY <2>1 DEF StepsOf, ExamsOf
      <3>. QED
        BY <3>1, SeedStepsType, StepSets, SeqGrows DEF ExamNames
    <2>2. CASE script = "seed:e2e"
      <3>1. steps = E2ESteps /\ ExamsOf(script) = {"e2e"}
        BY <2>2 DEF StepsOf, ExamsOf
      <3>. QED
        BY <3>1, E2EStepsType DEF ExamNames
    <2>3. CASE script = "backfill"
      <3>1. steps = BackfillSteps(DOMAIN rows) /\ ExamsOf(script) = ExamsRead(DOMAIN rows)
        BY <2>3 DEF StepsOf, ExamsOf
      <3>2. steps \in Seq(Other)
        BY <3>1, BackfillStepsType
      <3>. QED
        BY <3>1, <3>2, StepSets, SeqGrows, ExamFirstWithout DEF ExamsRead, ExamNames
    <2>. QED
      BY <2>1, <2>2, <2>3 DEF Scripts
  <1>4. examAfter \in BOOLEAN /\ questions \in BOOLEAN /\ ended \in {"no", "well", "badly"}
    BY DEF ScriptsInv, SeedingTypeOK
  <1>5. questions => There("exam", "demo", 0)
    BY DEF ScriptsInv, QuestionsHaveExam, There, DemoExam, DemoQuestions
  <1>6. ended = "well" => steps = <<>>
    OBVIOUS
  <1>7. RequiredRows(x) \subseteq RowsIn(x.todo)
    <2>1. CASE script = "seed"
      <3>1. steps = SeedSteps /\ ExamsOf(script) = {"official"} /\ questions = FALSE
        BY <2>1 DEF StepsOf, ExamsOf
      <3>. HIDE DEF steps, questions, ended
      <3>. QED
        BY <2>1, <3>1, SeedStart
    <2>2. CASE script = "seed:e2e"
      <3>1. steps = E2ESteps /\ ExamsOf(script) = {"e2e"} /\ questions = FALSE
        BY <2>2 DEF StepsOf, ExamsOf
      <3>. HIDE DEF steps, questions, ended
      <3>. QED
        BY <2>2, <3>1, E2EStart
    <2>3. CASE script = "backfill"
      <3>1. steps = BackfillSteps(DOMAIN rows) /\ ExamsOf(script) = ExamsRead(DOMAIN rows)
        BY <2>3 DEF StepsOf, ExamsOf
      <3>2. questions => DemoQuestions \in DOMAIN rows /\ DemoExam \in DOMAIN rows
        BY <1>5 DEF There, DemoExam, DemoQuestions
      <3>. HIDE DEF steps, questions, ended
      <3>. QED
        BY <2>3, <3>1, <3>2, BackfillStart
    <2>. QED
      BY <2>1, <2>2, <2>3 DEF Scripts
  <1>. HIDE DEF steps, questions, ended
  <1>8. x \in RunState
    BY <1>3, <1>4 DEF RunState
  <1>9. /\ x.script = script /\ x.todo = steps /\ x.exams = ExamsOf(script) /\ x.after = examAfter
        /\ x.ended = ended
    OBVIOUS
  <1>. HIDE DEF x
  <1>10. ExamFirst(x.todo)
    BY <1>3, <1>9
  <1>11. x.ended = "well" => x.todo = <<>>
    BY <1>6, <1>9
  <1>12. x.todo = StepsOf(script)
    BY <1>9 DEF steps
  <1>. QED
    BY <1>2, <1>7, <1>8, <1>9, <1>10, <1>11, <1>12

\* An upsert, and a script that breaks off.
LEMMA UpsertShape ==
  ASSUME ScriptsInv, NEW r \in Run, Upsert(r)
  PROVE  /\ run[r].todo \in Seq(Step) /\ run[r].todo # <<>> /\ run[r].ended = "no"
         /\ run'[r] \in RunState /\ run' = [run EXCEPT ![r] = run'[r]]
         /\ run'[r].todo = Tail(run[r].todo)
         /\ run'[r].script = run[r].script /\ run'[r].exams = run[r].exams
         /\ run'[r].questions = run[r].questions /\ run'[r].after = run[r].after
         /\ run'[r].ended = "well" => run'[r].todo = <<>>
         /\ DOMAIN rows' = DOMAIN rows \cup {Head(run[r].todo).row}
  <1>. DEFINE x == run[r]
              ended == IF Len(x.todo) = 1 THEN "well" ELSE "no"
              y == [script |-> x.script, todo |-> Tail(x.todo), exams |-> x.exams,
                    questions |-> x.questions, after |-> x.after, ended |-> ended]
  <1>1. x \in RunState /\ x.todo \in Seq(Step) /\ x.todo # <<>> /\ x.ended = "no"
    BY DEF ScriptsInv, SeedingTypeOK, RunState, Upsert
  <1>2. run'[r] = [x EXCEPT !.todo = Tail(@), !.ended = ended] /\ run' = [run EXCEPT ![r] = run'[r]]
    BY DEF ScriptsInv, SeedingTypeOK, Upsert
  <1>3. x = [script |-> x.script, todo |-> x.todo, exams |-> x.exams, questions |-> x.questions,
             after |-> x.after, ended |-> x.ended]
    BY <1>1 DEF RunState
  <1>. HIDE DEF x, ended
  <1>4. run'[r] = y
    BY <1>2, <1>3
  <1>5. Tail(x.todo) \in Seq(Step) /\ ended \in {"no", "well"} /\ (ended = "well" => Tail(x.todo) = <<>>)
    BY <1>1, TailType DEF ended
  <1>6. y \in RunState
    BY <1>1, <1>5 DEF RunState
  <1>7. /\ y.todo = Tail(x.todo) /\ y.script = x.script /\ y.exams = x.exams
        /\ y.questions = x.questions /\ y.after = x.after /\ y.ended = ended
    OBVIOUS
  <1>8. DOMAIN rows' = DOMAIN rows \cup {Head(run[r].todo).row}
    BY DEF Upsert
  <1>. HIDE DEF y
  <1>. QED
    BY <1>1, <1>2, <1>4, <1>5, <1>6, <1>7, <1>8 DEF x

LEMMA BreakShape ==
  ASSUME ScriptsInv, NEW r \in Run, Break(r)
  PROVE  /\ run'[r] \in RunState /\ run' = [run EXCEPT ![r] = run'[r]]
         /\ run'[r].todo = <<>> /\ run'[r].ended = "badly"
         /\ run'[r].script = run[r].script /\ run'[r].exams = run[r].exams
         /\ run'[r].after = run[r].after
  <1>. DEFINE x == run[r]
              y == [script |-> x.script, todo |-> <<>>, exams |-> x.exams,
                    questions |-> x.questions, after |-> x.after, ended |-> "badly"]
  <1>1. x \in RunState
    BY DEF ScriptsInv, SeedingTypeOK
  <1>2. run'[r] = [x EXCEPT !.ended = "badly", !.todo = <<>>] /\ run' = [run EXCEPT ![r] = run'[r]]
    BY DEF ScriptsInv, SeedingTypeOK, Break
  <1>3. x = [script |-> x.script, todo |-> x.todo, exams |-> x.exams, questions |-> x.questions,
             after |-> x.after, ended |-> x.ended]
    BY <1>1 DEF RunState
  <1>. HIDE DEF x
  <1>4. run'[r] = y
    BY <1>2, <1>3
  <1>5. y \in RunState
    BY <1>1 DEF RunState
  <1>6. /\ y.todo = <<>> /\ y.script = x.script /\ y.exams = x.exams
        /\ y.after = x.after /\ y.ended = "badly"
    OBVIOUS
  <1>. HIDE DEF y
  <1>. QED
    BY <1>2, <1>4, <1>5, <1>6 DEF x

\* All other steps leave the scripts and what rows there are alone.
LEMMA QuietStep ==
  ASSUME [SeedingNext]_seedingVars,
         \A r \in Run : ~Upsert(r) /\ ~Break(r) /\ \A script \in Scripts : ~Start(r, script)
  PROVE  /\ run' = run /\ DOMAIN rows' = DOMAIN rows
         /\ examAfter' = examAfter /\ legacyNewer' = legacyNewer
  <1>. DEFINE Quiet == /\ run' = run /\ DOMAIN rows' = DOMAIN rows
                       /\ examAfter' = examAfter /\ legacyNewer' = legacyNewer
  <1>1. CASE Claim
    BY <1>1 DEF Claim, dataVars
  <1>2. ASSUME NEW key \in {"1.0.0", "e2e-v1"}, Retire(key) PROVE Quiet
    BY <1>2 DEF Retire
  <1>3. ASSUME NEW p \in Process, CountRows(p) \/ CreateMany(p) \/ Restart(p) PROVE Quiet
    BY <1>3 DEF CountRows, CreateMany, Restart, dataVars
  <1>4. CASE UNCHANGED seedingVars
    BY <1>4 DEF seedingVars, dataVars
  <1>. QED
    BY <1>1, <1>2, <1>3, <1>4 DEF SeedingNext, Scripts

\* What a run is there for does not change.
LEMMA RequiredStays ==
  ASSUME NEW x, NEW y, x.script = y.script, x.exams = y.exams, x.questions = y.questions
  PROVE  RequiredRows(x) = RequiredRows(y)
  BY DEF RequiredRows, VersionRows, LinkRows, ArtifactRows, QuestionRows

LEMMA ScriptsInitially == SeedingInit => ScriptsInv
  <1>. SUFFICES ASSUME SeedingInit PROVE ScriptsInv
    OBVIOUS
  <1>1. Unstarted \in RunState /\ Unstarted.todo = <<>> /\ Unstarted.ended = "no" /\ Unstarted.questions = FALSE
        /\ Unstarted.exams = {}
    BY EmptySeq DEF Unstarted, RunState
  <1>2. \A r \in Run : run[r] = Unstarted
    BY DEF SeedingInit
  <1>3. SeedingTypeOK
    BY <1>1 DEF SeedingInit, SeedingTypeOK
  <1>4. RequiredRows(Unstarted) = {}
    BY <1>1 DEF RequiredRows, VersionRows, LinkRows, ArtifactRows, QuestionRows
  <1>5. NothingLeftOut
    BY <1>1, <1>2, <1>4 DEF NothingLeftOut
  <1>6. ExamFirst(Unstarted.todo)
    BY <1>1, EmptySeq DEF ExamFirst
  <1>7. QuestionsHaveExam
    BY <1>2, <1>6 DEF SeedingInit, QuestionsHaveExam
  <1>. QED
    BY <1>3, <1>5, <1>7 DEF ScriptsInv

LEMMA ScriptsStep ==
  ASSUME ScriptsInv, [SeedingNext]_seedingVars
  PROVE  ScriptsInv'
  <1>. USE DEF ScriptsInv
  <1>1. ASSUME NEW r \in Run, NEW script \in Scripts, Start(r, script) PROVE ScriptsInv'
    <2>1. /\ rows' = rows /\ examAfter' = examAfter /\ legacyNewer' = legacyNewer
          /\ \A q \in Run : q # r => run'[q] = run[q]
      BY <1>1, StartShape DEF Start, dataVars, SeedingTypeOK
    <2>2. SeedingTypeOK'
      BY <1>1, <2>1, StartShape DEF SeedingTypeOK
    <2>3. NothingLeftOut'
      <3>. SUFFICES ASSUME NEW q \in Run
                    PROVE  /\ run'[q].ended # "badly" => RequiredRows(run'[q]) \subseteq DOMAIN rows' \cup RowsIn(run'[q].todo)
                           /\ run'[q].ended = "well" => run'[q].todo = <<>>
        BY DEF NothingLeftOut
      <3>1. CASE q = r
        BY <1>1, <2>1, <3>1, StartShape
      <3>2. CASE q # r
        BY <2>1, <3>2 DEF NothingLeftOut
      <3>. QED
        BY <3>1, <3>2
    <2>4. QuestionsHaveExam'
      BY <1>1, <2>1, StartShape DEF QuestionsHaveExam
    <2>. QED
      BY <2>2, <2>3, <2>4
  <1>2. ASSUME NEW r \in Run, Upsert(r) PROVE ScriptsInv'
    <2>. DEFINE step == Head(run[r].todo)
    <2>1. /\ run[r].todo \in Seq(Step) /\ run[r].todo # <<>> /\ run[r].ended = "no"
          /\ run'[r] \in RunState /\ run' = [run EXCEPT ![r] = run'[r]]
          /\ run'[r].todo = Tail(run[r].todo)
          /\ DOMAIN rows' = DOMAIN rows \cup {step.row}
      BY <1>2, UpsertShape
    <2>2. \A q \in Run : q # r => run'[q] = run[q]
      BY <2>1 DEF SeedingTypeOK
    <2>3. SeedingTypeOK'
      <3>1. run' \in [Run -> RunState]
        BY <2>1 DEF SeedingTypeOK
      <3>2. examAfter' \in BOOLEAN /\ legacyNewer' \in BOOLEAN
        BY <1>2 DEF Upsert, SeedingTypeOK, RunState
      <3>. QED
        BY <3>1, <3>2 DEF SeedingTypeOK
    <2>4. NothingLeftOut'
      <3>. SUFFICES ASSUME NEW q \in Run
                    PROVE  /\ run'[q].ended # "badly" => RequiredRows(run'[q]) \subseteq DOMAIN rows' \cup RowsIn(run'[q].todo)
                           /\ run'[q].ended = "well" => run'[q].todo = <<>>
        BY DEF NothingLeftOut
      <3>1. CASE q = r
        <4>1. RequiredRows(run'[r]) = RequiredRows(run[r])
          BY <1>2, UpsertShape, RequiredStays
        <4>2. RequiredRows(run[r]) \subseteq DOMAIN rows \cup RowsIn(run[r].todo)
          BY <2>1 DEF NothingLeftOut
        <4>3. ToSet(run[r].todo) = ToSet(Tail(run[r].todo)) \cup {step}
          BY <2>1, TailType
        <4>4. RowsIn(run[r].todo) \subseteq RowsIn(Tail(run[r].todo)) \cup {step.row}
          BY <4>3 DEF RowsIn
        <4>5. run'[r].ended = "well" => run'[r].todo = <<>>
          BY <1>2, UpsertShape
        <4>. QED
          BY <2>1, <3>1, <4>1, <4>2, <4>4, <4>5
      <3>2. CASE q # r
        BY <2>1, <2>2, <3>2 DEF NothingLeftOut
      <3>. QED
        BY <3>1, <3>2
    <2>5. QuestionsHaveExam'
      <3>1. CASE DemoExam \in DOMAIN rows'
        BY <3>1 DEF QuestionsHaveExam
      <3>2. CASE DemoExam \notin DOMAIN rows'
        <4>1. DemoExam \notin DOMAIN rows /\ step.row # DemoExam
          BY <2>1, <3>2
        <4>2. DemoQuestions \notin DOMAIN rows /\ \A q \in Run : ExamFirst(run[q].todo)
          BY <4>1 DEF QuestionsHaveExam
        <4>3. step.row # DemoQuestions /\ ExamFirst(Tail(run[r].todo))
          BY <2>1, <4>1, <4>2, ExamFirstTail
        <4>. QED
          BY <2>1, <2>2, <4>2, <4>3 DEF QuestionsHaveExam
      <3>. QED
        BY <3>1, <3>2
    <2>. QED
      BY <2>3, <2>4, <2>5
  <1>3. ASSUME NEW r \in Run, Break(r) PROVE ScriptsInv'
    <2>1. /\ rows' = rows /\ examAfter' = examAfter /\ legacyNewer' = legacyNewer
          /\ \A q \in Run : q # r => run'[q] = run[q]
      BY <1>3, BreakShape DEF Break, dataVars, SeedingTypeOK
    <2>2. SeedingTypeOK'
      BY <1>3, <2>1, BreakShape DEF SeedingTypeOK
    <2>3. NothingLeftOut'
      BY <1>3, <2>1, BreakShape DEF NothingLeftOut
    <2>4. ExamFirst(run'[r].todo)
      BY <1>3, BreakShape, EmptySeq DEF ExamFirst
    <2>5. QuestionsHaveExam'
      BY <1>3, <2>1, <2>4 DEF QuestionsHaveExam
    <2>. QED
      BY <2>2, <2>3, <2>5
  <1>4. CASE \A r \in Run : ~Upsert(r) /\ ~Break(r) /\ \A script \in Scripts : ~Start(r, script)
    <2>1. /\ run' = run /\ DOMAIN rows' = DOMAIN rows
          /\ examAfter' = examAfter /\ legacyNewer' = legacyNewer
      BY <1>4, QuietStep
    <2>. QED
      BY <2>1 DEF SeedingTypeOK, NothingLeftOut, QuestionsHaveExam
  <1>. QED
    BY <1>1, <1>2, <1>3, <1>4

(***************************************************************************)
(* What a run of a script has not written yet is still ahead of it, and    *)
(* the questions of an exam come after the exam (upserts of prisma/seed.ts, *)
(* seed-e2e.ts and the backfill), wherever other runs break off.           *)
(***************************************************************************)
THEOREM ScriptsInvariance == SeedingSpec => []ScriptsInv
  BY ScriptsInitially, ScriptsStep, PTL DEF SeedingSpec

\* A run that has nothing left to write has written the rows it needs.
LEMMA DoneIsComplete == ScriptsInv => CompleteWhenDone
  <1>. SUFFICES ASSUME ScriptsInv, NEW r \in Run, run[r].ended = "well"
                PROVE  /\ \A e \in run[r].exams : Governed(r, e)
                       /\ run[r].questions => \A i \in 1..Items : There("link", "demo", <<"1.0.0", i>>)
    BY DEF CompleteWhenDone
  <1>. DEFINE x == run[r]
  <1>1. x.todo = <<>> /\ RequiredRows(x) \subseteq DOMAIN rows \cup RowsIn(x.todo)
    BY DEF ScriptsInv, NothingLeftOut
  <1>2. RowsIn(<<>>) = {}
    BY EmptySeq DEF RowsIn, ToSet
  <1>3. RequiredRows(x) \subseteq DOMAIN rows
    BY <1>1, <1>2
  <1>4. ASSUME NEW e \in x.exams PROVE Governed(r, e)
    <2>. DEFINE key == VersionKey(x.script)
    <2>1. key \in {"1.0.0", "e2e-v1"}
      BY DEF VersionKey
    <2>2. <<"assessmentVersion", e, key>> \in DOMAIN rows
      BY <1>3 DEF RequiredRows, VersionRows
    <2>3. ASSUME NEW i \in 1..Items, x.script # "backfill" PROVE <<"link", e, <<key, i>>>> \in DOMAIN rows
      BY <1>3, <2>3 DEF RequiredRows, LinkRows
    <2>4. ASSUME NEW t \in {"scoringVersion", "templateVersion"}
          PROVE  <<t, e, IF x.script = "backfill" THEN "legacy-current" ELSE key>> \in DOMAIN rows
      <3>1. <<t, e, ArtifactKey(x.script)>> \in DOMAIN rows
        BY <1>3 DEF RequiredRows, ArtifactRows
      <3>. QED
        BY <3>1 DEF ArtifactKey
    <2>. HIDE DEF key
    <2>. QED
      BY <2>1, <2>2, <2>3, <2>4 DEF Governed, There
  <1>5. ASSUME x.questions, NEW i \in 1..Items PROVE There("link", "demo", <<"1.0.0", i>>)
    BY <1>3, <1>5 DEF RequiredRows, QuestionRows, There
  <1>. QED
    BY <1>4, <1>5

(***************************************************************************)
(* A script that ends well has left nothing out (CompleteWhenDone), for    *)
(* every number of runs and items.                                         *)
(***************************************************************************)
THEOREM ScriptsComplete == SeedingSpec => []CompleteWhenDone
  BY ScriptsInvariance, DoneIsComplete, PTL

-----------------------------------------------------------------------------
(***************************************************************************)
(* The seeded invitation.                                                  *)
(***************************************************************************)
LEMMA PlainWithout ==
  ASSUME NEW s \in Seq(Plain)
  PROVE  ForInvitation(s) = {} /\ \A i \in 1..Len(s) : s[i].row[1] # "invitation"
  BY StepSets DEF ForInvitation, ToSet

\* A script that starts has the version ahead if it has the invitation ahead.
LEMMA StartHeld ==
  ASSUME ScriptsInv, NEW r \in Run, NEW script \in Scripts, Start(r, script)
  PROVE  Held(run'[r].todo) /\ AtTheEnd(run'[r])
  <1>1. /\ run'[r].script = script /\ run'[r].todo = StepsOf(script) /\ run'[r].exams = ExamsOf(script)
    BY StartShape
  <1>2. CASE script = "seed"
    <2>1. run'[r].todo \in Seq(Plain)
      BY <1>1, <1>2, SeedStepsType DEF StepsOf
    <2>. QED
      BY <1>1, <1>2, <2>1, PlainWithout DEF Held, AtTheEnd
  <1>3. CASE script = "backfill"
    <2>1. run'[r].todo \in Seq(Plain)
      <3>1. run'[r].todo = BackfillSteps(DOMAIN rows)
        BY <1>1, <1>3 DEF StepsOf
      <3>2. run'[r].todo \in Seq(Other)
        BY <3>1, BackfillStepsType
      <3>. QED
        BY <3>2, StepSets, SeqGrows
    <2>. QED
      BY <1>1, <1>3, <2>1, PlainWithout DEF Held, AtTheEnd
  <1>4. CASE script = "seed:e2e"
    <2>1. run'[r].todo = E2ESteps /\ run'[r].exams = {"e2e"}
      BY <1>1, <1>4 DEF StepsOf, ExamsOf
    <2>2. VersionStep \in ToSet(E2ESteps)
      BY E2EHeadType, E2EStepsType
    <2>. QED
      BY <1>1, <1>4, <2>1, <2>2, E2EStepsType DEF Held, AtTheEnd
  <1>. QED
    BY <1>2, <1>3, <1>4 DEF Scripts

\* What is last stays last; nothing follows the invitation.
LEMMA LastInTail ==
  ASSUME NEW s \in Seq(Step), s # <<>>,
         \A i \in 1..Len(s) : s[i].row[1] = "invitation" => i = Len(s)
  PROVE  /\ \A i \in 1..Len(Tail(s)) : Tail(s)[i].row[1] = "invitation" => i = Len(Tail(s))
         /\ Head(s).row[1] = "invitation" => Tail(s) = <<>>
         /\ ForInvitation(Tail(s)) \subseteq ForInvitation(s)
  <1>. DEFINE t == Tail(s)
  <1>1. /\ Len(s) \in Nat /\ Len(s) >= 1 /\ Len(t) = Len(s) - 1
        /\ Head(s) = s[1] /\ \A i \in 1..(Len(s) - 1) : t[i] = s[i + 1]
    OBVIOUS
  <1>2. ToSet(t) \subseteq ToSet(s) /\ (Len(s) = 1 => t = <<>>)
    BY TailType
  <1>. HIDE DEF t
  <1>3. \A i \in 1..Len(t) : t[i].row[1] = "invitation" => i = Len(t)
    BY <1>1
  <1>4. Head(s).row[1] = "invitation" => t = <<>>
    BY <1>1, <1>2
  <1>5. ForInvitation(t) \subseteq ForInvitation(s)
    BY <1>2 DEF ForInvitation
  <1>. QED
    BY <1>3, <1>4, <1>5 DEF t

LEMMA TailAtTheEnd ==
  ASSUME NEW x, NEW y, x.todo \in Seq(Step), x.todo # <<>>, AtTheEnd(x),
         y.todo = Tail(x.todo), y.script = x.script, y.exams = x.exams
  PROVE  /\ AtTheEnd(y)
         /\ Head(x.todo).row[1] = "invitation" => y.todo = <<>>
  <1>. DEFINE s == x.todo
  <1>1. s \in Seq(Step) /\ s # <<>> /\ y.todo = Tail(s)
        /\ \A i \in 1..Len(s) : s[i].row[1] = "invitation" => i = Len(s)
    BY DEF AtTheEnd
  <1>2. /\ ForInvitation(s) # {} => y.script = "seed:e2e"
        /\ y.script = "seed:e2e" => y.exams = {"e2e"}
    BY DEF AtTheEnd
  <1>. HIDE DEF s
  <1>3. /\ \A i \in 1..Len(Tail(s)) : Tail(s)[i].row[1] = "invitation" => i = Len(Tail(s))
        /\ Head(s).row[1] = "invitation" => Tail(s) = <<>>
        /\ ForInvitation(Tail(s)) \subseteq ForInvitation(s)
    BY <1>1, LastInTail
  <1>4. AtTheEnd(y)
    BY <1>1, <1>2, <1>3 DEF AtTheEnd
  <1>. QED
    BY <1>1, <1>3, <1>4 DEF s

\* The rows the claim of the invitation needs are among the required ones.
LEMMA WholeRows ==
  ASSUME NEW x, x.script = "seed:e2e", x.exams = {"e2e"}
  PROVE  /\ VersionStep.row \in RequiredRows(x) /\ VersionStep.row[1] # "invitation"
         /\ \A i \in 1..Items : <<"link", "e2e", <<"e2e-v1", i>>>> \in RequiredRows(x)
  <1>1. VersionKey(x.script) = "e2e-v1" /\ VersionStep.row = <<"assessmentVersion", "e2e", "e2e-v1">>
    BY DEF VersionKey, VersionStep, Update
  <1>2. VersionStep.row \in VersionRows(x)
    BY <1>1 DEF VersionRows
  <1>3. \A i \in 1..Items : <<"link", "e2e", <<"e2e-v1", i>>>> \in LinkRows(x)
    BY <1>1 DEF LinkRows
  <1>4. VersionRows(x) \subseteq RequiredRows(x) /\ LinkRows(x) \subseteq RequiredRows(x)
    BY DEF RequiredRows
  <1>. QED
    BY <1>1, <1>2, <1>3, <1>4

\* What an upsert does to the rows and the invitation.
LEMMA UpsertRows ==
  ASSUME ScriptsInv, NEW r \in Run, Upsert(r)
  PROVE  LET step == Head(run[r].todo) IN
         /\ DOMAIN rows' = DOMAIN rows \cup {step.row}
         /\ \A x \in DOMAIN rows : rows'[x] = rows[x]
         /\ step = VersionStep => VersionStep.row \notin DOMAIN rows
         /\ invitation' = IF step.row[1] = "invitation" THEN "PENDING" ELSE invitation
         /\ attempt' = IF step.row[1] = "invitation" THEN Nothing ELSE attempt
         /\ examAfter => examAfter'
         /\ legacyNewer' => legacyNewer \/ run[r].after
  <1>. DEFINE step == Head(run[r].todo)
  <1>1. DOMAIN rows' = DOMAIN rows \cup {step.row} /\ \A x \in DOMAIN rows : rows'[x] = rows[x]
    BY DEF Upsert
  <1>2. step = VersionStep => VersionStep.row \notin DOMAIN rows
    <2>1. VersionStep.how = "update" /\ VersionStep.row[1] \in Versions
      BY DEF VersionStep, Update, Versions
    <2>2. ~Refused(step)
      BY DEF Upsert
    <2>. QED
      BY <2>1, <2>2 DEF Refused
  <1>3. /\ invitation' = IF step.row[1] = "invitation" THEN "PENDING" ELSE invitation
        /\ attempt' = IF step.row[1] = "invitation" THEN Nothing ELSE attempt
    BY DEF Upsert
  <1>4. examAfter => examAfter'
    BY DEF Upsert, ScriptsInv, SeedingTypeOK
  <1>5. legacyNewer' => legacyNewer \/ run[r].after
    BY DEF Upsert
  <1>. QED
    BY <1>1, <1>2, <1>3, <1>4, <1>5

\* When it is the invitation's turn, nobody else gets there, and everything
\* the invitation needs is written.
LEMMA InvitationsTurn ==
  ASSUME InvitationInv, NEW r \in Run, Upsert(r), Head(run[r].todo).row[1] = "invitation"
  PROVE  /\ run'[r].todo = <<>> /\ invitation = Nothing
         /\ \A q \in Run \ {r} : Held(run[q].todo)
         /\ VersionStep.row \in DOMAIN rows
         /\ \A i \in 1..Items : <<"link", "e2e", <<"e2e-v1", i>>>> \in DOMAIN rows
  <1>. DEFINE x == run[r]
              step == Head(x.todo)
  <1>1. ScriptsInv /\ AtTheEnd(x)
    BY DEF InvitationInv, InvitationIsLast
  <1>2. /\ x.todo \in Seq(Step) /\ x.todo # <<>> /\ x.ended = "no"
        /\ run'[r].todo = Tail(x.todo) /\ run'[r].script = x.script /\ run'[r].exams = x.exams
    BY <1>1, UpsertShape
  <1>3. run'[r].todo = <<>>
    BY <1>1, <1>2, TailAtTheEnd
  <1>4. ToSet(x.todo) = {step}
    <2>1. ToSet(x.todo) = ToSet(Tail(x.todo)) \cup {step}
      BY <1>2, TailType
    <2>2. ToSet(<<>>) = {}
      BY EmptySeq DEF ToSet
    <2>. QED
      BY <1>2, <1>3, <2>1, <2>2
  <1>5. step \in ForInvitation(x.todo) /\ x.script = "seed:e2e" /\ x.exams = {"e2e"}
    BY <1>1, <1>4 DEF ForInvitation, AtTheEnd
  <1>6. VersionStep \notin ToSet(x.todo)
    BY <1>4, <1>5, WholeRows
  <1>7. /\ invitation = Nothing /\ VersionStep.row \in DOMAIN rows
        /\ \A q \in Run \ {r} : Held(run[q].todo)
    BY <1>5, <1>6 DEF InvitationInv, OneGetsThere, Held
  <1>8. RequiredRows(x) \subseteq DOMAIN rows \cup {step.row}
    BY <1>1, <1>2, <1>4 DEF ScriptsInv, NothingLeftOut, RowsIn
  <1>9. ASSUME NEW i \in 1..Items PROVE <<"link", "e2e", <<"e2e-v1", i>>>> \in DOMAIN rows
    <2>1. <<"link", "e2e", <<"e2e-v1", i>>>> \in RequiredRows(x)
      BY <1>5, WholeRows
    <2>2. <<"link", "e2e", <<"e2e-v1", i>>>> # step.row
      OBVIOUS
    <2>. QED
      BY <1>8, <2>1, <2>2
  <1>. QED
    BY <1>3, <1>7, <1>9

\* The claim takes the version of the seed while it is the newest.
LEMMA ClaimIsWhole ==
  ASSUME InvitationInv, Claim
  PROVE  SeededClaimIsWhole' /\ invitation = "PENDING" /\ invitation' = "USED"
  <1>1. /\ invitation = "PENDING" /\ invitation' = "USED" /\ rows' = rows /\ examAfter' = examAfter
        /\ attempt' = [version |-> Resolved, items |-> LinkedTo(Resolved)]
    BY DEF Claim, dataVars
  <1>2. ASSUME ~examAfter, PublishedAs("e2e-v1") PROVE attempt'.items = 1..Items
    <2>1. ~legacyNewer
      BY <1>2 DEF InvitationInv, NewerIsLater
    <2>2. Resolved = "e2e-v1"
      BY <1>2, <2>1 DEF Resolved
    <2>3. \A i \in 1..Items : There("link", "e2e", <<"e2e-v1", i>>)
      BY <1>1, NothingAssumption DEF InvitationInv, InvitationIsWhole, There
    <2>4. LinkedTo("e2e-v1") = 1..Items
      BY <2>3 DEF LinkedTo
    <2>. QED
      BY <1>1, <2>2, <2>4
  <1>3. PublishedAs("e2e-v1")' => PublishedAs("e2e-v1")
    BY <1>1 DEF PublishedAs, There
  <1>. QED
    BY <1>1, <1>2, <1>3 DEF SeededClaimIsWhole

LEMMA InvitationInitially == SeedingInit => InvitationInv
  <1>. SUFFICES ASSUME SeedingInit PROVE InvitationInv
    OBVIOUS
  <1>1. \A r \in Run : run[r].todo = <<>> /\ run[r].script = Nothing /\ run[r].after = FALSE
    BY DEF SeedingInit, Unstarted
  <1>2. ForInvitation(<<>>) = {} /\ Len(<<>>) = 0
    BY EmptySeq DEF ForInvitation, ToSet
  <1>3. InvitationIsLast
    <2>. SUFFICES ASSUME NEW r \in Run PROVE AtTheEnd(run[r])
      BY DEF InvitationIsLast
    <2>. DEFINE s == run[r].todo
    <2>1. s = <<>>
      BY <1>1
    <2>. HIDE DEF s
    <2>2. ForInvitation(s) = {} /\ \A i \in 1..Len(s) : FALSE
      BY <1>2, <2>1
    <2>3. run[r].script # "seed:e2e"
      BY <1>1, NothingAssumption
    <2>. QED
      BY <2>2, <2>3 DEF AtTheEnd, s
  <1>4. OneGetsThere
    BY <1>1, <1>2 DEF OneGetsThere, Held
  <1>. QED
    BY <1>1, <1>3, <1>4, ScriptsInitially DEF SeedingInit, InvitationInv, InvitationIsWhole, NewerIsLater, SeededClaimIsWhole

LEMMA InvitationStep ==
  ASSUME InvitationInv, [SeedingNext]_seedingVars
  PROVE  InvitationInv'
  <1>0. ScriptsInv /\ ScriptsInv'
    BY ScriptsStep DEF InvitationInv
  <1>1. ASSUME NEW r \in Run, NEW script \in Scripts, Start(r, script) PROVE InvitationInv'
    <2>1. /\ rows' = rows /\ examAfter' = examAfter /\ legacyNewer' = legacyNewer
          /\ invitation' = invitation /\ attempt' = attempt
          /\ \A q \in Run : q # r => run'[q] = run[q]
      BY <1>0, <1>1, StartShape DEF Start, dataVars, claimVars, ScriptsInv, SeedingTypeOK
    <2>2. Held(run'[r].todo) /\ AtTheEnd(run'[r]) /\ run'[r].after = examAfter
      BY <1>0, <1>1, StartHeld, StartShape
    <2>3. InvitationIsLast'
      BY <2>1, <2>2 DEF InvitationInv, InvitationIsLast
    <2>4. OneGetsThere'
      BY <2>1, <2>2 DEF InvitationInv, OneGetsThere
    <2>5. NewerIsLater'
      BY <2>1, <2>2 DEF InvitationInv, NewerIsLater
    <2>6. InvitationIsWhole' /\ SeededClaimIsWhole'
      BY <2>1 DEF InvitationInv, InvitationIsWhole, SeededClaimIsWhole, PublishedAs, There
    <2>. QED
      BY <1>0, <2>3, <2>4, <2>5, <2>6 DEF InvitationInv
  <1>2. ASSUME NEW r \in Run, Upsert(r) PROVE InvitationInv'
    <2>. DEFINE step == Head(run[r].todo)
    <2>1. /\ run[r].todo \in Seq(Step) /\ run[r].todo # <<>> /\ run[r].ended = "no"
          /\ run' = [run EXCEPT ![r] = run'[r]] /\ run'[r].todo = Tail(run[r].todo)
          /\ run'[r].script = run[r].script /\ run'[r].exams = run[r].exams /\ run'[r].after = run[r].after
      BY <1>0, <1>2, UpsertShape
    <2>2. \A q \in Run : q # r => run'[q] = run[q]
      BY <1>0, <2>1 DEF ScriptsInv, SeedingTypeOK
    <2>3. /\ DOMAIN rows' = DOMAIN rows \cup {step.row}
          /\ \A x \in DOMAIN rows : rows'[x] = rows[x]
          /\ step = VersionStep => VersionStep.row \notin DOMAIN rows
          /\ invitation' = IF step.row[1] = "invitation" THEN "PENDING" ELSE invitation
          /\ attempt' = IF step.row[1] = "invitation" THEN Nothing ELSE attempt
          /\ examAfter => examAfter'
          /\ legacyNewer' => legacyNewer \/ run[r].after
      BY <1>0, <1>2, UpsertRows
    <2>4. ToSet(run[r].todo) = ToSet(Tail(run[r].todo)) \cup {step}
      BY <2>1, TailType
    <2>5. InvitationIsLast'
      <3>1. AtTheEnd(run[r])
        BY DEF InvitationInv, InvitationIsLast
      <3>2. AtTheEnd(run'[r])
        BY <2>1, <3>1, TailAtTheEnd
      <3>. QED
        BY <2>2, <3>2 DEF InvitationInv, InvitationIsLast
    <2>6. OneGetsThere'
      <3>1. CASE step.row[1] = "invitation"
        <4>1. run'[r].todo = <<>> /\ \A q \in Run \ {r} : Held(run[q].todo)
          BY <1>2, <3>1, InvitationsTurn
        <4>2. Held(<<>>)
          BY EmptySeq DEF Held, ForInvitation, ToSet
        <4>. QED
          BY <2>2, <4>1, <4>2 DEF OneGetsThere
      <3>2. CASE step.row[1] # "invitation" /\ step # VersionStep
        <4>1. Held(run[r].todo) => Held(run'[r].todo)
          BY <2>1, <2>4, <3>2 DEF Held, ForInvitation
        <4>2. \A q \in Run : Held(run[q].todo) => Held(run'[q].todo)
          BY <2>2, <4>1
        <4>. QED
          BY <2>3, <3>2, <4>2 DEF InvitationInv, OneGetsThere
      <3>3. CASE step.row[1] # "invitation" /\ step = VersionStep
        <4>1. VersionStep.row \notin DOMAIN rows /\ VersionStep.row \in DOMAIN rows'
          BY <2>3, <3>3
        <4>2. \A q \in Run : Held(run[q].todo)
          BY <4>1 DEF InvitationInv, OneGetsThere
        <4>3. invitation' = Nothing
          BY <2>3, <3>3, <4>1 DEF InvitationInv, InvitationIsWhole
        <4>. QED
          BY <2>2, <4>1, <4>2, <4>3 DEF OneGetsThere
      <3>. QED
        BY <3>1, <3>2, <3>3
    <2>7. InvitationIsWhole'
      <3>1. CASE step.row[1] = "invitation"
        BY <1>2, <2>3, <3>1, InvitationsTurn DEF InvitationIsWhole
      <3>2. CASE step.row[1] # "invitation"
        BY <2>3, <3>2 DEF InvitationInv, InvitationIsWhole
      <3>. QED
        BY <3>1, <3>2
    <2>8. NewerIsLater'
      <3>1. \A q \in Run : run'[q].after = run[q].after
        BY <2>1, <2>2
      <3>. QED
        BY <2>3, <3>1 DEF InvitationInv, NewerIsLater
    <2>9. SeededClaimIsWhole'
      <3>1. CASE attempt' = Nothing
        BY <3>1 DEF SeededClaimIsWhole
      <3>2. CASE attempt' # Nothing
        <4>1. attempt' = attempt /\ VersionStep.row \in DOMAIN rows
          BY <2>3, <3>2, NothingAssumption DEF InvitationInv, InvitationIsWhole
        <4>2. VersionStep.row = <<"assessmentVersion", "e2e", "e2e-v1">>
          BY DEF VersionStep, Update
        <4>3. PublishedAs("e2e-v1")' => PublishedAs("e2e-v1")
          BY <2>3, <4>1, <4>2 DEF PublishedAs, There
        <4>. QED
          BY <2>3, <3>2, <4>1, <4>3 DEF InvitationInv, SeededClaimIsWhole
      <3>. QED
        BY <3>1, <3>2
    <2>. QED
      BY <1>0, <2>5, <2>6, <2>7, <2>8, <2>9 DEF InvitationInv
  <1>3. ASSUME NEW r \in Run, Break(r) PROVE InvitationInv'
    <2>1. /\ rows' = rows /\ examAfter' = examAfter /\ legacyNewer' = legacyNewer
          /\ invitation' = invitation /\ attempt' = attempt
          /\ \A q \in Run : q # r => run'[q] = run[q]
      BY <1>0, <1>3, BreakShape DEF Break, dataVars, claimVars, ScriptsInv, SeedingTypeOK
    <2>2. /\ run'[r].todo = <<>> /\ run'[r].script = run[r].script /\ run'[r].exams = run[r].exams
          /\ run'[r].after = run[r].after
      BY <1>0, <1>3, BreakShape
    <2>3. ForInvitation(<<>>) = {} /\ Len(<<>>) = 0
      BY EmptySeq DEF ForInvitation, ToSet
    <2>4. AtTheEnd(run'[r]) /\ Held(run'[r].todo)
      BY <2>2, <2>3 DEF InvitationInv, InvitationIsLast, AtTheEnd, Held
    <2>5. InvitationIsLast'
      BY <2>1, <2>4 DEF InvitationInv, InvitationIsLast
    <2>6. OneGetsThere'
      BY <2>1, <2>4 DEF InvitationInv, OneGetsThere
    <2>7. NewerIsLater'
      BY <2>1, <2>2 DEF InvitationInv, NewerIsLater
    <2>8. InvitationIsWhole' /\ SeededClaimIsWhole'
      BY <2>1 DEF InvitationInv, InvitationIsWhole, SeededClaimIsWhole, PublishedAs, There
    <2>. QED
      BY <1>0, <2>5, <2>6, <2>7, <2>8 DEF InvitationInv
  <1>4. CASE Claim
    <2>1. rows' = rows /\ examAfter' = examAfter /\ legacyNewer' = legacyNewer /\ run' = run
      BY <1>4 DEF Claim, dataVars
    <2>2. SeededClaimIsWhole' /\ invitation = "PENDING" /\ invitation' = "USED"
      BY <1>4, ClaimIsWhole
    <2>3. InvitationIsLast' /\ NewerIsLater'
      BY <2>1 DEF InvitationInv, InvitationIsLast, NewerIsLater
    <2>4. OneGetsThere' /\ InvitationIsWhole'
      BY <2>1, <2>2, NothingAssumption DEF InvitationInv, OneGetsThere, InvitationIsWhole
    <2>. QED
      BY <1>0, <2>2, <2>3, <2>4 DEF InvitationInv
  <1>5. ASSUME NEW key \in {"1.0.0", "e2e-v1"}, Retire(key) PROVE InvitationInv'
    <2>1. /\ DOMAIN rows' = DOMAIN rows /\ examAfter' = examAfter /\ legacyNewer' = legacyNewer
          /\ run' = run /\ invitation' = invitation /\ attempt' = attempt
      BY <1>5 DEF Retire, claimVars
    <2>2. PublishedAs("e2e-v1")' => PublishedAs("e2e-v1")
      BY <1>5 DEF Retire, PublishedAs, There
    <2>3. InvitationIsLast' /\ NewerIsLater'
      BY <2>1 DEF InvitationInv, InvitationIsLast, NewerIsLater
    <2>4. OneGetsThere' /\ InvitationIsWhole'
      BY <2>1 DEF InvitationInv, OneGetsThere, InvitationIsWhole
    <2>5. SeededClaimIsWhole'
      BY <2>1, <2>2 DEF InvitationInv, SeededClaimIsWhole
    <2>. QED
      BY <1>0, <2>3, <2>4, <2>5 DEF InvitationInv
  <1>6. CASE UNCHANGED <<dataVars, claimVars, run>>
    <2>1. /\ rows' = rows /\ examAfter' = examAfter /\ legacyNewer' = legacyNewer
          /\ run' = run /\ invitation' = invitation /\ attempt' = attempt
      BY <1>6 DEF dataVars, claimVars
    <2>2. InvitationIsLast' /\ NewerIsLater'
      BY <2>1 DEF InvitationInv, InvitationIsLast, NewerIsLater
    <2>3. OneGetsThere' /\ InvitationIsWhole'
      BY <2>1 DEF InvitationInv, OneGetsThere, InvitationIsWhole
    <2>4. SeededClaimIsWhole'
      BY <2>1 DEF InvitationInv, SeededClaimIsWhole, PublishedAs, There
    <2>. QED
      BY <1>0, <2>2, <2>3, <2>4 DEF InvitationInv
  <1>7. ASSUME NEW p \in Process, CountRows(p) \/ CreateMany(p) \/ Restart(p)
        PROVE  UNCHANGED <<dataVars, claimVars, run>>
    BY <1>7 DEF CountRows, CreateMany, Restart
  <1>8. UNCHANGED seedingVars => UNCHANGED <<dataVars, claimVars, run>>
    BY DEF seedingVars
  <1>. QED
    BY <1>1, <1>2, <1>3, <1>4, <1>5, <1>6, <1>7, <1>8 DEF SeedingNext, Scripts

(***************************************************************************)
(* The seeded invitation is the last row of prisma/seed-e2e.ts, and only   *)
(* the run that has created the version gets as far: where there is an     *)
(* invitation there is its version with all the items.                     *)
(***************************************************************************)
THEOREM InvitationInvariance == SeedingSpec => []InvitationInv
  BY InvitationInitially, InvitationStep, PTL DEF SeedingSpec

(***************************************************************************)
(* The seeded invitation leads to an attempt with all its items unless the *)
(* seed was started again or the version retired (SeededClaimIsWhole).     *)
(***************************************************************************)
THEOREM SeededClaimsAreWhole == SeedingSpec => []SeededClaimIsWhole
  <1>1. InvitationInv => SeededClaimIsWhole
    BY DEF InvitationInv
  <1>. QED
    BY <1>1, InvitationInvariance, PTL

(***************************************************************************)
(* Seeding again never takes the attempt of a claimed invitation away      *)
(* (ClaimSurvives).                                                        *)
(***************************************************************************)
LEMMA ClaimStays ==
  ASSUME InvitationInv, [SeedingNext]_seedingVars, attempt # Nothing
  PROVE  attempt' = attempt /\ invitation' = invitation
  <1>. DEFINE Stays == attempt' = attempt /\ invitation' = invitation
  <1>1. invitation = "USED" /\ invitation # Nothing
    BY NothingAssumption DEF InvitationInv, InvitationIsWhole
  <1>2. ASSUME NEW r \in Run, Upsert(r) PROVE Stays
    <2>1. Head(run[r].todo).row[1] # "invitation"
      BY <1>1, <1>2, InvitationsTurn
    <2>. QED
      BY <1>2, <2>1 DEF Upsert
  <1>3. ASSUME NEW r \in Run, NEW script \in Scripts, Start(r, script) \/ Break(r) PROVE Stays
    BY <1>3 DEF Start, Break, claimVars
  <1>4. ~Claim
    BY <1>1 DEF Claim
  <1>5. ASSUME NEW key \in {"1.0.0", "e2e-v1"}, Retire(key) PROVE Stays
    BY <1>5 DEF Retire, claimVars
  <1>6. ASSUME NEW p \in Process, CountRows(p) \/ CreateMany(p) \/ Restart(p) PROVE Stays
    BY <1>6 DEF CountRows, CreateMany, Restart, claimVars
  <1>7. CASE UNCHANGED seedingVars
    BY <1>7 DEF seedingVars, claimVars
  <1>. QED
    BY <1>2, <1>3, <1>4, <1>5, <1>6, <1>7 DEF SeedingNext, Scripts

(***************************************************************************)
(* No script and no start of a process changes an attempt that the claim   *)
(* of the seeded invitation has started, or the invitation (ClaimSurvives). *)
(***************************************************************************)
THEOREM ClaimsSurvive == SeedingSpec => ClaimSurvives
  <1>1. InvitationInv /\ [SeedingNext]_seedingVars =>
          [attempt # Nothing => attempt' = attempt /\ invitation' = invitation]_seedingVars
    BY ClaimStays
  <1>. QED
    BY <1>1, InvitationInvariance, PTL DEF SeedingSpec, ClaimSurvives

-----------------------------------------------------------------------------
(***************************************************************************)
(* Unless two processes count at the same time, each default is created at *)
(* most once (DefaultsOnce): who counts alone still finds, when it         *)
(* creates, what it has counted.                                           *)
(***************************************************************************)
BootInv == BootTypeOK /\ CountedIsThere

LEMMA BootStep ==
  ASSUME BootInv, [SeedingNext]_seedingVars
  PROVE  BootInv'
  <1>. USE DEF BootInv
  <1>1. ASSUME NEW p \in Process, CountRows(p) PROVE BootInv'
    <2>. DEFINE pc == After(boot[p].pc)
                empty == Empty(boot[p].pc)
                new == [pc |-> pc, empty |-> empty]
    <2>1. pc \in {"profiles", "cutScores"} /\ empty \in BOOLEAN
      BY <1>1 DEF CountRows, After, Empty, NoProfiles, Organization, There
    <2>2. empty => defaults[pc] = 0
      BY <1>1 DEF CountRows, After, Empty, NoProfiles
    <2>3. /\ boot' = [boot EXCEPT ![p] = new] /\ defaults' = defaults
          /\ together' = (together \/ \E q \in Process \ {p} : boot[q].pc = pc)
      BY <1>1 DEF CountRows
    <2>. HIDE DEF pc, empty
    <2>4. new.pc = pc /\ new.empty = empty
      OBVIOUS
    <2>5. new \in [pc : {"start", "profiles", "between", "cutScores", "up"}, empty : BOOLEAN]
      BY <2>1
    <2>. HIDE DEF new
    <2>6. boot'[p] = new /\ \A q \in Process : q # p => boot'[q] = boot[q]
      BY <2>3 DEF BootTypeOK
    <2>7. BootTypeOK'
      BY <2>3, <2>5 DEF BootTypeOK
    <2>8. CASE together'
      BY <2>7, <2>8 DEF CountedIsThere
    <2>9. CASE ~together'
      <3>1. ~together /\ \A q \in Process \ {p} : boot[q].pc # pc
        BY <2>3, <2>9 DEF BootTypeOK
      <3>. SUFFICES ASSUME NEW kind \in {"profiles", "cutScores"}
                    PROVE  /\ defaults'[kind] <= 1
                           /\ \A q \in Process : boot'[q].pc = kind =>
                                 /\ boot'[q].empty => defaults'[kind] = 0
                                 /\ \A o \in Process \ {q} : boot'[o].pc # kind
        BY <2>7 DEF CountedIsThere
      <3>2. defaults'[kind] <= 1
        BY <2>3, <3>1 DEF CountedIsThere
      <3>3. ASSUME NEW q \in Process, boot'[q].pc = kind
            PROVE  /\ boot'[q].empty => defaults'[kind] = 0
                   /\ \A o \in Process \ {q} : boot'[o].pc # kind
        <4>1. CASE q = p
          BY <2>2, <2>3, <2>4, <2>6, <3>1, <3>3, <4>1
        <4>2. CASE q # p
          BY <2>3, <2>4, <2>6, <3>1, <3>3, <4>2 DEF CountedIsThere
        <4>. QED
          BY <4>1, <4>2
      <3>. QED
        BY <3>2, <3>3
    <2>. QED
      BY <2>3, <2>8, <2>9 DEF BootTypeOK
  <1>2. ASSUME NEW p \in Process, CreateMany(p) PROVE BootInv'
    <2>. DEFINE kind == boot[p].pc
                new == [pc |-> After(kind), empty |-> FALSE]
    <2>1. /\ kind \in {"profiles", "cutScores"} /\ After(kind) \in {"between", "up"}
      BY <1>2 DEF CreateMany, After
    <2>2. /\ boot' = [boot EXCEPT ![p] = new] /\ together' = together
          /\ \/ defaults' = defaults
             \/ boot[p].empty /\ defaults' = [defaults EXCEPT ![kind] = @ + 1]
      BY <1>2 DEF CreateMany
    <2>3. new.pc = After(kind) /\ new.empty = FALSE
      OBVIOUS
    <2>4. new \in [pc : {"start", "profiles", "between", "cutScores", "up"}, empty : BOOLEAN]
      BY <2>1
    <2>. HIDE DEF new, kind
    <2>5. boot'[p] = new /\ \A q \in Process : q # p => boot'[q] = boot[q]
      BY <2>2 DEF BootTypeOK
    <2>6. BootTypeOK'
      BY <2>1, <2>2, <2>4 DEF BootTypeOK
    <2>7. ASSUME ~together, NEW k \in {"profiles", "cutScores"}
          PROVE  /\ defaults'[k] <= 1
                 /\ \A q \in Process : boot'[q].pc = k =>
                       /\ boot'[q].empty => defaults'[k] = 0
                       /\ \A o \in Process \ {q} : boot'[o].pc # k
      <3>1. k # kind => defaults'[k] = defaults[k]
        BY <2>1, <2>2 DEF BootTypeOK
      <3>2. \A q \in Process \ {p} : boot[q].pc # kind
        BY <2>1, <2>7 DEF CountedIsThere, kind
      <3>3. defaults'[k] <= 1
        <4>1. CASE defaults' = defaults
          BY <2>7, <4>1 DEF CountedIsThere
        <4>2. CASE boot[p].empty /\ defaults' = [defaults EXCEPT ![kind] = @ + 1]
          <5>1. defaults[kind] = 0
            BY <2>1, <2>7, <4>2 DEF CountedIsThere, kind
          <5>2. defaults'[kind] = 1
            BY <2>1, <4>2, <5>1 DEF BootTypeOK
          <5>. QED
            BY <2>7, <3>1, <5>2 DEF CountedIsThere
        <4>. QED
          BY <2>2, <4>1, <4>2
      <3>4. ASSUME NEW q \in Process, boot'[q].pc = k
            PROVE  /\ boot'[q].empty => defaults'[k] = 0
                   /\ \A o \in Process \ {q} : boot'[o].pc # k
        <4>1. q # p
          BY <2>1, <2>3, <2>5, <3>4
        <4>2. boot[q].pc = k /\ k # kind
          BY <2>5, <3>2, <3>4, <4>1
        <4>3. \A o \in Process \ {q} : boot'[o].pc # k
          BY <2>1, <2>3, <2>5, <2>7, <4>2 DEF CountedIsThere
        <4>4. boot'[q].empty => defaults'[k] = 0
          BY <2>5, <2>7, <3>1, <4>1, <4>2 DEF CountedIsThere
        <4>. QED
          BY <4>3, <4>4
      <3>. QED
        BY <3>3, <3>4
    <2>. QED
      BY <2>2, <2>6, <2>7 DEF CountedIsThere
  <1>3. ASSUME NEW p \in Process, Restart(p) PROVE BootInv'
    <2>. DEFINE new == [pc |-> "start", empty |-> FALSE]
    <2>1. boot' = [boot EXCEPT ![p] = new] /\ together' = together /\ defaults' = defaults
      BY <1>3 DEF Restart
    <2>2. new.pc = "start" /\ new \in [pc : {"start", "profiles", "between", "cutScores", "up"}, empty : BOOLEAN]
      OBVIOUS
    <2>. HIDE DEF new
    <2>3. boot'[p] = new /\ \A q \in Process : q # p => boot'[q] = boot[q]
      BY <2>1 DEF BootTypeOK
    <2>4. BootTypeOK'
      BY <2>1, <2>2 DEF BootTypeOK
    <2>5. CountedIsThere'
      BY <2>1, <2>2, <2>3 DEF CountedIsThere
    <2>. QED
      BY <2>4, <2>5
  <1>4. CASE UNCHANGED bootVars
    BY <1>4 DEF bootVars, BootTypeOK, CountedIsThere
  <1>5. ASSUME NEW r \in Run, NEW script \in Scripts, Start(r, script) \/ Upsert(r) \/ Break(r)
        PROVE  UNCHANGED bootVars
    BY <1>5 DEF Start, Upsert, Break
  <1>6. ASSUME NEW key, Claim \/ Retire(key) PROVE UNCHANGED bootVars
    BY <1>6 DEF Claim, Retire
  <1>7. UNCHANGED seedingVars => UNCHANGED bootVars
    BY DEF seedingVars
  <1>. QED
    BY <1>1, <1>2, <1>3, <1>4, <1>5, <1>6, <1>7 DEF SeedingNext, Scripts

LEMMA BootInitially == SeedingInit => BootInv
  <1>. SUFFICES ASSUME SeedingInit PROVE BootInv
    OBVIOUS
  <1>1. /\ boot = [p \in Process |-> [pc |-> "start", empty |-> FALSE]] /\ together = FALSE
        /\ defaults = [profiles |-> 0, cutScores |-> 0]
    BY DEF SeedingInit
  <1>2. defaults \in [{"profiles", "cutScores"} -> Nat] /\ \A kind \in {"profiles", "cutScores"} : defaults[kind] = 0
    BY <1>1
  <1>3. \A p \in Process : boot[p].pc = "start"
    BY <1>1
  <1>4. BootTypeOK
    BY <1>1, <1>2 DEF BootTypeOK
  <1>. QED
    BY <1>2, <1>3, <1>4 DEF BootInv, CountedIsThere

(***************************************************************************)
(* Unless two processes count at the same time, each default profile and   *)
(* cut score is created at most once (DefaultsOnce; onModuleInit of        *)
(* prisma.service.ts), for any number of processes that restart.           *)
(***************************************************************************)
THEOREM DefaultsAreCreatedOnce == SeedingSpec => []DefaultsOnce
  <1>1. BootInv => DefaultsOnce
    BY DEF BootInv, BootTypeOK, CountedIsThere, DefaultsOnce
  <1>2. BootInv /\ [SeedingNext]_seedingVars => BootInv'
    BY BootStep
  <1>. QED
    BY <1>1, <1>2, BootInitially, PTL DEF SeedingSpec

-----------------------------------------------------------------------------
(***************************************************************************)
(* The pages that edit versions.                                           *)
(***************************************************************************)

\* Of numbers up to n there is a least, and so a greatest.
LEMMA LeastOf ==
  ASSUME NEW T, T \subseteq Nat, T # {}
  PROVE  \E x \in T : \A y \in T : x <= y
  <1>1. PICK x \in T : \A y \in T : ~(<<y, x>> \in OpToRel(<, Nat))
    BY WFMin, NatLessThanWellFounded
  <1>2. ASSUME NEW y \in T PROVE x <= y
    <2>1. ~(y < x)
      BY <1>1 DEF OpToRel
    <2>. QED
      BY <2>1
  <1>. QED
    BY <1>2

LEMMA MaxOf ==
  ASSUME NEW n \in Nat, NEW S, S \subseteq 1..n, S # {}
  PROVE  Max(S) \in S
  <1>. DEFINE T == {n - x : x \in S}
  <1>. \A x \in S : x \in Nat /\ n - x \in Nat
    OBVIOUS
  <1>1. T \subseteq Nat /\ T # {}
    OBVIOUS
  <1>2. PICK m \in T : \A y \in T : m <= y
    BY <1>1, LeastOf
  <1>3. PICK x \in S : m = n - x
    OBVIOUS
  <1>4. ASSUME NEW y \in S PROVE x >= y
    <2>1. n - y \in T
      OBVIOUS
    <2>2. n - x <= n - y
      BY <1>2, <1>3, <2>1
    <2>. QED
      BY <2>2
  <1>. QED
    BY <1>4 DEF Max

-----------------------------------------------------------------------------
(***************************************************************************)
(* What the records are, and that what they name exists.                   *)
(***************************************************************************)
IsVersion(x) == DOMAIN x = {"assessment", "status", "edits", "items"}

IsPage(p) ==
    DOMAIN p = {"assessment", "selected", "known", "assessments", "detail", "ids", "busy", "loading"}

IsSheet(x) == DOMAIN x = {"detail", "draft", "ids"}

IsLoad(r) == r.at \in {"list", "detail"} /\ DOMAIN r = {"at", "stage", "v", "busy", "answer"}

Kinds == {"blueprint", "items", "workflow", "clone", "assessment", "item", "copy"}

IsPost(r) ==
    /\ r.at = "post" /\ r.kind \in Kinds
    /\ DOMAIN r = {"at", "stage", "kind", "v", "what", "answer"}

\* The requests of the pages and those that nobody waits for.
Callers == {-1, 0} \cup Slot \cup Stray

IsVersions(s) == s \in Seq({s[v] : v \in DOMAIN s}) /\ \A v \in DOMAIN s : IsVersion(s[v])

\* A request and its answer, when the versions are those of a set.
LoadOK(r, versions) ==
    /\ IsLoad(r)
    /\ IF r.at = "detail" THEN r.v \in versions /\ (r.answer.ok => r.answer.id = r.v)
       ELSE (r.v = Unset \/ r.v \in versions) /\ (r.answer.ok => DOMAIN r.answer.known \subseteq versions)

PostOK(r, versions) ==
    /\ IsPost(r)
    /\ r.v = Unset \/ r.v \in versions
    /\ r.kind \in {"blueprint", "items"} => r.v \in versions
    /\ r.kind \in {"clone", "assessment"} /\ r.answer.ok => r.answer.new \in versions
    /\ r.kind = "item" /\ r.answer.ok => r.answer.new # 1

RequestOK(r, versions) == r = Idle \/ LoadOK(r, versions) \/ PostOK(r, versions)

PageOK(p, versions) ==
    /\ IsPage(p)
    /\ p.known \subseteq versions
    /\ p.selected = Unset \/ p.selected \in versions
    /\ p.detail = Unset \/ p.detail.id \in versions

Shape ==
    /\ IsVersions(version)
    /\ items \in Nat \ {0}
    /\ PageOK(page, Made)
    /\ IsSheet(sheet) /\ (sheet.detail = Unset \/ sheet.detail.id \in Made)
    /\ DOMAIN listed \subseteq Made
    /\ DOMAIN call = Callers
    /\ \A s \in DOMAIN call : RequestOK(call[s], Made)
    /\ call[0].at = "post" => call[0].v \in Made
    /\ overlapped \in BOOLEAN

\* What a change to the requests, the page and the versions leaves true.
LEMMA MoreVersions ==
  ASSUME NEW S, NEW T, S \subseteq T
  PROVE  /\ \A r : RequestOK(r, S) => RequestOK(r, T)
         /\ \A p : PageOK(p, S) => PageOK(p, T)
  <1>1. \A r : LoadOK(r, S) => LoadOK(r, T)
    BY DEF LoadOK
  <1>2. \A r : PostOK(r, S) => PostOK(r, T)
    BY DEF PostOK
  <1>. QED
    BY <1>1, <1>2 DEF RequestOK, PageOK

LEMMA CallersApart ==
  /\ {-1, 0} \subseteq Callers /\ Slot \subseteq Callers /\ Stray \subseteq Callers
  /\ -1 # 0 /\ {-1, 0} \cap Slot = {} /\ {-1, 0} \cap Stray = {} /\ Slot \cap Stray = {}
  BY SlotAssumption DEF Callers

LEMMA IdleShape ==
  /\ Idle.at = "idle"
  /\ \A versions : RequestOK(Idle, versions)
  /\ Failed.ok = FALSE
  BY DEF Idle, RequestOK, Failed

\* A request is waiting, a load or a post, by what it is at.
LEMMA RequestKinds ==
  ASSUME NEW r, NEW versions, RequestOK(r, versions)
  PROVE  /\ r.at \in {"idle", "list", "detail", "post"}
         /\ r.at = "idle" => r = Idle
         /\ r.at \in {"list", "detail"} => LoadOK(r, versions)
         /\ r.at = "post" => PostOK(r, versions)
  <1>1. r = Idle => r.at = "idle"
    BY DEF Idle
  <1>2. LoadOK(r, versions) => r.at \in {"list", "detail"}
    BY DEF LoadOK, IsLoad
  <1>3. PostOK(r, versions) => r.at = "post"
    BY DEF PostOK, IsPost
  <1>. QED
    BY <1>1, <1>2, <1>3 DEF RequestOK

LEMMA LoadShape ==
  ASSUME NEW at \in {"list", "detail"}, NEW v, NEW busy
  PROVE  LET r == Load(at, v, busy)
         IN  /\ IsLoad(r) /\ r.at = at /\ r.v = v /\ r.busy = busy /\ r.stage = "sent" /\ r.answer = Failed
  BY DEF Load, IsLoad

LEMMA LoadDetail ==
  ASSUME NEW versions, NEW v \in versions, NEW busy
  PROVE  LET r == Load("detail", v, busy)
         IN  RequestOK(r, versions) /\ r.at = "detail" /\ r.v = v /\ ~r.answer.ok
  BY LoadShape, IdleShape DEF RequestOK, LoadOK

LEMMA PostShape ==
  ASSUME NEW kind \in Kinds, NEW v, NEW what
  PROVE  LET r == Post(kind, v, what)
         IN  /\ IsPost(r) /\ r.at = "post" /\ r.kind = kind /\ r.v = v /\ r.what = what
             /\ r.stage = "sent" /\ r.answer = Failed
  BY DEF Post, IsPost

LEMMA PostStarts ==
  ASSUME NEW versions, NEW kind \in Kinds, NEW v, v = Unset \/ v \in versions, NEW what,
         kind \in {"blueprint", "items"} => v \in versions
  PROVE  RequestOK(Post(kind, v, what), versions) /\ ~Post(kind, v, what).answer.ok
  BY PostShape, IdleShape DEF RequestOK, PostOK

LEMMA AnsweredLoad ==
  ASSUME NEW r, IsLoad(r), NEW a
  PROVE  LET x == Answered(r, a)
         IN  /\ IsLoad(x) /\ x.at = r.at /\ x.v = r.v /\ x.busy = r.busy
             /\ x.stage = "answered" /\ x.answer = a
  BY DEF IsLoad, Answered

LEMMA AnsweredPost ==
  ASSUME NEW r, IsPost(r), NEW a
  PROVE  LET x == Answered(r, a)
         IN  /\ IsPost(x) /\ x.at = "post" /\ x.kind = r.kind /\ x.v = r.v /\ x.what = r.what
             /\ x.stage = "answered" /\ x.answer = a
  BY DEF IsPost, Answered

\* The server accepts a post; a new assessment has its number.
LEMMA CheckedPost ==
  ASSUME NEW r, IsPost(r), NEW new
  PROVE  LET x == [r EXCEPT !.stage = "checked", !.what = IF r.kind = "assessment" THEN new ELSE @]
         IN  /\ IsPost(x) /\ x.at = "post" /\ x.kind = r.kind /\ x.v = r.v /\ x.answer = r.answer
             /\ x.kind # "assessment" => x.what = r.what
  BY DEF IsPost

-----------------------------------------------------------------------------
(***************************************************************************)
(* The versions and what the server writes.                                *)
(***************************************************************************)
LEMMA SeqOfItsOwn ==
  ASSUME NEW S, NEW s \in Seq(S)
  PROVE  s \in Seq({s[i] : i \in DOMAIN s})
  <1>. DEFINE T == {s[i] : i \in DOMAIN s}
  <1>1. Len(s) \in Nat /\ DOMAIN s = 1..Len(s) /\ s \in [1..Len(s) -> S]
    BY LenProperties
  <1>2. s \in [1..Len(s) -> T]
    BY <1>1
  <1>. HIDE DEF T
  <1>. QED
    BY <1>1, <1>2, SeqDef

LEMMA VersionsShape ==
  ASSUME NEW s, IsVersions(s)
  PROVE  Len(s) \in Nat /\ DOMAIN s = 1..Len(s)
  <1>. DEFINE T == {s[v] : v \in DOMAIN s}
  <1>1. s \in Seq(T)
    BY DEF IsVersions
  <1>. HIDE DEF T
  <1>. QED
    BY <1>1, LenProperties

LEMMA ChangedVersions ==
  ASSUME NEW s, IsVersions(s), NEW k, NEW x, k \in DOMAIN s => IsVersion(x)
  PROVE  LET t == [s EXCEPT ![k] = x]
         IN  IsVersions(t) /\ DOMAIN t = DOMAIN s /\ \A v \in DOMAIN s : t[v] = IF v = k THEN x ELSE s[v]
  <1>. DEFINE t == [s EXCEPT ![k] = x]
              T == {s[v] : v \in DOMAIN s} \cup {x}
  <1>1. DOMAIN t = DOMAIN s /\ \A v \in DOMAIN s : t[v] = IF v = k THEN x ELSE s[v]
    OBVIOUS
  <1>2. Len(s) \in Nat /\ DOMAIN s = 1..Len(s)
    BY VersionsShape
  <1>3. t \in [1..Len(s) -> T]
    BY <1>1, <1>2
  <1>4. t \in Seq(T)
    <2>. HIDE DEF T, t
    <2>. QED
      BY <1>2, <1>3, SeqDef
  <1>5. \A v \in DOMAIN t : IsVersion(t[v])
    BY <1>1 DEF IsVersions
  <1>. HIDE DEF T, t
  <1>6. t \in Seq({t[i] : i \in DOMAIN t})
    BY <1>4, SeqOfItsOwn
  <1>7. IsVersions(t)
    BY <1>5, <1>6 DEF IsVersions
  <1>. QED
    BY <1>1, <1>7 DEF t

LEMMA MadeVersions ==
  ASSUME NEW s, IsVersions(s), NEW x, IsVersion(x)
  PROVE  LET t == Append(s, x)
         IN  IsVersions(t) /\ DOMAIN s \subseteq DOMAIN t /\ Len(s) + 1 \in DOMAIN t /\ \A v \in DOMAIN s : t[v] = s[v]
  <1>. DEFINE t == Append(s, x)
              T == {s[v] : v \in DOMAIN s} \cup {x}
  <1>1. Len(s) \in Nat /\ DOMAIN s = 1..Len(s)
    BY VersionsShape
  <1>2. s \in [1..Len(s) -> T]
    <2>. DEFINE S == {s[v] : v \in DOMAIN s}
    <2>1. s \in Seq(S)
      BY DEF IsVersions
    <2>2. s \in [1..Len(s) -> S]
      <3>. HIDE DEF S
      <3>. QED
        BY <2>1, LenProperties
    <2>. QED
      BY <1>1, <2>2
  <1>3. s \in Seq(T) /\ x \in T
    <2>1. x \in T
      OBVIOUS
    <2>. HIDE DEF T
    <2>. QED
      BY <1>1, <1>2, <2>1, SeqDef
  <1>4. /\ t \in Seq(T) /\ Len(t) = Len(s) + 1
        /\ \A i \in 1..Len(s) : t[i] = s[i]
        /\ t[Len(s) + 1] = x
    <2>. HIDE DEF T
    <2>. QED
      BY <1>3, AppendProperties
  <1>5. DOMAIN t = 1..(Len(s) + 1)
    <2>. HIDE DEF T, t
    <2>. QED
      BY <1>4, LenProperties
  <1>6. \A v \in DOMAIN s : v \in DOMAIN t /\ t[v] = s[v]
    BY <1>1, <1>4, <1>5
  <1>7. Len(s) + 1 \in DOMAIN t /\ \A v \in DOMAIN t : v \in DOMAIN s \/ v = Len(s) + 1
    BY <1>1, <1>5
  <1>8. \A v \in DOMAIN t : IsVersion(t[v])
    BY <1>4, <1>6, <1>7 DEF IsVersions
  <1>. HIDE DEF t
  <1>9. t \in Seq({t[i] : i \in DOMAIN t})
    BY <1>4, SeqOfItsOwn
  <1>10. IsVersions(t)
    BY <1>8, <1>9 DEF IsVersions
  <1>. QED
    BY <1>6, <1>7, <1>10 DEF t

LEMMA ChangedVersion ==
  ASSUME NEW x, IsVersion(x), NEW e
  PROVE  /\ IsVersion([x EXCEPT !.edits = e]) /\ [x EXCEPT !.edits = e].edits = e
         /\ IsVersion([x EXCEPT !.items = e]) /\ [x EXCEPT !.items = e].edits = x.edits
         /\ IsVersion([x EXCEPT !.status = e]) /\ [x EXCEPT !.status = e].edits = x.edits
  BY DEF IsVersion

LEMMA NewVersionShape ==
  ASSUME NEW a, NEW e
  PROVE  IsVersion(NewVersion(a, e))
  BY DEF NewVersion, IsVersion

\* A write changes the edits of a version only to what it says.
LEMMA WrittenShape ==
  ASSUME IsVersions(version), NEW r, r.kind \in Kinds
  PROVE  LET w == Written(r)
         IN  /\ IsVersions(w) /\ Made \subseteq DOMAIN w
             /\ r.kind \in {"clone", "assessment"} => Len(version) + 1 \in DOMAIN w
             /\ \A v \in Made : w[v].edits = IF r.kind = "blueprint" /\ v = r.v THEN r.what ELSE version[v].edits
  <1>. DEFINE w == Written(r)
              x == version[r.v]
  <1>1. r.v \in Made => IsVersion(x)
    BY DEF IsVersions, Made
  <1>2. CASE r.kind = "blueprint"
    <2>. DEFINE y == [x EXCEPT !.edits = r.what]
                k == r.v
    <2>1. w = [version EXCEPT ![k] = y]
      BY <1>2 DEF Written
    <2>2. k \in Made => IsVersion(y) /\ y.edits = r.what
      BY <1>1, ChangedVersion
    <2>3. k = r.v /\ x = version[r.v]
      OBVIOUS
    <2>. HIDE DEF w, x, y, k
    <2>4. /\ IsVersions(w) /\ DOMAIN w = Made
          /\ \A v \in Made : w[v] = IF v = k THEN y ELSE version[v]
      BY <2>1, <2>2, ChangedVersions DEF Made
    <2>5. \A v \in Made : w[v].edits = IF v = k THEN r.what ELSE version[v].edits
      BY <2>2, <2>4
    <2>. QED
      BY <1>2, <2>3, <2>4, <2>5 DEF w
  <1>3. CASE r.kind = "items"
    <2>. DEFINE y == [x EXCEPT !.items = {j[1] : j \in r.what}]
                k == r.v
    <2>1. w = [version EXCEPT ![k] = y]
      BY <1>3 DEF Written
    <2>2. k \in Made => IsVersion(y) /\ y.edits = x.edits
      BY <1>1, ChangedVersion
    <2>3. k = r.v /\ x = version[r.v]
      OBVIOUS
    <2>. HIDE DEF w, x, y, k
    <2>4. /\ IsVersions(w) /\ DOMAIN w = Made
          /\ \A v \in Made : w[v] = IF v = k THEN y ELSE version[v]
      BY <2>1, <2>2, ChangedVersions DEF Made
    <2>5. \A v \in Made : w[v].edits = IF v = k THEN x.edits ELSE version[v].edits
      BY <2>2, <2>4
    <2>. QED
      BY <1>3, <2>3, <2>4, <2>5 DEF w
  <1>4. CASE r.kind = "workflow"
    <2>. DEFINE y == [x EXCEPT !.status = r.what]
                k == r.v
    <2>1. w = [version EXCEPT ![k] = y]
      BY <1>4 DEF Written
    <2>2. k \in Made => IsVersion(y) /\ y.edits = x.edits
      BY <1>1, ChangedVersion
    <2>3. k = r.v /\ x = version[r.v]
      OBVIOUS
    <2>. HIDE DEF w, x, y, k
    <2>4. /\ IsVersions(w) /\ DOMAIN w = Made
          /\ \A v \in Made : w[v] = IF v = k THEN y ELSE version[v]
      BY <2>1, <2>2, ChangedVersions DEF Made
    <2>5. \A v \in Made : w[v].edits = IF v = k THEN x.edits ELSE version[v].edits
      BY <2>2, <2>4
    <2>. QED
      BY <1>4, <2>3, <2>4, <2>5 DEF w
  <1>5. CASE r.kind = "clone"
    <2>1. w = Append(version, Cloned(r.v)) /\ IsVersion(Cloned(r.v))
      BY <1>5, NewVersionShape DEF Written, Cloned
    <2>. HIDE DEF w
    <2>. QED
      BY <1>5, <2>1, MadeVersions DEF Made, w
  <1>6. CASE r.kind = "assessment"
    <2>1. w = Append(version, NewVersion(r.what, {})) /\ IsVersion(NewVersion(r.what, {}))
      BY <1>6, NewVersionShape DEF Written
    <2>. HIDE DEF w
    <2>. QED
      BY <1>6, <2>1, MadeVersions DEF Made, w
  <1>7. CASE r.kind \in {"item", "copy"}
    <2>1. w = version
      BY <1>7 DEF Written
    <2>. QED
      BY <1>7, <2>1 DEF Made
  <1>. QED
    BY <1>2, <1>3, <1>4, <1>5, <1>6, <1>7 DEF Kinds

-----------------------------------------------------------------------------
(***************************************************************************)
(* What a step of the server does to a request and to the versions.        *)
(***************************************************************************)
Posts(r, kind) == r.at = "post" /\ r.kind = kind

\* A blueprint a page was told is saved is saved.
Saved(r) == r.answer.ok => r.what \subseteq version[r.v].edits

\* The request stays what it is; an answer does not come twice, but is lost.
Continues(s) ==
    /\ call'[s].at = call[s].at /\ call'[s].v = call[s].v
    /\ call[s].at = "post" =>
         /\ call'[s].kind = call[s].kind
         /\ call[s].kind # "assessment" => call'[s].what = call[s].what
         /\ call[s].stage = "answered" => call'[s].stage = "answered" /\ ~call'[s].answer.ok
    /\ call[s].at = "detail" /\ call'[s].answer.ok => call'[s].answer.edits = version[call[s].v].edits
    /\ Posts(call[s], "blueprint") /\ Saved(call[s]) => Saved(call[s])'

Served(s) ==
    /\ DOMAIN call' = DOMAIN call
    /\ \A t \in DOMAIN call \ {s} : call'[t] = call[t]
    /\ RequestOK(call'[s], Made')
    /\ call[s].at # "idle"
    /\ Continues(s) \/ (s \in Stray /\ call'[s] = Idle)
    /\ IsVersions(version') /\ Made \subseteq Made'
    /\ \A v \in Made :
         \/ version'[v].edits = version[v].edits
         \/ Posts(call[s], "blueprint") /\ v = call[s].v /\ version'[v].edits = call[s].what
    /\ items' \in Nat \ {0}
    /\ UNCHANGED <<page, sheet, listed, overlapped, historyVars>>

LEMMA CheckServes ==
  ASSUME Shape, NEW s \in DOMAIN call, Check(s)
  PROVE  Served(s)
  <1>. DEFINE r == call[s]
              x == [r EXCEPT !.stage = "checked", !.what = IF r.kind = "assessment" THEN assessments + 1 ELSE @]
  <1>1. /\ call' = [call EXCEPT ![s] = IF ~Accepts(r) THEN Settled(s, Failed) ELSE x]
        /\ r.at = "post" /\ r.stage = "sent"
        /\ UNCHANGED <<version, items, edits, page, sheet, listed, overlapped, historyVars>>
    BY DEF Check
  <1>2. RequestOK(r, Made)
    BY DEF Shape
  <1>. DEFINE y == call'[s]
  <1>3. (s \in Stray /\ y = Idle) \/ y = Answered(r, Failed) \/ y = x
    BY <1>1 DEF Settled
  <1>4. \A t \in DOMAIN call \ {s} : call'[t] = call[t]
    BY <1>1
  <1>5. DOMAIN call' = DOMAIN call /\ Made' = Made
    BY <1>1 DEF Made
  <1>6. PostOK(r, Made) /\ IsPost(r)
    BY <1>1, <1>2, RequestKinds DEF PostOK
  <1>11. items' \in Nat \ {0} /\ IsVersions(version')
    BY <1>1 DEF Shape
  <1>12. CASE s \in Stray /\ y = Idle
    BY <1>1, <1>4, <1>5, <1>11, <1>12, IdleShape DEF Served
  <1>13. CASE y = Answered(r, Failed) \/ y = x
    <2>7. /\ IsPost(y) /\ y.at = "post" /\ y.kind = r.kind /\ y.v = r.v
          /\ y.kind # "assessment" => y.what = r.what
          /\ y.answer = Failed \/ y.answer = r.answer
      <3>1. CASE y = Answered(r, Failed)
        BY <3>1, <1>6, AnsweredPost
      <3>2. CASE y = x
        <4>. HIDE DEF r, y
        <4>. QED
          BY <3>2, <1>6, CheckedPost
      <3>. QED
        BY <1>13, <3>1, <3>2
    <2>8. y.answer.ok => y.answer = r.answer
      BY <2>7, IdleShape
    <2>. HIDE DEF x, y
    <2>9. RequestOK(y, Made)
      BY <1>6, <2>7, <2>8 DEF RequestOK, PostOK
    <2>10. Posts(r, "blueprint") /\ Saved(r) => Saved(r)'
      <3>1. SUFFICES ASSUME Posts(r, "blueprint"), Saved(r), y.answer.ok
                     PROVE  y.what \subseteq version'[y.v].edits
        BY DEF Saved, y
      <3>. QED
        BY <1>1, <2>7, <2>8, <3>1 DEF Saved, Posts
    <2>11. Continues(s)
      BY <1>1, <2>7, <2>10 DEF Continues, Posts, y
    <2>. QED
      BY <1>1, <1>4, <1>5, <1>11, <2>9, <2>11 DEF Served, y
  <1>. QED
    BY <1>3, <1>12, <1>13

LEMMA WriteServes ==
  ASSUME Shape, NEW s \in DOMAIN call, Write(s)
  PROVE  Served(s)
  <1>. DEFINE r == call[s]
              new == IF ItemsAfter(r) > items THEN items + 1 ELSE Len(version) + 1
              good == [ok |-> TRUE, new |-> new]
              y == call'[s]
  <1>1. /\ r.at = "post" /\ r.stage = "checked"
        /\ \/ version' = Written(r) /\ items' = ItemsAfter(r) /\ call' = [call EXCEPT ![s] = Settled(s, good)]
           \/ call' = [call EXCEPT ![s] = Settled(s, Failed)] /\ version' = version /\ items' = items
        /\ UNCHANGED <<page, sheet, listed, overlapped, historyVars>>
    BY DEF Write
  <1>2. RequestOK(r, Made) /\ IsVersions(version) /\ items \in Nat \ {0}
    BY DEF Shape
  <1>3. DOMAIN call' = DOMAIN call /\ \A t \in DOMAIN call \ {s} : call'[t] = call[t]
    BY <1>1
  <1>4. PostOK(r, Made) /\ IsPost(r) /\ r.kind \in Kinds
    BY <1>1, <1>2, RequestKinds DEF PostOK, IsPost
  <1>5. CASE version' = Written(r) /\ items' = ItemsAfter(r) /\ call' = [call EXCEPT ![s] = Settled(s, good)]
    <2>1. ((s \in Stray /\ y = Idle) \/ y = Answered(r, good)) /\ good.ok /\ good.new = new
      BY <1>5 DEF Settled
    <2>2. /\ IsVersions(version') /\ Made \subseteq Made'
          /\ r.kind \in {"clone", "assessment"} => Len(version) + 1 \in Made'
          /\ \A v \in Made :
               version'[v].edits = IF r.kind = "blueprint" /\ v = r.v THEN r.what ELSE version[v].edits
      BY <1>2, <1>4, <1>5, WrittenShape DEF Made
    <2>3. items' \in Nat \ {0} /\ (r.kind \in {"clone", "assessment"} => new = Len(version) + 1)
          /\ (r.kind = "item" => new # 1)
      BY <1>2, <1>5 DEF ItemsAfter
    <2>4. \A v \in Made :
            \/ version'[v].edits = version[v].edits
            \/ Posts(r, "blueprint") /\ v = r.v /\ version'[v].edits = r.what
      BY <2>2, <1>1 DEF Posts
    <2>. HIDE DEF new, good
    <2>5. CASE s \in Stray /\ y = Idle
      BY <1>1, <1>3, <2>2, <2>3, <2>4, <2>5, IdleShape DEF Served
    <2>6. CASE y = Answered(r, good)
      <3>1. IsPost(y) /\ y.at = "post" /\ y.kind = r.kind /\ y.v = r.v /\ y.what = r.what /\ y.answer = good
        BY <2>6, <1>4, AnsweredPost
      <3>2. RequestOK(y, Made')
        <4>. HIDE DEF y
        <4>. QED
          BY <1>4, <2>1, <2>2, <2>3, <3>1 DEF RequestOK, PostOK
      <3>3. Posts(r, "blueprint") /\ Saved(r) => Saved(r)'
        <4>1. SUFFICES ASSUME Posts(r, "blueprint") PROVE y.what \subseteq version'[y.v].edits
          BY DEF Saved
        <4>2. r.v \in Made
          BY <1>4, <4>1 DEF PostOK, Posts
        <4>. QED
          BY <2>2, <3>1, <4>1, <4>2 DEF Posts
      <3>4. Continues(s)
        BY <1>1, <3>1, <3>3 DEF Continues
      <3>. QED
        BY <1>1, <1>3, <2>2, <2>3, <2>4, <3>2, <3>4 DEF Served
    <2>. QED
      BY <2>1, <2>5, <2>6
  <1>6. CASE call' = [call EXCEPT ![s] = Settled(s, Failed)] /\ version' = version /\ items' = items
    <2>1. (s \in Stray /\ y = Idle) \/ y = Answered(r, Failed)
      BY <1>6 DEF Settled
    <2>2. Made' = Made
      BY <1>6 DEF Made
    <2>3. CASE s \in Stray /\ y = Idle
      BY <1>1, <1>2, <1>3, <1>6, <2>2, <2>3, IdleShape DEF Served
    <2>4. CASE y = Answered(r, Failed)
      <3>1. IsPost(y) /\ y.at = "post" /\ y.kind = r.kind /\ y.v = r.v /\ y.what = r.what /\ y.answer = Failed
        BY <2>4, <1>4, AnsweredPost
      <3>2. ~y.answer.ok
        BY <3>1, IdleShape
      <3>3. RequestOK(y, Made)
        <4>. HIDE DEF y
        <4>. QED
          BY <1>4, <3>1, <3>2 DEF RequestOK, PostOK
      <3>4. Saved(r)'
        BY <3>2 DEF Saved
      <3>5. Continues(s)
        BY <1>1, <3>1, <3>4 DEF Continues
      <3>. HIDE DEF y
      <3>. QED
        BY <1>1, <1>2, <1>3, <1>6, <2>2, <3>3, <3>5 DEF Served, y
    <2>. QED
      BY <2>1, <2>3, <2>4
  <1>. QED
    BY <1>1, <1>5, <1>6

LEMMA ReadServes ==
  ASSUME Shape, NEW s \in DOMAIN call, Read(s)
  PROVE  Served(s)
  <1>. DEFINE r == call[s]
              y == call'[s]
              a == IF r.at = "list" THEN Listing ELSE Detail(r.v)
  <1>1. /\ r.at \in {"list", "detail"}
        /\ call' = [call EXCEPT ![s] = Answered(r, a)]
        /\ UNCHANGED <<version, items, page, sheet, listed, overlapped, historyVars>>
    BY DEF Read, serverVars
  <1>2. RequestOK(r, Made) /\ IsVersions(version) /\ items \in Nat \ {0}
    BY DEF Shape
  <1>3. /\ DOMAIN call' = DOMAIN call /\ Made' = Made
        /\ \A t \in DOMAIN call \ {s} : call'[t] = call[t]
    BY <1>1 DEF Made
  <1>4. LoadOK(r, Made) /\ IsLoad(r)
    BY <1>1, <1>2, RequestKinds DEF LoadOK
  <1>5. y = Answered(r, a)
    BY <1>1
  <1>. HIDE DEF a
  <1>6. IsLoad(y) /\ y.at = r.at /\ y.v = r.v /\ y.answer = a
    BY <1>4, <1>5, AnsweredLoad
  <1>7. r.at = "detail" => a.id = r.v /\ a.edits = version[r.v].edits
    BY DEF a, Detail
  <1>8. r.at = "list" => DOMAIN a.known = Made
    BY DEF a, Listing
  <1>9. RequestOK(y, Made)
    <2>. HIDE DEF y
    <2>. QED
      BY <1>1, <1>4, <1>6, <1>7, <1>8 DEF RequestOK, LoadOK
  <1>10. ~Posts(r, "blueprint")
    BY <1>1 DEF Posts
  <1>11. Continues(s)
    BY <1>1, <1>6, <1>7, <1>10 DEF Continues
  <1>. HIDE DEF y
  <1>. QED
    BY <1>1, <1>2, <1>3, <1>9, <1>11 DEF Served, y

\* The page gives up a post whose handler goes on.
Abandons(s, g) ==
    /\ s \in Callers \ Stray /\ g \in Stray
    /\ call[g].at = "idle" /\ UnderWay(call[s])
    /\ DOMAIN call' = Callers
    /\ call'[s] = Answered(call[s], Failed) /\ call'[g] = call[s]
    /\ \A t \in Callers \ {s, g} : call'[t] = call[t]
    /\ UNCHANGED <<version, items, page, sheet, listed, overlapped, historyVars>>

Abandoned == \E s, g \in Callers : Abandons(s, g)

LEMMA LoseAnswerServes ==
  ASSUME Shape, NEW s \in DOMAIN call, LoseAnswer(s)
  PROVE  Served(s) \/ Abandoned
  <1>. DEFINE r == call[s]
              y == call'[s]
  <1>1. /\ r.at # "idle" /\ s \notin Stray
        /\ UNCHANGED <<version, items, page, sheet, listed, overlapped, historyVars>>
        /\ \/ call' = [call EXCEPT ![s] = Answered(r, Failed)]
           \/ /\ UnderWay(r)
              /\ \E g \in Stray : /\ call[g].at = "idle"
                                 /\ call' = [call EXCEPT ![s] = Answered(r, Failed), ![g] = r]
    BY DEF LoseAnswer, serverVars
  <1>2. RequestOK(r, Made) /\ IsVersions(version) /\ items \in Nat \ {0} /\ DOMAIN call = Callers
    BY DEF Shape
  <1>3. CASE call' = [call EXCEPT ![s] = Answered(r, Failed)]
    <2>1. /\ DOMAIN call' = DOMAIN call /\ Made' = Made
          /\ \A t \in DOMAIN call \ {s} : call'[t] = call[t]
      BY <1>1, <1>3 DEF Made
    <2>2. y = Answered(r, Failed)
      BY <1>3
    <2>3. (r.at \in {"list", "detail"} /\ LoadOK(r, Made) /\ IsLoad(r)) \/ (r.at = "post" /\ PostOK(r, Made) /\ IsPost(r))
      BY <1>1, <1>2, RequestKinds DEF LoadOK, PostOK
    <2>4. /\ y.at = r.at /\ y.v = r.v /\ y.answer = Failed /\ y.stage = "answered"
          /\ r.at = "post" => y.kind = r.kind /\ y.what = r.what
          /\ r.at # "post" => IsLoad(y)
          /\ r.at = "post" => IsPost(y)
      BY <2>2, <2>3, AnsweredLoad, AnsweredPost
    <2>5. ~y.answer.ok
      BY <2>4, IdleShape
    <2>6. RequestOK(y, Made)
      <3>. HIDE DEF y
      <3>. QED
        BY <2>3, <2>4, <2>5 DEF RequestOK, LoadOK, PostOK
    <2>7. Saved(r)'
      BY <2>5 DEF Saved
    <2>8. Continues(s)
      BY <2>4, <2>5, <2>7 DEF Continues
    <2>. HIDE DEF y
    <2>. QED
      BY <1>1, <1>2, <2>1, <2>6, <2>8 DEF Served, y
  <1>4. ASSUME UnderWay(r), NEW g \in Stray, call[g].at = "idle",
               call' = [call EXCEPT ![s] = Answered(r, Failed), ![g] = r]
        PROVE  Abandoned
    <2>1. s \in Callers \ Stray /\ g \in Callers /\ s # g
      BY <1>1, <1>2, <1>4, CallersApart
    <2>2. /\ DOMAIN call' = Callers /\ call'[s] = Answered(r, Failed) /\ call'[g] = r
          /\ \A t \in Callers \ {s, g} : call'[t] = call[t]
      BY <1>2, <1>4, <2>1
    <2>. QED
      BY <1>1, <1>4, <2>1, <2>2 DEF Abandoned, Abandons
  <1>. QED
    BY <1>1, <1>3, <1>4

-----------------------------------------------------------------------------
(***************************************************************************)
(* What the test builder does to its page and its requests.                *)
(***************************************************************************)
LEMMA FreeSlotIsIdle ==
  ASSUME NEW c, HasFreeSlot(c)
  PROVE  FreeSlot(c) \in Slot /\ c[FreeSlot(c)].at = "idle"
  BY DEF HasFreeSlot, FreeSlot

\* Requests to which loads of versions have been added.
Spawned(c, d) ==
    /\ DOMAIN d = DOMAIN c
    /\ \A s \in DOMAIN c :
         \/ d[s] = c[s]
         \/ s \in Slot /\ c[s].at = "idle" /\ \E v \in Made : d[s] = Load("detail", v, FALSE)

LEMMA SpawnShape ==
  ASSUME NEW c, DOMAIN c = Callers, NEW v, v # Unset => HasFreeSlot(c) /\ v \in Made
  PROVE  Spawned(c, Spawn(c, v))
  <1>1. CASE v = Unset
    BY <1>1 DEF Spawn, Spawned
  <1>2. CASE v # Unset
    <2>. DEFINE f == FreeSlot(c)
                load == Load("detail", v, FALSE)
    <2>1. f \in Slot /\ c[f].at = "idle"
      BY <1>2, FreeSlotIsIdle
    <2>2. Spawn(c, v) = [c EXCEPT ![f] = load] /\ v \in Made
      BY <1>2 DEF Spawn
    <2>. HIDE DEF f
    <2>. QED
      BY <2>1, <2>2 DEF Spawned
  <1>. QED
    BY <1>1, <1>2

LEMMA SpawnedTwice ==
  ASSUME NEW c, NEW d, NEW e, Spawned(c, d), Spawned(d, e)
  PROVE  Spawned(c, e)
  <1>1. DOMAIN e = DOMAIN c /\ DOMAIN d = DOMAIN c
    BY DEF Spawned
  <1>2. \A v : Load("detail", v, FALSE).at = "detail"
    BY DEF Load
  <1>3. ASSUME NEW s \in DOMAIN c
        PROVE  e[s] = c[s] \/ (s \in Slot /\ c[s].at = "idle" /\ \E v \in Made : e[s] = Load("detail", v, FALSE))
    BY <1>1, <1>2 DEF Spawned
  <1>. QED
    BY <1>1, <1>3 DEF Spawned

\* The version shown is one of those the lists have.
LEMMA ShownIsMade ==
  ASSUME IsVersions(version), NEW p, p.known \subseteq Made
  PROVE  ShownVersion(p) = Unset \/ ShownVersion(p) \in Made
  <1>1. Len(version) \in Nat /\ Made = 1..Len(version)
    BY VersionsShape DEF Made
  <1>2. VersionsOf(p) \subseteq Made
    BY DEF VersionsOf
  <1>3. VersionsOf(p) # {} => Max(VersionsOf(p)) \in VersionsOf(p)
    BY <1>1, <1>2, MaxOf
  <1>. QED
    BY <1>2, <1>3 DEF ShownVersion

OneAtATime == overlapped \/ \A s, t \in Slot : "idle" \in {call[s].at, call[t].at} \/ s = t

\* The history of overlaps goes on.
Recorded ==
    /\ overlapped' \in BOOLEAN
    /\ overlapped => overlapped'
    /\ OneAtATime'

LEMMA OverlapRecords ==
  ASSUME overlapped \in BOOLEAN, Overlap
  PROVE  Recorded
  BY DEF Overlap, Recorded, OneAtATime

Rendered(p, c) ==
    /\ PageOK(page', Made) /\ page'.detail = p.detail /\ page'.ids = p.ids
    /\ Spawned(c, call')
    /\ Recorded

LEMMA RenderShape ==
  ASSUME Shape, NEW p, PageOK(p, Made), NEW c, DOMAIN c = Callers, Render(p, c)
  PROVE  Rendered(p, c)
  <1>. DEFINE shown == ShownVersion(p)
              first == IF p.selected # page.selected THEN p.selected ELSE Unset
              second == IF shown # p.selected THEN shown ELSE Unset
              selected == IF shown = Unset THEN p.selected ELSE shown
              assessment == IF p.assessment = Unset /\ p.assessments > 0 THEN p.assessments ELSE p.assessment
  <1>1. /\ first # Unset => HasFreeSlot(c)
        /\ second # Unset => HasFreeSlot(Spawn(c, first))
        /\ page' = [p EXCEPT !.selected = selected, !.assessment = assessment]
        /\ call' = Spawn(Spawn(c, first), second)
        /\ Overlap
    BY DEF Render
  <1>2. IsPage(p) /\ p.known \subseteq Made /\ (p.selected = Unset \/ p.selected \in Made)
        /\ (p.detail = Unset \/ p.detail.id \in Made)
    BY DEF PageOK
  <1>3. shown = Unset \/ shown \in Made
    BY <1>2, ShownIsMade DEF Shape
  <1>. HIDE DEF shown
  <1>4. /\ first = Unset \/ first \in Made
        /\ second = Unset \/ second \in Made
        /\ selected = Unset \/ selected \in Made
    BY <1>2, <1>3
  <1>. HIDE DEF first, second, selected, assessment
  <1>5. Spawned(c, Spawn(c, first))
    BY <1>1, <1>4, SpawnShape
  <1>6. DOMAIN Spawn(c, first) = Callers
    BY <1>5 DEF Spawned
  <1>7. Spawned(Spawn(c, first), call')
    BY <1>1, <1>4, <1>6, SpawnShape
  <1>8. Spawned(c, call')
    BY <1>5, <1>7, SpawnedTwice
  <1>9. IsPage(page') /\ page'.selected = selected /\ page'.detail = p.detail /\ page'.ids = p.ids
        /\ page'.known = p.known
    BY <1>1, <1>2 DEF IsPage
  <1>10. PageOK(page', Made)
    BY <1>2, <1>4, <1>9 DEF PageOK
  <1>11. Recorded
    BY <1>1, OverlapRecords DEF Shape
  <1>. QED
    BY <1>8, <1>9, <1>10, <1>11 DEF Rendered

\* A request that has just begun to load, or none.
Fresh(r) == r.at # "post" /\ (r.at = "detail" => ~r.answer.ok)

\* An item of the selection: it was there, belongs to the version shown, or
\* has just been created.
Ticked(x) ==
    \/ x \in page.ids
    \/ page.detail # Unset /\ x[2] = page.detail.id
    \/ \E s \in Slot :
         Posts(call[s], "item") /\ call[s].answer.ok /\ x = <<call[s].answer.new, call[s].what>>

Acknowledges(s) ==
    Posts(call[s], "blueprint") /\ call[s].answer.ok /\ acknowledged' = acknowledged \cup ({call[s].v} \X call[s].what)

\* The page and the requests after a step that leaves the version it shows.
Turns ==
    /\ DOMAIN call' = Callers /\ \A t \in Callers \ Slot : call'[t] = call[t]
    /\ \A s \in Slot :
         /\ RequestOK(call'[s], Made)
         /\ call'[s] = call[s] \/ Fresh(call'[s])
         /\ call[s].at = "detail" => call'[s].at = "detail"
    /\ PageOK(page', Made) /\ page'.detail = page.detail
    /\ \A x \in page'.ids : Ticked(x)
    /\ Recorded

LEMMA RenderTurns ==
  ASSUME Shape, NEW p, PageOK(p, Made), p.detail = page.detail, \A x \in p.ids : Ticked(x),
         NEW c, DOMAIN c = Callers, \A t \in Callers \ Slot : c[t] = call[t],
         \A s \in Slot : /\ RequestOK(c[s], Made)
                         /\ c[s] = call[s] \/ Fresh(c[s])
                         /\ call[s].at = "detail" => c[s].at = "detail",
         Render(p, c)
  PROVE  Turns /\ \A s \in Slot : c[s].at = "detail" => call'[s].at = "detail"
  <1>1. Rendered(p, c)
    BY RenderShape
  <1>3. DOMAIN call' = Callers /\ \A t \in Callers \ Slot : call'[t] = call[t]
    BY <1>1 DEF Rendered, Spawned
  <1>4. ASSUME NEW s \in Slot
        PROVE  /\ RequestOK(call'[s], Made)
               /\ call'[s] = call[s] \/ Fresh(call'[s])
               /\ c[s].at = "detail" => call'[s].at = "detail"
    <2>1. call'[s] = c[s] \/ (c[s].at = "idle" /\ \E v \in Made : call'[s] = Load("detail", v, FALSE))
      BY <1>1 DEF Rendered, Spawned, Callers
    <2>2. CASE call'[s] = c[s]
      BY <2>2
    <2>3. CASE c[s].at = "idle" /\ \E v \in Made : call'[s] = Load("detail", v, FALSE)
      <3>1. PICK v \in Made : call'[s] = Load("detail", v, FALSE)
        BY <2>3
      <3>2. RequestOK(call'[s], Made) /\ call'[s].at = "detail" /\ ~call'[s].answer.ok
        <4>. DEFINE busy == FALSE
        <4>. HIDE DEF busy
        <4>1. call'[s] = Load("detail", v, busy)
          BY <3>1 DEF busy
        <4>. QED
          BY <4>1, LoadDetail
      <3>. QED
        BY <3>2 DEF Fresh
    <2>. QED
      BY <2>1, <2>2, <2>3
  <1>. QED
    BY <1>1, <1>3, <1>4 DEF Turns, Rendered

LEMMA ChooseTurns ==
  ASSUME Shape, NEW v \in Made, Choose(v)
  PROVE  Turns
  <1>. DEFINE p == [page EXCEPT !.selected = v]
  <1>1. Render(p, call)
    BY DEF Choose
  <1>2. PageOK(page, Made) /\ DOMAIN call = Callers /\ \A s \in Slot : RequestOK(call[s], Made)
    BY DEF Shape, Callers
  <1>3. PageOK(p, Made) /\ p.detail = page.detail /\ p.ids = page.ids
    BY <1>2 DEF PageOK, IsPage
  <1>. HIDE DEF p
  <1>. QED
    BY <1>1, <1>2, <1>3, RenderTurns DEF Ticked

LEMMA ChooseAssessmentTurns ==
  ASSUME Shape, NEW a, ChooseAssessment(a)
  PROVE  Turns
  <1>. DEFINE p == [page EXCEPT !.assessment = a, !.selected = Unset]
  <1>1. Render(p, call)
    BY DEF ChooseAssessment
  <1>2. PageOK(page, Made) /\ DOMAIN call = Callers /\ \A s \in Slot : RequestOK(call[s], Made)
    BY DEF Shape, Callers
  <1>3. PageOK(p, Made) /\ p.detail = page.detail /\ p.ids = page.ids
    BY <1>2 DEF PageOK, IsPage
  <1>. HIDE DEF p
  <1>. QED
    BY <1>1, <1>2, <1>3, RenderTurns DEF Ticked

LEMMA TickBoxTurns ==
  ASSUME Shape, OneAtATime, NEW i, TickBox(i)
  PROVE  Turns
  <1>1. /\ page.detail # Unset
        /\ page' = [page EXCEPT !.ids = IF \E v \in Made : <<i, v>> \in @ THEN {x \in @ : x[1] # i}
                                        ELSE @ \cup Tagged({i}, page.detail.id)]
        /\ UNCHANGED <<version, call, overlapped>>
    BY DEF TickBox, CanEdit, Shown, serverVars
  <1>2. PageOK(page, Made) /\ DOMAIN call = Callers /\ \A s \in Slot : RequestOK(call[s], Made)
    BY DEF Shape, Callers
  <1>. DEFINE ids == page'.ids
  <1>3. PageOK(page', Made) /\ page'.detail = page.detail
        /\ (ids = {x \in page.ids : x[1] # i} \/ ids = page.ids \cup Tagged({i}, page.detail.id))
    BY <1>1, <1>2 DEF PageOK, IsPage
  <1>4. \A x \in Tagged({i}, page.detail.id) : x[2] = page.detail.id
    BY DEF Tagged
  <1>5. \A x \in page'.ids : Ticked(x)
    BY <1>1, <1>3, <1>4 DEF Ticked
  <1>6. Recorded
    BY <1>1 DEF Recorded, OneAtATime, Shape
  <1>. QED
    BY <1>1, <1>2, <1>3, <1>5, <1>6 DEF Turns

LEMMA ListArrivesTurns ==
  ASSUME Shape, NEW s \in Slot, ListArrives(s)
  PROVE  Turns
  <1>. DEFINE r == call[s]
              q == IF r.answer.ok
                   THEN [page EXCEPT !.known = DOMAIN r.answer.known, !.assessments = r.answer.assessments]
                   ELSE page
              p == [q EXCEPT !.loading = FALSE, !.busy = @ /\ ~(r.busy /\ r.v = Unset)]
              next == IF r.v = Unset THEN Idle ELSE Load("detail", r.v, r.busy)
              c == [call EXCEPT ![s] = next]
  <1>1. r.at = "list" /\ Render(p, c)
    BY DEF ListArrives
  <1>2. /\ PageOK(page, Made) /\ DOMAIN call = Callers
        /\ \A t \in Slot : RequestOK(call[t], Made)
    BY DEF Shape, Callers
  <1>3. LoadOK(r, Made)
    BY <1>1, <1>2, RequestKinds
  <1>4. /\ r.v = Unset \/ r.v \in Made
        /\ r.answer.ok => DOMAIN r.answer.known \subseteq Made
    BY <1>1, <1>3 DEF LoadOK
  <1>5. PageOK(q, Made) /\ q.detail = page.detail /\ q.ids = page.ids
    BY <1>2, <1>4 DEF PageOK, IsPage
  <1>6. PageOK(p, Made) /\ p.detail = page.detail /\ p.ids = page.ids
    <2>. HIDE DEF q, r
    <2>. QED
      BY <1>5 DEF PageOK, IsPage
  <1>7. RequestOK(next, Made) /\ Fresh(next)
    BY <1>4, LoadDetail, IdleShape DEF Fresh
  <1>8. c[s] = next /\ DOMAIN c = Callers /\ (\A t \in Callers \ {s} : c[t] = call[t])
    BY <1>2 DEF Callers
  <1>9. Slot \subseteq Callers /\ \A t \in Callers \ Slot : c[t] = call[t]
    BY <1>8, CallersApart
  <1>. HIDE DEF p, c, next
  <1>10. \A t \in Slot : /\ RequestOK(c[t], Made)
                         /\ c[t] = call[t] \/ Fresh(c[t])
                         /\ call[t].at = "detail" => c[t].at = "detail"
    BY <1>1, <1>2, <1>7, <1>8, <1>9
  <1>11. \A x \in p.ids : Ticked(x)
    BY <1>6 DEF Ticked
  <1>. QED
    BY <1>1, <1>6, <1>8, <1>9, <1>10, <1>11, RenderTurns

\* What follows a post loads the version that was saved, or everything.
LEMMA FollowShape ==
  ASSUME NEW versions, NEW r, PostOK(r, versions), r.answer.ok
  PROVE  /\ RequestOK(Follow(r), versions) /\ Fresh(Follow(r))
         /\ r.kind \in {"blueprint", "items"} => Follow(r).at = "detail"
  <1>1. CASE r.kind \in {"blueprint", "items"}
    <2>. DEFINE busy == TRUE
    <2>1. Follow(r) = Load("detail", r.v, busy) /\ r.v \in versions
      BY <1>1 DEF Follow, PostOK
    <2>. HIDE DEF busy
    <2>. QED
      BY <2>1, LoadDetail DEF Fresh
  <1>2. CASE r.kind \notin {"blueprint", "items"}
    <2>. DEFINE busy == TRUE
                v == IF r.kind \in {"clone", "assessment"} THEN r.answer.new ELSE r.v
    <2>1. Follow(r) = Load("list", v, busy) /\ (v = Unset \/ v \in versions)
      BY <1>2 DEF Follow, PostOK
    <2>. HIDE DEF busy, v
    <2>. DEFINE load == Load("list", v, busy)
    <2>2. RequestOK(load, versions) /\ load.at = "list"
      BY <2>1, LoadShape, IdleShape DEF RequestOK, LoadOK
    <2>. QED
      BY <1>2, <2>1, <2>2 DEF Fresh
  <1>. QED
    BY <1>1, <1>2

LEMMA PostArrivesTurns ==
  ASSUME Shape, NEW s \in Slot, PostArrives(s)
  PROVE  /\ Turns
         /\ acknowledged' = acknowledged \/ (Acknowledges(s) /\ call'[s].at = "detail")
  <1>. DEFINE r == call[s]
              good == r.answer.ok
              q == [page EXCEPT !.loading = @ \/ Follow(r).at = "list"]
              after == CASE r.kind = "item" -> [q EXCEPT !.ids = @ \cup Tagged({r.answer.new}, r.what)]
                         [] r.kind = "clone" -> [q EXCEPT !.selected = r.answer.new]
                         [] r.kind = "assessment" -> [q EXCEPT !.assessment = r.what, !.selected = r.answer.new]
                         [] OTHER -> q
              p == IF ~good THEN [page EXCEPT !.busy = FALSE] ELSE after
              next == IF ~good THEN Idle ELSE Follow(r)
              c == [call EXCEPT ![s] = next]
  <1>1. r.at = "post" /\ Render(p, c) /\ Acknowledge(r)
    BY DEF PostArrives
  <1>2. /\ PageOK(page, Made) /\ DOMAIN call = Callers
        /\ \A t \in Slot : RequestOK(call[t], Made)
    BY DEF Shape, Callers
  <1>3. PostOK(r, Made) /\ r.kind \in Kinds
    BY <1>1, <1>2, RequestKinds DEF PostOK, IsPost
  <1>4. r.kind \in {"clone", "assessment"} /\ good => r.answer.new \in Made
    BY <1>3 DEF PostOK
  <1>5. PageOK(q, Made) /\ q.detail = page.detail /\ q.ids = page.ids
    BY <1>2 DEF PageOK, IsPage
  <1>6. ASSUME good
        PROVE  PageOK(after, Made) /\ after.detail = page.detail /\ \A x \in after.ids : Ticked(x)
    <2>. HIDE DEF q
    <2>1. CASE r.kind = "item"
      <3>1. after = [q EXCEPT !.ids = @ \cup Tagged({r.answer.new}, r.what)]
        BY <2>1
      <3>. HIDE DEF after
      <3>2. PageOK(after, Made) /\ after.detail = page.detail
            /\ after.ids = page.ids \cup Tagged({r.answer.new}, r.what)
        BY <1>5, <3>1 DEF PageOK, IsPage
      <3>3. \A x \in Tagged({r.answer.new}, r.what) : x = <<r.answer.new, r.what>>
        BY DEF Tagged
      <3>4. \A x \in Tagged({r.answer.new}, r.what) : Ticked(x)
        BY <1>1, <1>6, <2>1, <3>3 DEF Ticked, Posts
      <3>. QED
        BY <3>2, <3>4 DEF Ticked
    <2>2. CASE r.kind = "clone"
      <3>1. after = [q EXCEPT !.selected = r.answer.new]
        BY <2>2
      <3>. HIDE DEF after
      <3>2. PageOK(after, Made) /\ after.detail = page.detail /\ after.ids = page.ids
        BY <1>4, <1>5, <1>6, <2>2, <3>1 DEF PageOK, IsPage
      <3>. QED
        BY <3>2 DEF Ticked
    <2>3. CASE r.kind = "assessment"
      <3>1. after = [q EXCEPT !.assessment = r.what, !.selected = r.answer.new]
        BY <2>3
      <3>. HIDE DEF after
      <3>2. PageOK(after, Made) /\ after.detail = page.detail /\ after.ids = page.ids
        BY <1>4, <1>5, <1>6, <2>3, <3>1 DEF PageOK, IsPage
      <3>. QED
        BY <3>2 DEF Ticked
    <2>4. CASE r.kind \notin {"item", "clone", "assessment"}
      <3>1. after = q
        BY <2>4
      <3>. HIDE DEF after
      <3>. QED
        BY <1>5, <3>1 DEF Ticked
    <2>. QED
      BY <2>1, <2>2, <2>3, <2>4
  <1>7. ASSUME ~good
        PROVE  PageOK(p, Made) /\ p.detail = page.detail /\ p.ids = page.ids
    <2>1. p = [page EXCEPT !.busy = FALSE]
      BY <1>7
    <2>. HIDE DEF p
    <2>. QED
      BY <1>2, <2>1 DEF PageOK, IsPage
  <1>8. PageOK(p, Made) /\ p.detail = page.detail /\ \A x \in p.ids : Ticked(x)
    <2>1. CASE good
      <3>. HIDE DEF after
      <3>1. p = after
        BY <2>1
      <3>. QED
        BY <1>6, <2>1, <3>1
    <2>2. CASE ~good
      <3>. HIDE DEF p
      <3>. QED
        BY <1>7, <2>2 DEF Ticked
    <2>. QED
      BY <2>1, <2>2
  <1>9. RequestOK(next, Made) /\ Fresh(next) /\ (good /\ r.kind = "blueprint" => next.at = "detail")
    BY <1>3, FollowShape, IdleShape DEF Fresh
  <1>10. c[s] = next /\ DOMAIN c = Callers /\ (\A t \in Callers \ {s} : c[t] = call[t])
    BY <1>2 DEF Callers
  <1>11. Slot \subseteq Callers /\ \A t \in Callers \ Slot : c[t] = call[t]
    BY <1>10, CallersApart
  <1>12. acknowledged' = acknowledged \/ Acknowledges(s)
    BY <1>1 DEF Acknowledge, Acknowledges, Posts
  <1>. HIDE DEF p, c, next
  <1>13. \A t \in Slot : /\ RequestOK(c[t], Made)
                         /\ c[t] = call[t] \/ Fresh(c[t])
                         /\ call[t].at = "detail" => c[t].at = "detail"
    BY <1>1, <1>2, <1>9, <1>10, <1>11
  <1>14. Turns /\ (c[s].at = "detail" => call'[s].at = "detail")
    BY <1>1, <1>8, <1>10, <1>11, <1>13, RenderTurns
  <1>. QED
    BY <1>9, <1>10, <1>12, <1>14 DEF Acknowledges, Posts

\* The version that was asked for is shown, or none.
Arrives(s) ==
    /\ DOMAIN call' = Callers /\ call'[s] = Idle /\ \A t \in Callers \ {s} : call'[t] = call[t]
    /\ call[s].at = "detail"
    /\ PageOK(page', Made)
    /\ \/ call[s].answer.ok /\ page'.detail = call[s].answer /\ \A x \in page'.ids : x[2] = call[s].answer.id
       \/ page'.detail = Unset /\ page'.ids = page.ids
    /\ Recorded

LEMMA DetailArrivesShape ==
  ASSUME Shape, OneAtATime, NEW s \in Slot, DetailArrives(s)
  PROVE  Arrives(s)
  <1>. DEFINE r == call[s]
              good == r.answer.ok
              p == IF r.answer.ok THEN WithDetail(page, r.answer) ELSE [page EXCEPT !.detail = Unset]
  <1>1. /\ r.at = "detail"
        /\ page' = [p EXCEPT !.busy = @ /\ ~r.busy]
        /\ call' = [call EXCEPT ![s] = Idle]
        /\ UNCHANGED overlapped
    BY DEF DetailArrives
  <1>2. PageOK(page, Made) /\ DOMAIN call = Callers /\ s \in Callers /\ RequestOK(r, Made)
    BY DEF Shape, Callers
  <1>3. LoadOK(r, Made)
    BY <1>1, <1>2, RequestKinds
  <1>4. good => r.answer.id = r.v /\ r.v \in Made
    BY <1>1, <1>3 DEF LoadOK
  <1>5. CASE good
    <2>1. p = WithDetail(page, r.answer)
      BY <1>5
    <2>. HIDE DEF p
    <2>2. PageOK(p, Made) /\ p.detail = r.answer /\ p.ids = Tagged(r.answer.items, r.answer.id)
      BY <1>2, <1>4, <1>5, <2>1 DEF PageOK, IsPage, WithDetail
    <2>3. PageOK(page', Made) /\ page'.detail = r.answer /\ page'.ids = Tagged(r.answer.items, r.answer.id)
      BY <1>1, <2>2 DEF PageOK, IsPage
    <2>4. \A x \in page'.ids : x[2] = r.answer.id
      BY <2>3 DEF Tagged
    <2>5. Recorded
      BY <1>1, <1>2, IdleShape DEF Recorded, OneAtATime, Shape, Callers
    <2>. QED
      BY <1>1, <1>2, <1>5, <2>3, <2>4, <2>5 DEF Arrives
  <1>6. CASE ~good
    <2>1. p = [page EXCEPT !.detail = Unset]
      BY <1>6
    <2>. HIDE DEF p
    <2>2. PageOK(p, Made) /\ p.detail = Unset /\ p.ids = page.ids
      BY <1>2, <2>1 DEF PageOK, IsPage
    <2>3. PageOK(page', Made) /\ page'.detail = Unset /\ page'.ids = page.ids
      BY <1>1, <2>2 DEF PageOK, IsPage
    <2>4. Recorded
      BY <1>1, <1>2, IdleShape DEF Recorded, OneAtATime, Shape, Callers
    <2>. QED
      BY <1>1, <1>2, <2>3, <2>4 DEF Arrives
  <1>. QED
    BY <1>5, <1>6

\* A post is sent from a slot that was free, and the page only waits.
Sends(s, r) ==
    /\ DOMAIN call' = Callers /\ call[s].at = "idle" /\ call'[s] = r
    /\ \A t \in Callers \ {s} : call'[t] = call[t]
    /\ PageOK(page', Made) /\ page'.detail = page.detail /\ page'.ids = page.ids
    /\ Recorded

LEMMA SendShape ==
  ASSUME Shape, NEW r, Send(r)
  PROVE  \E s \in Slot : Sends(s, r)
  <1>. DEFINE s == FreeSlot(call)
  <1>1. s \in Slot /\ call[s].at = "idle"
    BY FreeSlotIsIdle DEF Send
  <1>2. page' = [page EXCEPT !.busy = TRUE] /\ call' = [call EXCEPT ![s] = r] /\ Overlap
    BY DEF Send
  <1>. HIDE DEF s
  <1>3. PageOK(page, Made) /\ DOMAIN call = Callers /\ s \in Callers
    BY <1>1 DEF Shape, Callers
  <1>4. PageOK(page', Made) /\ page'.detail = page.detail /\ page'.ids = page.ids
    BY <1>2, <1>3 DEF PageOK, IsPage
  <1>5. Recorded
    BY <1>2, OverlapRecords DEF Shape
  <1>. QED
    BY <1>1, <1>2, <1>3, <1>4, <1>5 DEF Sends

-----------------------------------------------------------------------------
(***************************************************************************)
(* The steps of the three pages, by what they do.                          *)
(***************************************************************************)
BuilderOnly == UNCHANGED <<version, items, sheet, listed>>

Turned ==
    /\ Turns /\ BuilderOnly /\ UNCHANGED saverVars
    /\ acknowledged' = acknowledged \/ \E s \in Slot : Acknowledges(s) /\ call'[s].at = "detail"

Arrived == BuilderOnly /\ UNCHANGED historyVars /\ \E s \in Slot : Arrives(s)

\* The builder is opened again.
Opened ==
    /\ BuilderOnly /\ UNCHANGED <<overlapped, historyVars>>
    /\ DOMAIN call' = Callers /\ \A t \in Callers \ Slot : call'[t] = call[t]
    /\ \A s \in Slot : RequestOK(call'[s], Made) /\ Fresh(call'[s])
    /\ PageOK(page', Made) /\ page'.detail = Unset
    /\ OneAtATime'

\* What the builder posts comes from the version it shows.
PostOfPage(r) ==
    /\ RequestOK(r, Made) /\ r.at = "post" /\ ~r.answer.ok
    /\ IF r.kind = "blueprint"
       THEN /\ page.detail # Unset /\ r.v = page.detail.id /\ page.detail.edits \subseteq r.what
            /\ Saves("builder")
       ELSE UNCHANGED saverVars
    /\ r.kind = "items" => page.detail # Unset /\ r.v = page.detail.id /\ r.what = page.ids
    /\ r.kind = "item" => r.what = page.detail.id

Sent ==
    /\ BuilderOnly /\ UNCHANGED acknowledged
    /\ \E s \in Slot : Sends(s, call'[s]) /\ PostOfPage(call'[s])

LEMMA SentBy ==
  ASSUME Shape, NEW r, Send(r), PostOfPage(r), UNCHANGED acknowledged
  PROVE  Sent
  <1>1. PICK s \in Slot : Sends(s, r)
    BY SendShape
  <1>2. call'[s] = r
    BY <1>1 DEF Sends
  <1>3. BuilderOnly
    BY DEF Send, serverVars, BuilderOnly
  <1>. QED
    BY <1>1, <1>2, <1>3 DEF Sent

LEMMA ShownIsKnown ==
  ASSUME Shape, page.detail # Unset
  PROVE  page.detail.id \in Made
  BY DEF Shape, PageOK

LEMMA FirstCalls ==
  ASSUME NEW s, NEW versions
  PROVE  /\ RequestOK(FirstCall(s), versions) /\ Fresh(FirstCall(s))
         /\ FirstCall(s).at \in {"idle", "list"} /\ (s # 1 => FirstCall(s).at = "idle")
  <1>. DEFINE load == Load("list", Unset, FALSE)
  <1>1. RequestOK(load, versions) /\ load.at = "list"
    BY DEF Load, RequestOK, LoadOK, IsLoad, Failed
  <1>2. FirstCall(s) = IF s = 1 THEN load ELSE Idle
    BY DEF FirstCall
  <1>. HIDE DEF load
  <1>4. CASE s = 1
    <2>1. FirstCall(s) = load
      BY <1>2, <1>4
    <2>. QED
      BY <1>1, <1>4, <2>1 DEF Fresh
  <1>5. CASE s # 1
    <2>1. FirstCall(s) = Idle
      BY <1>2, <1>5
    <2>. QED
      BY <2>1, IdleShape DEF Fresh
  <1>. QED
    BY <1>4, <1>5

LEMMA NewPageShape ==
  ASSUME NEW versions
  PROVE  PageOK(NewPage, versions) /\ NewPage.detail = Unset
  BY DEF NewPage, PageOK, IsPage

LEMMA OpenBuilderShape ==
  ASSUME Shape, OpenBuilder
  PROVE  Opened
  <1>1. /\ page' = NewPage /\ UNCHANGED <<version, items, sheet, listed, overlapped, historyVars>>
        /\ call' = [s \in DOMAIN call |-> IF s \in Slot THEN FirstCall(s) ELSE call[s]]
        /\ DOMAIN call = Callers
    BY DEF OpenBuilder, serverVars, Shape
  <1>2. /\ DOMAIN call' = Callers /\ \A t \in Callers \ Slot : call'[t] = call[t]
        /\ \A s \in Slot : call'[s] = FirstCall(s)
    BY <1>1, CallersApart
  <1>3. \A s \in Slot : RequestOK(call'[s], Made) /\ Fresh(call'[s])
    BY <1>2, FirstCalls
  <1>4. PageOK(page', Made) /\ page'.detail = Unset
    BY <1>1, NewPageShape
  <1>5. ASSUME NEW s \in Slot, s # 1
        PROVE  call'[s].at = "idle"
    <2>1. FirstCall(s).at = "idle"
      BY <1>5 DEF FirstCall, Idle
    <2>2. call'[s] = FirstCall(s)
      BY <1>2
    <2>. QED
      BY <2>1, <2>2
  <1>6. OneAtATime'
    BY <1>5 DEF OneAtATime
  <1>. QED
    BY <1>1, <1>2, <1>3, <1>4, <1>6 DEF Opened, BuilderOnly

LEMMA BuilderSteps ==
  ASSUME Shape, OneAtATime, BuilderStep
  PROVE  Turned \/ Arrived \/ Sent \/ Opened
  <1>1. ASSUME NEW v \in Made, Choose(v) PROVE Turned
    BY <1>1, ChooseTurns DEF Choose, Turned, BuilderOnly, serverVars, historyVars
  <1>2. ASSUME NEW a, ChooseAssessment(a) PROVE Turned
    BY <1>2, ChooseAssessmentTurns DEF ChooseAssessment, Turned, BuilderOnly, serverVars, historyVars
  <1>3. ASSUME NEW i, TickBox(i) PROVE Turned
    BY <1>3, TickBoxTurns DEF TickBox, Turned, BuilderOnly, serverVars, historyVars
  <1>4. ASSUME NEW s \in Slot, ListArrives(s) PROVE Turned
    BY <1>4, ListArrivesTurns DEF ListArrives, Turned, BuilderOnly, serverVars, historyVars
  <1>5. ASSUME NEW s \in Slot, PostArrives(s) PROVE Turned
    <2>1. BuilderOnly /\ UNCHANGED saverVars
      BY <1>5 DEF PostArrives, BuilderOnly, serverVars
    <2>. QED
      BY <1>5, <2>1, PostArrivesTurns DEF Turned
  <1>6. ASSUME NEW s \in Slot, DetailArrives(s) PROVE Arrived
    BY <1>6, DetailArrivesShape DEF DetailArrives, Arrived, BuilderOnly, serverVars
  <1>7. CASE SaveBlueprint
    <2>. DEFINE r == Post("blueprint", page.detail.id, Edited)
    <2>1. /\ page.detail # Unset /\ Send(r) /\ UNCHANGED acknowledged
          /\ Saves("builder")
      BY <1>7 DEF SaveBlueprint, CanEdit, Shown
    <2>2. RequestOK(r, Made) /\ ~r.answer.ok /\ page.detail.id \in Made
      BY <2>1, ShownIsKnown, PostStarts DEF Kinds
    <2>3. r.at = "post" /\ r.kind = "blueprint" /\ r.v = page.detail.id /\ r.what = Edited
      BY PostShape DEF Kinds
    <2>. HIDE DEF r
    <2>4. PostOfPage(r)
      BY <2>1, <2>2, <2>3 DEF PostOfPage, Edited
    <2>. QED
      BY <2>1, <2>4, SentBy
  <1>8. CASE PersistItemOrder
    <2>. DEFINE r == Post("items", page.detail.id, page.ids)
    <2>1. page.detail # Unset /\ Send(r) /\ UNCHANGED <<saverVars, acknowledged>>
      BY <1>8 DEF PersistItemOrder, CanEdit, Shown, historyVars
    <2>2. RequestOK(r, Made) /\ ~r.answer.ok /\ page.detail.id \in Made
      BY <2>1, ShownIsKnown, PostStarts DEF Kinds
    <2>3. r.at = "post" /\ r.kind = "items" /\ r.v = page.detail.id /\ r.what = page.ids
      BY PostShape DEF Kinds
    <2>. HIDE DEF r
    <2>4. PostOfPage(r)
      BY <2>1, <2>2, <2>3 DEF PostOfPage
    <2>. QED
      BY <2>1, <2>4, SentBy
  <1>9. ASSUME NEW kind \in {"item", "copy"}, CreateItem(kind) PROVE Sent
    <2>. DEFINE r == Post(kind, page.selected, page.detail.id)
    <2>1. Send(r) /\ UNCHANGED <<saverVars, acknowledged>>
      BY <1>9 DEF CreateItem, historyVars
    <2>2. page.selected = Unset \/ page.selected \in Made
      BY DEF Shape, PageOK
    <2>3. kind \in Kinds /\ kind \notin {"blueprint", "items"}
      BY DEF Kinds
    <2>4. r.at = "post" /\ r.kind = kind /\ r.v = page.selected /\ r.what = page.detail.id
          /\ RequestOK(r, Made) /\ ~r.answer.ok
      BY <2>2, <2>3, PostShape, IdleShape DEF RequestOK, PostOK
    <2>. HIDE DEF r
    <2>5. PostOfPage(r)
      BY <2>1, <2>3, <2>4 DEF PostOfPage
    <2>. QED
      BY <2>1, <2>5, SentBy
  <1>10. CASE CreateAssessment
    <2>. DEFINE r == Post("assessment", Unset, Unset)
    <2>1. Send(r) /\ UNCHANGED <<saverVars, acknowledged>>
      BY <1>10 DEF CreateAssessment, historyVars
    <2>2. r.at = "post" /\ r.kind = "assessment" /\ RequestOK(r, Made) /\ ~r.answer.ok
      BY PostShape, IdleShape DEF RequestOK, PostOK, Kinds
    <2>. HIDE DEF r
    <2>3. PostOfPage(r)
      BY <2>1, <2>2 DEF PostOfPage
    <2>. QED
      BY <2>1, <2>3, SentBy
  <1>11. CASE CloneVersion
    <2>. DEFINE r == Post("clone", page.detail.id, Unset)
    <2>1. page.detail # Unset /\ Send(r) /\ UNCHANGED <<saverVars, acknowledged>>
      BY <1>11 DEF CloneVersion, CanClone, Shown, historyVars
    <2>2. page.detail.id \in Made
      BY <2>1, ShownIsKnown
    <2>3. r.at = "post" /\ r.kind = "clone" /\ RequestOK(r, Made) /\ ~r.answer.ok
      BY <2>2, PostShape, IdleShape DEF RequestOK, PostOK, Kinds
    <2>. HIDE DEF r
    <2>4. PostOfPage(r)
      BY <2>1, <2>3 DEF PostOfPage
    <2>. QED
      BY <2>1, <2>4, SentBy
  <1>12. ASSUME NEW to, Workflow(to) PROVE Sent
    <2>. DEFINE r == Post("workflow", page.detail.id, to)
    <2>1. page.detail # Unset /\ Send(r) /\ UNCHANGED <<saverVars, acknowledged>>
      BY <1>12 DEF Workflow, Shown, historyVars
    <2>2. page.detail.id \in Made
      BY <2>1, ShownIsKnown
    <2>3. r.at = "post" /\ r.kind = "workflow" /\ RequestOK(r, Made) /\ ~r.answer.ok
      BY <2>2, PostShape, IdleShape DEF RequestOK, PostOK, Kinds
    <2>. HIDE DEF r
    <2>4. PostOfPage(r)
      BY <2>1, <2>3 DEF PostOfPage
    <2>. QED
      BY <2>1, <2>4, SentBy
  <1>. QED
    BY <1>1, <1>2, <1>3, <1>4, <1>5, <1>6, <1>7, <1>8, <1>9, <1>10, <1>11, <1>12, OpenBuilderShape DEF BuilderStep

\* What the other pages leave alone.
OfCaller(k) ==
    /\ DOMAIN call' = Callers /\ RequestOK(call'[k], Made)
    /\ \A t \in Callers \ {k} : call'[t] = call[t]
    /\ UNCHANGED <<version, items, page, overlapped>>

\* The detail page opens a version, hears an answer, saves its text or
\* sends something else of the version it shows.
SheetOpens == sheet'.detail = Unset /\ Fresh(call'[0]) /\ UNCHANGED historyVars

SheetHears ==
    /\ Fresh(call'[0]) /\ UNCHANGED saverVars
    /\ \/ /\ UNCHANGED sheet
          /\ UNCHANGED acknowledged \/ Acknowledges(0)
       \/ /\ UNCHANGED acknowledged
          /\ call[0].at = "detail" /\ call[0].answer.ok
          /\ sheet'.detail = call[0].answer /\ sheet'.draft = call[0].answer.edits

SheetSaves ==
    /\ sheet.detail # Unset /\ sheet'.detail = sheet.detail /\ sheet.draft \subseteq sheet'.draft
    /\ Posts(call'[0], "blueprint") /\ call'[0].v = sheet.detail.id /\ call'[0].what = sheet'.draft
    /\ ~call'[0].answer.ok
    /\ Saves("sheet") /\ UNCHANGED acknowledged

SheetSendsOther ==
    /\ sheet'.detail = sheet.detail /\ sheet'.draft = sheet.draft
    /\ call'[0].at = "post" /\ call'[0].kind # "blueprint"
    /\ UNCHANGED historyVars

SheetMoves ==
    /\ OfCaller(0) /\ UNCHANGED listed
    /\ IsSheet(sheet') /\ (sheet'.detail = Unset \/ sheet'.detail.id \in Made)
    /\ call'[0].at = "post" => call'[0].v \in Made
    /\ SheetOpens \/ SheetHears \/ SheetSaves \/ SheetSendsOther

LEMMA SheetSendsShape ==
  ASSUME Shape, NEW r, SheetSends(r), RequestOK(r, Made)
  PROVE  OfCaller(0) /\ call'[0] = r
  BY DEF Shape, SheetSends, OfCaller, Callers, serverVars

LEMMA SheetSteps ==
  ASSUME Shape, SheetStep
  PROVE  SheetMoves
  <1>. DEFINE d == sheet.detail
  <1>0. /\ IsSheet(sheet) /\ (d = Unset \/ d.id \in Made)
        /\ DOMAIN call = Callers /\ 0 \in Callers /\ RequestOK(call[0], Made)
        /\ call[0].at = "post" => call[0].v \in Made
    BY DEF Shape, Callers
  <1>1. ASSUME NEW v \in Made, OpenSheet(v) PROVE SheetMoves
    <2>. DEFINE busy == TRUE
                r == Load("detail", v, busy)
    <2>. HIDE DEF busy
    <2>1. RequestOK(r, Made) /\ r.at = "detail" /\ ~r.answer.ok
      BY LoadDetail
    <2>2. /\ sheet' = [detail |-> Unset, draft |-> {}, ids |-> {}]
          /\ call' = [call EXCEPT ![0] = r]
          /\ UNCHANGED <<version, items, page, listed, overlapped, historyVars>>
      BY <1>1 DEF OpenSheet, serverVars, busy
    <2>. HIDE DEF r
    <2>3. call'[0] = r /\ DOMAIN call' = Callers /\ \A t \in Callers \ {0} : call'[t] = call[t]
      BY <1>0, <2>2
    <2>4. IsSheet(sheet') /\ sheet'.detail = Unset
      BY <2>2 DEF IsSheet
    <2>. QED
      BY <2>1, <2>2, <2>3, <2>4 DEF SheetMoves, OfCaller, SheetOpens, Fresh
  <1>2. CASE SheetArrives
    <2>. DEFINE r == call[0]
                busy == TRUE
                next == IF r.at = "post" /\ r.answer.ok THEN Load("detail", r.v, busy) ELSE Idle
                hears == r.at = "detail" /\ r.answer.ok
    <2>1. /\ call' = [call EXCEPT ![0] = next]
          /\ sheet' = IF hears
                      THEN [detail |-> r.answer, draft |-> r.answer.edits, ids |-> Tagged(r.answer.items, r.v)] ELSE sheet
          /\ IF r.at = "post" THEN Acknowledge(r) ELSE UNCHANGED acknowledged
          /\ UNCHANGED <<version, items, page, listed, overlapped, saverVars>>
      BY <1>2 DEF SheetArrives, serverVars
    <2>. HIDE DEF busy
    <2>2. RequestOK(next, Made) /\ Fresh(next)
      BY <1>0, LoadDetail, IdleShape DEF Fresh
    <2>. HIDE DEF next
    <2>3. call'[0] = next /\ DOMAIN call' = Callers /\ \A t \in Callers \ {0} : call'[t] = call[t]
      BY <1>0, <2>1
    <2>4. OfCaller(0) /\ Fresh(call'[0])
      BY <2>1, <2>2, <2>3 DEF OfCaller
    <2>5. CASE hears
      <3>1. /\ sheet'.detail = r.answer /\ sheet'.draft = r.answer.edits /\ IsSheet(sheet')
            /\ UNCHANGED acknowledged
        BY <2>1, <2>5 DEF IsSheet
      <3>2. LoadOK(r, Made)
        BY <1>0, <2>5, RequestKinds
      <3>3. r.answer.id \in Made
        BY <2>5, <3>2 DEF LoadOK
      <3>. QED
        BY <2>1, <2>4, <2>5, <3>1, <3>3 DEF SheetMoves, SheetHears, Fresh
    <2>6. CASE ~hears
      <3>1. sheet' = sheet
        BY <2>1, <2>6
      <3>2. UNCHANGED acknowledged \/ Acknowledges(0)
        BY <2>1 DEF Acknowledge, Acknowledges, Posts
      <3>. QED
        BY <1>0, <2>1, <2>4, <3>1, <3>2 DEF SheetMoves, SheetHears, Fresh
    <2>. QED
      BY <2>5, <2>6
  <1>3. CASE SaveDraft
    <2>. DEFINE e == edits + 1
                draft == sheet'.draft
                r == Post("blueprint", sheet.detail.id, sheet'.draft)
    <2>1. /\ d # Unset /\ sheet' = [sheet EXCEPT !.draft = @ \cup {e}]
          /\ SheetSends(r) /\ Saves("sheet")
      BY <1>3 DEF SaveDraft, SheetEditable
    <2>2. /\ IsSheet(sheet') /\ sheet'.detail = d /\ sheet.draft \subseteq sheet'.draft
      BY <1>0, <2>1 DEF IsSheet
    <2>3. RequestOK(r, Made) /\ ~r.answer.ok
      BY <1>0, <2>1, PostStarts DEF Kinds
    <2>4. Posts(r, "blueprint") /\ r.v = sheet.detail.id /\ r.what = sheet'.draft
      BY PostShape DEF Kinds, Posts
    <2>. HIDE DEF r, e
    <2>5. OfCaller(0) /\ call'[0] = r
      BY <2>1, <2>3, SheetSendsShape
    <2>6. UNCHANGED <<listed, acknowledged>>
      BY <2>1 DEF SheetSends
    <2>. QED
      BY <1>0, <2>1, <2>2, <2>3, <2>4, <2>5, <2>6 DEF SheetMoves, SheetSaves
  <1>4. ASSUME NEW i, SaveItemLinks(i) PROVE SheetMoves
    <2>. DEFINE ticked == Toggled(i)
                r == Post("items", sheet.detail.id, sheet'.ids)
    <2>1. /\ d # Unset /\ sheet' = [sheet EXCEPT !.ids = ticked]
          /\ SheetSends(r) /\ UNCHANGED saverVars
      BY <1>4 DEF SaveItemLinks, SheetEditable
    <2>. HIDE DEF ticked
    <2>2. /\ IsSheet(sheet') /\ sheet'.detail = d /\ sheet.draft = sheet'.draft
      BY <1>0, <2>1 DEF IsSheet
    <2>3. RequestOK(r, Made)
      BY <1>0, <2>1, PostStarts DEF Kinds
    <2>4. r.at = "post" /\ r.kind = "items" /\ r.v = sheet.detail.id
      BY PostShape DEF Kinds
    <2>. HIDE DEF r
    <2>5. OfCaller(0) /\ call'[0] = r
      BY <2>1, <2>3, SheetSendsShape
    <2>6. UNCHANGED <<listed, acknowledged>>
      BY <2>1 DEF SheetSends
    <2>. QED
      BY <1>0, <2>1, <2>2, <2>4, <2>5, <2>6 DEF SheetMoves, SheetSendsOther, historyVars
  <1>5. ASSUME NEW to, RunAction(to) PROVE SheetMoves
    <2>. DEFINE r == Post("workflow", sheet.detail.id, to)
    <2>1. d # Unset /\ SheetSends(r) /\ UNCHANGED <<sheet, saverVars>>
      BY <1>5 DEF RunAction
    <2>2. RequestOK(r, Made)
      BY <1>0, <2>1, PostStarts DEF Kinds
    <2>3. r.at = "post" /\ r.kind = "workflow" /\ r.v = sheet.detail.id
      BY PostShape DEF Kinds
    <2>. HIDE DEF r
    <2>4. OfCaller(0) /\ call'[0] = r
      BY <2>1, <2>2, SheetSendsShape
    <2>5. UNCHANGED <<listed, acknowledged>>
      BY <2>1 DEF SheetSends
    <2>. QED
      BY <1>0, <2>1, <2>3, <2>4, <2>5 DEF SheetMoves, SheetSendsOther, historyVars
  <1>. QED
    BY <1>1, <1>2, <1>3, <1>4, <1>5 DEF SheetStep

ConsoleMoves ==
    /\ OfCaller(-1) /\ UNCHANGED <<sheet, historyVars>>
    /\ DOMAIN listed' \subseteq Made
    /\ ~Posts(call'[-1], "blueprint")

LEMMA LoadEverything ==
  ASSUME NEW versions
  PROVE  LET r == Load("list", Unset, TRUE)
         IN  RequestOK(r, versions) /\ r.at = "list"
  BY DEF Load, RequestOK, LoadOK, IsLoad, Failed

LEMMA ConsoleSendsShape ==
  ASSUME Shape, NEW r, ConsoleSends(r), RequestOK(r, Made), ~Posts(r, "blueprint")
  PROVE  ConsoleMoves
  <1>1. /\ call' = [call EXCEPT ![-1] = r] /\ DOMAIN call = Callers /\ -1 \in Callers
        /\ UNCHANGED <<version, items, page, sheet, listed, overlapped, historyVars>>
        /\ DOMAIN listed \subseteq Made
    BY DEF Shape, ConsoleSends, Callers, serverVars
  <1>2. call'[-1] = r /\ DOMAIN call' = Callers /\ \A t \in Callers \ {-1} : call'[t] = call[t]
    BY <1>1
  <1>. QED
    BY <1>1, <1>2 DEF ConsoleMoves, OfCaller

LEMMA ConsoleSteps ==
  ASSUME Shape, ConsoleStep
  PROVE  ConsoleMoves
  <1>0. /\ DOMAIN call = Callers /\ -1 \in Callers /\ RequestOK(call[-1], Made)
        /\ DOMAIN listed \subseteq Made
    BY DEF Shape, Callers
  <1>1. CASE OpenConsole
    <2>. DEFINE r == Load("list", Unset, TRUE)
    <2>1. RequestOK(r, Made) /\ ~Posts(r, "blueprint")
      BY LoadEverything DEF Posts
    <2>2. /\ listed' = <<>> /\ call' = [call EXCEPT ![-1] = r]
          /\ UNCHANGED <<version, items, page, sheet, overlapped, historyVars>>
      BY <1>1 DEF OpenConsole, serverVars
    <2>. HIDE DEF r
    <2>3. call'[-1] = r /\ DOMAIN call' = Callers /\ \A t \in Callers \ {-1} : call'[t] = call[t]
      BY <1>0, <2>2
    <2>4. DOMAIN listed' \subseteq Made
      BY <2>2
    <2>. QED
      BY <2>1, <2>2, <2>3, <2>4 DEF ConsoleMoves, OfCaller
  <1>2. CASE ConsoleCreatesAssessment
    <2>. DEFINE r == Post("assessment", Unset, Unset)
    <2>1. RequestOK(r, Made) /\ ~Posts(r, "blueprint")
      BY PostShape, IdleShape DEF RequestOK, PostOK, Kinds, Posts
    <2>2. ConsoleSends(r)
      BY <1>2 DEF ConsoleCreatesAssessment
    <2>. HIDE DEF r
    <2>. QED
      BY <2>1, <2>2, ConsoleSendsShape
  <1>3. CASE BankCreatesItem
    <2>. DEFINE r == Post("copy", Unset, Unset)
    <2>1. RequestOK(r, Made) /\ ~Posts(r, "blueprint")
      BY PostShape, IdleShape DEF RequestOK, PostOK, Kinds, Posts
    <2>2. ConsoleSends(r)
      BY <1>3 DEF BankCreatesItem
    <2>. HIDE DEF r
    <2>. QED
      BY <2>1, <2>2, ConsoleSendsShape
  <1>4. ASSUME NEW v \in DOMAIN listed, ActOnListed(v) PROVE ConsoleMoves
    <2>1. PICK r \in ActionsFor(v) : ConsoleSends(r)
      BY <1>4 DEF ActOnListed
    <2>2. v \in Made
      BY <1>0
    <2>3. CASE \E to \in DOMAIN EDITORIAL_TRANSITIONS : r = Post("workflow", v, to)
      <3>1. PICK to : r = Post("workflow", v, to)
        BY <2>3
      <3>2. RequestOK(r, Made) /\ ~Posts(r, "blueprint")
        BY <2>2, <3>1, PostShape, IdleShape DEF RequestOK, PostOK, Kinds, Posts
      <3>. QED
        BY <2>1, <3>2, ConsoleSendsShape
    <2>4. CASE r = Post("clone", v, Unset)
      <3>1. RequestOK(r, Made) /\ ~Posts(r, "blueprint")
        BY <2>2, <2>4, PostShape, IdleShape DEF RequestOK, PostOK, Kinds, Posts
      <3>. QED
        BY <2>1, <3>1, ConsoleSendsShape
    <2>. QED
      BY <2>1, <2>3, <2>4 DEF ActionsFor
  <1>5. CASE ConsoleArrives
    <2>. DEFINE r == call[-1]
                next == IF r.at = "post" /\ r.answer.ok THEN Load("list", Unset, TRUE) ELSE Idle
    <2>1. /\ listed' = IF r.at = "list" /\ r.answer.ok THEN r.answer.known ELSE listed
          /\ call' = [call EXCEPT ![-1] = next]
          /\ UNCHANGED <<version, items, page, sheet, overlapped, historyVars>>
      BY <1>5 DEF ConsoleArrives, serverVars
    <2>2. RequestOK(next, Made) /\ ~Posts(next, "blueprint")
      BY LoadEverything, IdleShape DEF Posts
    <2>3. r.at = "list" /\ r.answer.ok => DOMAIN r.answer.known \subseteq Made
      <3>1. r.at = "list" => LoadOK(r, Made)
        BY <1>0, RequestKinds
      <3>. QED
        BY <3>1 DEF LoadOK
    <2>. HIDE DEF next
    <2>4. call'[-1] = next /\ DOMAIN call' = Callers /\ \A t \in Callers \ {-1} : call'[t] = call[t]
      BY <1>0, <2>1
    <2>5. DOMAIN listed' \subseteq Made
      BY <1>0, <2>1, <2>3
    <2>. QED
      BY <2>1, <2>2, <2>4, <2>5 DEF ConsoleMoves, OfCaller
  <1>. QED
    BY <1>1, <1>2, <1>3, <1>4, <1>5 DEF ConsoleStep

LEMMA StepsOfPages ==
  ASSUME Shape, OneAtATime, BuilderNext
  PROVE  \/ Turned \/ Arrived \/ Sent \/ Opened \/ SheetMoves \/ ConsoleMoves \/ Abandoned
         \/ \E s \in DOMAIN call : Served(s)
  BY BuilderSteps, SheetSteps, ConsoleSteps, CheckServes, WriteServes, ReadServes, LoseAnswerServes DEF BuilderNext

\* A step of the server keeps every request where it is.
LEMMA ServedStays ==
  ASSUME NEW s \in DOMAIN call, Served(s), NEW t \in DOMAIN call
  PROVE  /\ t \notin Stray => call'[t].at = call[t].at
         /\ t \notin Stray => (call[t].at # "idle" => call'[t].v = call[t].v)
         /\ \A kind : Posts(call'[t], kind) => Posts(call[t], kind) /\ call'[t].v = call[t].v
  <1>1. CASE t = s /\ Continues(s)
    BY <1>1 DEF Continues, Posts
  <1>2. CASE t = s /\ s \in Stray /\ call'[s] = Idle
    BY <1>2, IdleShape DEF Posts
  <1>3. CASE t # s
    <2>1. call'[t] = call[t]
      BY <1>3 DEF Served
    <2>. QED
      BY <2>1
  <1>. QED
    BY <1>1, <1>2, <1>3 DEF Served

\* What a post is that has been given up.
LEMMA AbandonedPost ==
  ASSUME Shape, NEW s, NEW g, Abandons(s, g)
  PROVE  /\ RequestOK(call'[s], Made)
         /\ call[s].at = "post" /\ call'[s].at = "post" /\ call'[s].kind = call[s].kind
         /\ call'[s].v = call[s].v /\ call'[s].what = call[s].what
         /\ call'[s].stage = "answered" /\ ~call'[s].answer.ok
  <1>. DEFINE r == call[s]
              y == call'[s]
  <1>1. r.at = "post" /\ y = Answered(r, Failed)
    BY DEF Abandons, UnderWay
  <1>2. RequestOK(r, Made)
    BY DEF Shape, Abandons
  <1>3. PostOK(r, Made) /\ IsPost(r)
    BY <1>1, <1>2, RequestKinds DEF PostOK
  <1>4. /\ IsPost(y) /\ y.at = "post" /\ y.kind = r.kind /\ y.v = r.v /\ y.what = r.what
        /\ y.stage = "answered" /\ y.answer = Failed
    BY <1>1, <1>3, AnsweredPost
  <1>5. ~y.answer.ok
    BY <1>4, IdleShape
  <1>. HIDE DEF y
  <1>6. RequestOK(y, Made)
    BY <1>3, <1>4, <1>5 DEF RequestOK, PostOK
  <1>. QED
    BY <1>1, <1>4, <1>5, <1>6 DEF y

LEMMA ShapeStep ==
  ASSUME Shape, OneAtATime, [BuilderNext]_builderVars
  PROVE  Shape' /\ OneAtATime'
  <1>0. /\ DOMAIN call = Callers /\ Slot \subseteq Callers /\ {-1, 0} \subseteq Callers \ Slot /\ -1 # 0
        /\ Slot \cap Stray = {} /\ 0 \notin Stray
        /\ \A s \in DOMAIN call : RequestOK(call[s], Made)
    BY CallersApart DEF Shape
  <1>1. CASE Turned
    <2>1. /\ UNCHANGED <<version, items, sheet, listed, Made>> /\ PageOK(page', Made)
          /\ DOMAIN call' = Callers /\ \A t \in Callers \ Slot : call'[t] = call[t]
          /\ \A s \in Slot : RequestOK(call'[s], Made)
          /\ Recorded
      BY <1>1 DEF Turned, Turns, BuilderOnly, Made
    <2>2. \A s \in Callers : RequestOK(call'[s], Made)
      BY <1>0, <2>1
    <2>. QED
      BY <1>0, <2>1, <2>2 DEF Shape, Recorded
  <1>2. CASE Arrived
    <2>1. PICK s \in Slot : Arrives(s)
      BY <1>2 DEF Arrived
    <2>2. /\ UNCHANGED <<version, items, sheet, listed, Made>> /\ PageOK(page', Made)
          /\ DOMAIN call' = Callers /\ call'[s] = Idle /\ \A t \in Callers \ {s} : call'[t] = call[t]
          /\ Recorded
      BY <1>2, <2>1 DEF Arrived, Arrives, BuilderOnly, Made
    <2>3. \A t \in Callers : RequestOK(call'[t], Made)
      BY <1>0, <2>2, IdleShape
    <2>4. call'[0] = call[0]
      BY <1>0, <2>2
    <2>. QED
      BY <1>0, <2>2, <2>3, <2>4 DEF Shape, Recorded
  <1>3. CASE Sent
    <2>1. PICK s \in Slot : Sends(s, call'[s]) /\ PostOfPage(call'[s])
      BY <1>3 DEF Sent
    <2>2. /\ UNCHANGED <<version, items, sheet, listed, Made>> /\ PageOK(page', Made)
          /\ DOMAIN call' = Callers /\ RequestOK(call'[s], Made) /\ \A t \in Callers \ {s} : call'[t] = call[t]
          /\ Recorded
      BY <1>3, <2>1 DEF Sent, Sends, PostOfPage, BuilderOnly, Made
    <2>3. \A t \in Callers : RequestOK(call'[t], Made)
      BY <1>0, <2>2
    <2>4. call'[0] = call[0]
      BY <1>0, <2>2
    <2>. QED
      BY <1>0, <2>2, <2>3, <2>4 DEF Shape, Recorded
  <1>4. CASE SheetMoves
    <2>1. /\ UNCHANGED <<version, items, page, listed, overlapped, Made>>
          /\ DOMAIN call' = Callers /\ RequestOK(call'[0], Made) /\ \A t \in Callers \ {0} : call'[t] = call[t]
          /\ IsSheet(sheet') /\ (sheet'.detail = Unset \/ sheet'.detail.id \in Made)
          /\ call'[0].at = "post" => call'[0].v \in Made
      BY <1>4 DEF SheetMoves, OfCaller, Made
    <2>2. \A t \in Callers : RequestOK(call'[t], Made)
      BY <1>0, <2>1
    <2>3. \A t \in Slot : call'[t] = call[t]
      BY <1>0, <2>1
    <2>. QED
      BY <1>0, <2>1, <2>2, <2>3 DEF Shape, OneAtATime
  <1>5. CASE ConsoleMoves
    <2>1. /\ UNCHANGED <<version, items, page, sheet, overlapped, Made>>
          /\ DOMAIN call' = Callers /\ RequestOK(call'[-1], Made) /\ \A t \in Callers \ {-1} : call'[t] = call[t]
          /\ DOMAIN listed' \subseteq Made
      BY <1>5 DEF ConsoleMoves, OfCaller, Made
    <2>2. \A t \in Callers : RequestOK(call'[t], Made)
      BY <1>0, <2>1
    <2>3. call'[0] = call[0] /\ \A t \in Slot : call'[t] = call[t]
      BY <1>0, <2>1
    <2>. QED
      BY <1>0, <2>1, <2>2, <2>3 DEF Shape, OneAtATime
  <1>6. ASSUME NEW s \in DOMAIN call, Served(s) PROVE Shape' /\ OneAtATime'
    <2>1. /\ UNCHANGED <<page, sheet, listed, overlapped>> /\ items' \in Nat \ {0}
          /\ IsVersions(version') /\ Made \subseteq Made'
          /\ DOMAIN call' = Callers /\ RequestOK(call'[s], Made')
          /\ \A t \in DOMAIN call \ {s} : call'[t] = call[t]
      BY <1>0, <1>6 DEF Served
    <2>2. \A t \in Callers : RequestOK(call'[t], Made')
      BY <1>0, <2>1, MoreVersions
    <2>3. PageOK(page', Made')
      BY <2>1, MoreVersions DEF Shape
    <2>4. \A t \in Callers \ Stray : call'[t].at = call[t].at /\ (call[t].at # "idle" => call'[t].v = call[t].v)
      BY <1>0, <1>6, ServedStays
    <2>5. call'[0].at = "post" => call'[0].v \in Made'
      BY <1>0, <2>1, <2>4 DEF Shape
    <2>6. (sheet'.detail = Unset \/ sheet'.detail.id \in Made') /\ IsSheet(sheet') /\ DOMAIN listed' \subseteq Made'
      BY <2>1 DEF Shape
    <2>7. OneAtATime'
      BY <1>0, <2>1, <2>4 DEF OneAtATime
    <2>. QED
      BY <1>0, <2>1, <2>2, <2>3, <2>5, <2>6, <2>7 DEF Shape
  <1>7. CASE UNCHANGED builderVars
    BY <1>7 DEF builderVars, serverVars, Shape, OneAtATime, Made
  <1>8. CASE Opened
    <2>1. /\ UNCHANGED <<version, items, sheet, listed, overlapped, Made>> /\ PageOK(page', Made)
          /\ DOMAIN call' = Callers /\ \A t \in Callers \ Slot : call'[t] = call[t]
          /\ \A s \in Slot : RequestOK(call'[s], Made)
          /\ OneAtATime'
      BY <1>8 DEF Opened, BuilderOnly, Made
    <2>2. \A s \in Callers : RequestOK(call'[s], Made)
      BY <1>0, <2>1
    <2>. QED
      BY <1>0, <2>1, <2>2 DEF Shape
  <1>9. ASSUME NEW s \in Callers, NEW g \in Callers, Abandons(s, g) PROVE Shape' /\ OneAtATime'
    <2>1. /\ UNCHANGED <<version, items, page, sheet, listed, overlapped, Made>>
          /\ DOMAIN call' = Callers /\ call'[g] = call[s] /\ \A t \in Callers \ {s, g} : call'[t] = call[t]
          /\ s \notin Stray /\ g \in Stray
      BY <1>9 DEF Abandons, Made
    <2>2. RequestOK(call'[s], Made) /\ call'[s].at = call[s].at /\ call'[s].v = call[s].v
      BY <1>0, <1>9, AbandonedPost
    <2>3. \A t \in Callers : RequestOK(call'[t], Made)
      BY <1>0, <2>1, <2>2
    <2>4. \A t \in Callers \ Stray : call'[t].at = call[t].at /\ call'[t].v = call[t].v
      BY <2>1, <2>2
    <2>5. call'[0].at = "post" => call'[0].v \in Made'
      BY <1>0, <2>1, <2>4 DEF Shape
    <2>6. OneAtATime'
      BY <1>0, <2>1, <2>4 DEF OneAtATime
    <2>. QED
      BY <1>0, <2>1, <2>3, <2>5, <2>6 DEF Shape
  <1>. QED
    BY <1>1, <1>2, <1>3, <1>4, <1>5, <1>6, <1>7, <1>8, <1>9, StepsOfPages DEF Abandoned

LEMMA ShapeInitially ==
  ASSUME BuilderInit
  PROVE  Shape /\ OneAtATime
  <1>. DEFINE first == [NewVersion(1, {}) EXCEPT !.status = "PUBLISHED", !.items = {1}]
              second == NewVersion(1, {})
  <1>1. IsVersion(first) /\ IsVersion(second)
    BY DEF NewVersion, IsVersion
  <1>2. version = <<first, second>>
    BY DEF BuilderInit
  <1>. HIDE DEF first, second
  <1>3. Made = {1, 2} /\ version[1] = first /\ version[2] = second
    BY <1>2 DEF Made
  <1>4. version \in Seq({first, second})
    BY <1>2
  <1>5. IsVersions(version)
    <2>. DEFINE S == {first, second}
    <2>1. version \in Seq(S)
      BY <1>4
    <2>. HIDE DEF S
    <2>2. version \in Seq({version[i] : i \in DOMAIN version})
      BY <2>1, SeqOfItsOwn
    <2>. QED
      BY <1>1, <1>3, <2>2 DEF IsVersions, Made
  <1>6. /\ page = NewPage
        /\ sheet = [detail |-> Unset, draft |-> {}, ids |-> {}] /\ listed = <<>>
        /\ items = 1 /\ overlapped = FALSE
        /\ call = [s \in Callers |-> FirstCall(s)]
    BY DEF BuilderInit, Callers
  <1>7. PageOK(page, Made) /\ IsSheet(sheet) /\ sheet.detail = Unset
    BY <1>6, NewPageShape DEF IsSheet
  <1>9. DOMAIN call = Callers /\ \A s \in DOMAIN call : call[s] = FirstCall(s)
    BY <1>6
  <1>10. DOMAIN listed = {}
    BY <1>6
  <1>11. OneAtATime
    <2>1. ASSUME NEW s \in Slot, s # 1 PROVE call[s].at = "idle"
      <3>1. call[s] = FirstCall(s)
        BY <1>9 DEF Callers
      <3>2. FirstCall(s) = Idle
        BY <2>1 DEF FirstCall
      <3>. QED
        BY <3>1, <3>2, IdleShape
    <2>. QED
      BY <2>1 DEF OneAtATime
  <1>12. items \in Nat \ {0} /\ overlapped \in BOOLEAN
    <2>1. items = 1
      BY <1>6
    <2>2. overlapped = FALSE
      BY <1>6
    <2>3. items \in Nat \ {0}
      BY <2>1
    <2>. QED
      BY <2>2, <2>3
  <1>13. \A s \in DOMAIN call : RequestOK(call[s], Made)
    BY <1>9, FirstCalls
  <1>14. call[0].at # "post"
    BY <1>9, FirstCalls, CallersApart
  <1>. QED
    BY <1>5, <1>7, <1>9, <1>10, <1>11, <1>12, <1>13, <1>14 DEF Shape

-----------------------------------------------------------------------------
(***************************************************************************)
(* No edit is lost.  What a page sends, and what it will build the next    *)
(* blueprint from, has all the edits of that version that a page was told  *)
(* are saved: while the builder has one request under way, what it shows   *)
(* while it loads nothing, what it loads, and what it saves; on the detail *)
(* page its text and what it loads.  That the other page does not save     *)
(* meanwhile is what keeps it so; and that no blueprint is sent while the  *)
(* handler of a post that was given up still has one to write.             *)
(***************************************************************************)
AckedIn(v, e) == \A x \in acknowledged : x[1] = v => x[2] \in e

SaversAreKnown ==
    /\ savers \subseteq {"builder", "sheet"}
    /\ \A s \in Slot : Posts(call[s], "blueprint") => "builder" \in savers
    /\ Posts(call[0], "blueprint") => "sheet" \in savers
    /\ ~Posts(call[-1], "blueprint")

SlotKeepsUp(r) ==
    /\ Posts(r, "blueprint") => AckedIn(r.v, r.what) /\ Saved(r)
    /\ r.at = "detail" /\ r.answer.ok => AckedIn(r.v, r.answer.edits)

BuilderKeepsUp ==
    overlapped \/ outrun \/ "sheet" \in savers \/
       /\ \A s \in Slot : SlotKeepsUp(call[s])
       /\ page.detail # Unset /\ (\A s \in Slot : call[s].at # "detail")
            => AckedIn(page.detail.id, page.detail.edits)

SheetKeepsUp ==
    overlapped \/ outrun \/ "builder" \in savers \/
       /\ Posts(call[0], "blueprint") =>
            sheet.detail # Unset /\ call[0].v = sheet.detail.id /\ call[0].what = sheet.draft /\ Saved(call[0])
       /\ call[0].at = "detail" /\ call[0].answer.ok => AckedIn(call[0].v, call[0].answer.edits)
       /\ sheet.detail # Unset => AckedIn(sheet.detail.id, sheet.draft)

Undisturbed == ~overlapped /\ ~outrun /\ savers # {"builder", "sheet"}

\* What a handler will still write has what was acknowledged, and nothing
\* will be while it runs: the post it comes from is lost.
StraysKeepUp ==
    Undisturbed => \A g \in Stray : Posts(call[g], "blueprint") =>
        /\ AckedIn(call[g].v, call[g].what)
        /\ \A t \in Callers \ Stray :
             Posts(call[t], "blueprint") => call[t].stage = "answered" /\ ~call[t].answer.ok

SavedEdits == Undisturbed => \A x \in acknowledged : x[1] \in Made /\ x[2] \in version[x[1]].edits

SavingInv == SaversAreKnown /\ BuilderKeepsUp /\ SheetKeepsUp /\ StraysKeepUp /\ SavedEdits

\* One of the two pages does not save.
LEMMA OneSaver ==
  ASSUME SaversAreKnown, Undisturbed
  PROVE  "builder" \notin savers \/ "sheet" \notin savers
  BY DEF SaversAreKnown, Undisturbed

\* The blueprint of a page that saves; there is one at most.
LEMMA PostedKeepsUp ==
  ASSUME SavingInv, Undisturbed, NEW s \in Callers \ Stray, Posts(call[s], "blueprint")
  PROVE  AckedIn(call[s].v, call[s].what) /\ Saved(call[s])
  <1>0. SaversAreKnown /\ BuilderKeepsUp /\ SheetKeepsUp /\ ~overlapped /\ ~outrun
    BY DEF SavingInv, Undisturbed
  <1>1. s \in Slot \/ s = 0
    BY <1>0 DEF SaversAreKnown, Callers
  <1>2. CASE s \in Slot
    <2>1. "sheet" \notin savers
      BY <1>0, <1>2, OneSaver DEF SaversAreKnown
    <2>. QED
      BY <1>0, <1>2, <2>1 DEF BuilderKeepsUp, SlotKeepsUp
  <1>3. CASE s = 0
    <2>1. "builder" \notin savers
      BY <1>0, <1>3, OneSaver DEF SaversAreKnown
    <2>2. call[s].v = sheet.detail.id /\ call[s].what = sheet.draft /\ Saved(call[s])
          /\ AckedIn(sheet.detail.id, sheet.draft)
      BY <1>0, <1>3, <2>1 DEF SheetKeepsUp
    <2>. QED
      BY <2>2
  <1>. QED
    BY <1>1, <1>2, <1>3

LEMMA OneBlueprint ==
  ASSUME OneAtATime, SaversAreKnown, Undisturbed, NEW s \in Callers \ Stray, NEW t \in Callers \ Stray,
         Posts(call[s], "blueprint"), Posts(call[t], "blueprint")
  PROVE  s = t
  <1>1. (s \in Slot \/ s = 0) /\ (t \in Slot \/ t = 0)
    BY DEF SaversAreKnown, Callers
  <1>2. CASE s \in Slot /\ t \in Slot
    BY <1>2 DEF OneAtATime, Posts, Undisturbed
  <1>3. ~((s \in Slot /\ t = 0) \/ (s = 0 /\ t \in Slot))
    BY OneSaver DEF SaversAreKnown
  <1>. QED
    BY <1>1, <1>2, <1>3

\* The handlers go on as they were, with nothing acknowledged and nothing
\* sent to write, unless there is none that has a blueprint.
LEMMA StraysStep ==
  ASSUME StraysKeepUp, Undisturbed' => Undisturbed, \A g \in Stray : call'[g] = call[g],
         \/ /\ acknowledged' = acknowledged
            /\ \A t \in Callers \ Stray : Posts(call'[t], "blueprint") => call'[t] = call[t]
         \/ Undisturbed' => \A g \in Stray : ~Posts(call[g], "blueprint")
  PROVE  StraysKeepUp'
  BY DEF StraysKeepUp, AckedIn, Posts

LEMMA SavedWhatIsMade ==
  ASSUME Shape, NEW s \in DOMAIN call, Posts(call[s], "blueprint")
  PROVE  call[s].v \in Made
  BY RequestKinds DEF Shape, Posts, PostOK

LEMMA ServedSaving ==
  ASSUME Shape, OneAtATime, SavingInv, NEW s \in DOMAIN call, Served(s)
  PROVE  SavingInv'
  <1>0. /\ DOMAIN call = Callers /\ DOMAIN call' = DOMAIN call
        /\ UNCHANGED <<page, sheet, overlapped, savers, outrun, acknowledged>>
        /\ SaversAreKnown /\ BuilderKeepsUp /\ SheetKeepsUp /\ StraysKeepUp /\ SavedEdits
        /\ Made \subseteq Made' /\ (Undisturbed' <=> Undisturbed)
    BY DEF Shape, Served, SavingInv, historyVars, saverVars, Undisturbed
  <1>. DEFINE Waiting == Callers \ Stray
  <1>00. Slot \subseteq Waiting /\ {-1, 0} \subseteq Waiting
    BY CallersApart
  <1>1. \A v, e : AckedIn(v, e)' <=> AckedIn(v, e)
    BY <1>0 DEF AckedIn
  <1>2. \A t \in DOMAIN call :
          /\ t \in Waiting => call'[t].at = call[t].at
          /\ Posts(call'[t], "blueprint") => Posts(call[t], "blueprint") /\ call'[t].v = call[t].v /\ call'[t].what = call[t].what
    <2>1. ASSUME NEW t \in DOMAIN call, Posts(call'[t], "blueprint")
          PROVE  Posts(call[t], "blueprint") /\ call'[t].v = call[t].v /\ call'[t].what = call[t].what
      <3>1. Posts(call[t], "blueprint") /\ call'[t].v = call[t].v
        BY <2>1, ServedStays
      <3>2. CASE t = s
        <4>1. call'[s] # Idle
          BY <2>1, <3>2, IdleShape DEF Posts
        <4>. QED
          BY <3>1, <3>2, <4>1 DEF Served, Continues, Posts
      <3>3. CASE t # s
        BY <3>1, <3>3 DEF Served
      <3>. QED
        BY <3>2, <3>3
    <2>2. ASSUME NEW t \in DOMAIN call, t \in Waiting PROVE call'[t].at = call[t].at
      BY <2>2, ServedStays
    <2>. QED
      BY <2>1, <2>2
  <1>3. SaversAreKnown'
    BY <1>0, <1>00, <1>2 DEF SaversAreKnown
  <1>4. \A v \in Made :
          \/ version'[v].edits = version[v].edits
          \/ Posts(call[s], "blueprint") /\ v = call[s].v /\ version'[v].edits = call[s].what
    BY DEF Served
  \* A version is read: it has the edits that were acknowledged.
  <1>5. ASSUME Undisturbed, NEW t \in Waiting, call'[t].at = "detail", call'[t].answer.ok,
               t # s => AckedIn(call[t].v, call[t].answer.edits)
        PROVE  AckedIn(call'[t].v, call'[t].answer.edits)
    <2>1. CASE t = s
      <3>1. call'[t].answer.edits = version[call[t].v].edits /\ call'[t].v = call[t].v
        BY <1>5, <2>1 DEF Served, Continues
      <3>2. AckedIn(call[t].v, version[call[t].v].edits)
        BY <1>0, <1>5 DEF SavedEdits, AckedIn
      <3>. QED
        BY <3>1, <3>2
    <2>2. CASE t # s
      BY <1>0, <1>5, <2>2 DEF Served
    <2>. QED
      BY <2>1, <2>2
  \* A blueprint stays saved while no other is written.
  <1>6. ASSUME NEW t \in Waiting, Posts(call[t], "blueprint"), Saved(call[t]),
               t # s => ~Posts(call[s], "blueprint") \/ ~call[t].answer.ok
        PROVE  Saved(call[t])'
    <2>1. CASE t = s
      BY <1>6, <2>1 DEF Served, Continues
    <2>2. CASE t # s
      <3>1. call'[t] = call[t] /\ call[t].v \in Made
        BY <1>0, <1>6, <2>2, SavedWhatIsMade DEF Served
      <3>2. CASE ~Posts(call[s], "blueprint")
        <4>1. version'[call[t].v].edits = version[call[t].v].edits
          BY <1>4, <3>1, <3>2
        <4>. QED
          BY <1>6, <3>1, <4>1 DEF Saved
      <3>3. CASE ~call[t].answer.ok
        BY <3>1, <3>3 DEF Saved
      <3>. QED
        BY <1>6, <2>2, <3>2, <3>3
    <2>. QED
      BY <2>1, <2>2
  <1>7. BuilderKeepsUp'
    <2>1. SUFFICES ASSUME ~overlapped', ~outrun', "sheet" \notin savers'
                   PROVE  /\ \A t \in Slot :
                               /\ Posts(call'[t], "blueprint") => AckedIn(call'[t].v, call'[t].what) /\ Saved(call[t])'
                               /\ call'[t].at = "detail" /\ call'[t].answer.ok => AckedIn(call'[t].v, call'[t].answer.edits)
                          /\ page.detail # Unset /\ (\A t \in Slot : call'[t].at # "detail")
                               => AckedIn(page.detail.id, page.detail.edits)
      BY <1>0, <1>1 DEF BuilderKeepsUp, SlotKeepsUp
    <2>2. /\ \A t \in Slot :
               /\ Posts(call[t], "blueprint") => AckedIn(call[t].v, call[t].what) /\ Saved(call[t])
               /\ call[t].at = "detail" /\ call[t].answer.ok => AckedIn(call[t].v, call[t].answer.edits)
          /\ page.detail # Unset /\ (\A t \in Slot : call[t].at # "detail")
               => AckedIn(page.detail.id, page.detail.edits)
      BY <1>0, <2>1 DEF BuilderKeepsUp, SlotKeepsUp
    <2>3. Undisturbed
      BY <1>0, <2>1 DEF Undisturbed
    <2>4. ASSUME NEW t \in Slot, Posts(call'[t], "blueprint")
          PROVE  AckedIn(call'[t].v, call'[t].what) /\ Saved(call[t])'
      <3>1. t \in DOMAIN call /\ Posts(call[t], "blueprint") /\ call'[t].v = call[t].v /\ call'[t].what = call[t].what
        BY <1>0, <1>00, <1>2, <2>4
      <3>2. t # s => ~Posts(call[s], "blueprint") \/ ~call[t].answer.ok
        <4>1. CASE s \in Stray
          BY <1>0, <1>00, <2>3, <3>1, <4>1 DEF StraysKeepUp
        <4>2. CASE s \notin Stray
          BY <1>0, <1>00, <2>3, <3>1, <4>2, OneBlueprint
        <4>. QED
          BY <4>1, <4>2
      <3>. QED
        BY <1>00, <1>6, <2>2, <3>1, <3>2
    <2>5. ASSUME NEW t \in Slot, call'[t].at = "detail", call'[t].answer.ok
          PROVE  AckedIn(call'[t].v, call'[t].answer.edits)
      <3>1. t # s => call'[t] = call[t]
        BY <1>0, <1>00 DEF Served
      <3>. QED
        BY <1>00, <1>5, <2>2, <2>3, <2>5, <3>1
    <2>6. (\A t \in Slot : call'[t].at # "detail") => \A t \in Slot : call[t].at # "detail"
      BY <1>0, <1>00, <1>2
    <2>. QED
      BY <2>2, <2>4, <2>5, <2>6
  <1>8. SheetKeepsUp'
    <2>1. SUFFICES ASSUME ~overlapped', ~outrun', "builder" \notin savers'
                   PROVE  /\ Posts(call'[0], "blueprint") =>
                               /\ sheet.detail # Unset /\ call'[0].v = sheet.detail.id
                               /\ call'[0].what = sheet.draft /\ Saved(call[0])'
                          /\ call'[0].at = "detail" /\ call'[0].answer.ok => AckedIn(call'[0].v, call'[0].answer.edits)
                          /\ sheet.detail # Unset => AckedIn(sheet.detail.id, sheet.draft)
      BY <1>0, <1>1 DEF SheetKeepsUp
    <2>2. /\ Posts(call[0], "blueprint") =>
               sheet.detail # Unset /\ call[0].v = sheet.detail.id /\ call[0].what = sheet.draft /\ Saved(call[0])
          /\ call[0].at = "detail" /\ call[0].answer.ok => AckedIn(call[0].v, call[0].answer.edits)
          /\ sheet.detail # Unset => AckedIn(sheet.detail.id, sheet.draft)
      BY <1>0, <2>1 DEF SheetKeepsUp
    <2>3. 0 \in DOMAIN call /\ 0 \in Waiting /\ Undisturbed
      BY <1>0, <1>00, <2>1 DEF Undisturbed
    <2>4. ASSUME 0 # s
          PROVE  /\ Posts(call[0], "blueprint") => ~Posts(call[s], "blueprint") \/ ~call[0].answer.ok
                 /\ call'[0] = call[0]
      <3>1. call'[0] = call[0]
        BY <2>3, <2>4 DEF Served
      <3>2. CASE s \in Stray
        BY <1>0, <2>3, <3>1, <3>2 DEF StraysKeepUp
      <3>3. CASE s \notin Stray
        BY <1>0, <2>3, <2>4, <3>1, <3>3, OneBlueprint
      <3>. QED
        BY <3>1, <3>2, <3>3
    <2>5. ASSUME Posts(call'[0], "blueprint")
          PROVE  /\ sheet.detail # Unset /\ call'[0].v = sheet.detail.id
                 /\ call'[0].what = sheet.draft /\ Saved(call[0])'
      BY <1>2, <1>6, <2>2, <2>3, <2>4, <2>5
    <2>6. ASSUME call'[0].at = "detail", call'[0].answer.ok
          PROVE  AckedIn(call'[0].v, call'[0].answer.edits)
      <3>1. CASE 0 = s
        BY <1>5, <2>3, <2>6, <3>1
      <3>2. CASE 0 # s
        BY <2>2, <2>4, <2>6, <3>2
      <3>. QED
        BY <3>1, <3>2
    <2>. QED
      BY <2>2, <2>5, <2>6
  <1>9. SavedEdits'
    <2>1. SUFFICES ASSUME Undisturbed, NEW x \in acknowledged
                   PROVE  x[1] \in Made' /\ x[2] \in version'[x[1]].edits
      BY <1>0 DEF SavedEdits, Undisturbed
    <2>2. x[1] \in Made /\ x[2] \in version[x[1]].edits
      BY <1>0, <2>1 DEF SavedEdits
    <2>3. ASSUME Posts(call[s], "blueprint") PROVE AckedIn(call[s].v, call[s].what)
      <3>1. CASE s \in Stray
        BY <1>0, <2>1, <2>3, <3>1 DEF StraysKeepUp
      <3>2. CASE s \notin Stray
        BY <1>0, <2>1, <2>3, <3>2, PostedKeepsUp
      <3>. QED
        BY <3>1, <3>2
    <2>. QED
      BY <1>0, <1>4, <2>1, <2>2, <2>3 DEF AckedIn
  <1>10. StraysKeepUp'
    <2>1. SUFFICES ASSUME Undisturbed, NEW g \in Stray, Posts(call'[g], "blueprint")
                   PROVE  /\ AckedIn(call'[g].v, call'[g].what)
                          /\ \A t \in Waiting :
                               Posts(call'[t], "blueprint") => call'[t].stage = "answered" /\ ~call'[t].answer.ok
      BY <1>0, <1>1 DEF StraysKeepUp
    <2>2. g \in DOMAIN call /\ Posts(call[g], "blueprint") /\ call'[g].v = call[g].v /\ call'[g].what = call[g].what
      BY <1>0, <1>2, <2>1, CallersApart
    <2>3. AckedIn(call[g].v, call[g].what)
      BY <1>0, <2>1, <2>2 DEF StraysKeepUp
    <2>4. ASSUME NEW t \in Waiting, Posts(call'[t], "blueprint")
          PROVE  call'[t].stage = "answered" /\ ~call'[t].answer.ok
      <3>1. t \in DOMAIN call /\ Posts(call[t], "blueprint")
        BY <1>0, <1>2, <2>4
      <3>2. call[t].stage = "answered" /\ ~call[t].answer.ok
        BY <1>0, <2>1, <2>2, <3>1 DEF StraysKeepUp
      <3>3. CASE t = s
        BY <3>1, <3>2, <3>3 DEF Served, Continues, Posts
      <3>4. CASE t # s
        BY <3>1, <3>2, <3>4 DEF Served
      <3>. QED
        BY <3>3, <3>4
    <2>. QED
      BY <2>2, <2>3, <2>4
  <1>. QED
    BY <1>3, <1>7, <1>8, <1>9, <1>10 DEF SavingInv

LEMMA FreshKeepsUp ==
  ASSUME NEW r, Fresh(r)
  PROVE  SlotKeepsUp(r) /\ ~Posts(r, "blueprint") /\ (r.at = "detail" => ~r.answer.ok)
  BY DEF Fresh, SlotKeepsUp, Posts

\* Nothing was acknowledged and no version changed.
LEMMA SameAcknowledged ==
  ASSUME UNCHANGED <<acknowledged, version>>
  PROVE  /\ \A v, e : AckedIn(v, e)' <=> AckedIn(v, e)
         /\ \A x \in acknowledged : x \in acknowledged'
         /\ Made' = Made
  BY DEF AckedIn, Made

LEMMA TurnedSaving ==
  ASSUME Shape, OneAtATime, SavingInv, Turned
  PROVE  SavingInv'
  <1>0. /\ DOMAIN call' = Callers /\ \A t \in Callers \ Slot : call'[t] = call[t]
        /\ UNCHANGED <<version, sheet, savers, outrun>> /\ page'.detail = page.detail
        /\ overlapped => overlapped'
        /\ \A s \in Slot : call'[s] = call[s] \/ Fresh(call'[s])
        /\ \A s \in Slot : call[s].at = "detail" => call'[s].at = "detail"
        /\ OneAtATime'
        /\ SaversAreKnown /\ BuilderKeepsUp /\ SheetKeepsUp /\ StraysKeepUp /\ SavedEdits
        /\ Made' = Made
    BY DEF Turned, Turns, Recorded, SavingInv, BuilderOnly, Made, saverVars
  <1>00. /\ call'[0] = call[0] /\ call'[-1] = call[-1] /\ \A g \in Stray : call'[g] = call[g]
         /\ Slot \subseteq Callers \ Stray
         /\ Undisturbed' => Undisturbed
    <2>1. \A t \in Callers \ Slot : call'[t] = call[t]
      BY <1>0
    <2>. QED
      BY <1>0, <2>1, CallersApart DEF Undisturbed
  <1>1. SaversAreKnown'
    BY <1>0, <1>00, FreshKeepsUp DEF SaversAreKnown
  <1>2. CASE acknowledged' = acknowledged
    <2>1. \A v, e : AckedIn(v, e)' <=> AckedIn(v, e)
      BY <1>0, <1>2, SameAcknowledged
    <2>2. \A r : Saved(r) => (r.answer.ok => r.what \subseteq version'[r.v].edits)
      BY <1>0 DEF Saved
    <2>3. BuilderKeepsUp'
      <3>1. SUFFICES ASSUME ~overlapped', ~outrun', "sheet" \notin savers'
                     PROVE  /\ \A s \in Slot : SlotKeepsUp(call[s])'
                            /\ page'.detail # Unset /\ (\A s \in Slot : call'[s].at # "detail")
                                 => AckedIn(page.detail.id, page.detail.edits)'
        BY DEF BuilderKeepsUp
      <3>2. /\ \A s \in Slot : SlotKeepsUp(call[s])
            /\ page.detail # Unset /\ (\A s \in Slot : call[s].at # "detail")
                 => AckedIn(page.detail.id, page.detail.edits)
        BY <1>0, <3>1 DEF BuilderKeepsUp
      <3>3. ASSUME NEW s \in Slot PROVE SlotKeepsUp(call[s])'
        <4>1. CASE call'[s] = call[s]
          BY <2>1, <3>2, <4>1, <1>0 DEF SlotKeepsUp, Saved
        <4>2. CASE Fresh(call'[s])
          BY <4>2 DEF Fresh, SlotKeepsUp, Posts
        <4>. QED
          BY <1>0, <4>1, <4>2
      <3>. QED
        BY <1>0, <2>1, <3>2, <3>3
    <2>4. SheetKeepsUp'
      BY <1>0, <1>00, <2>1 DEF SheetKeepsUp, Saved
    <2>5. SavedEdits'
      BY <1>0, <1>00, <1>2 DEF SavedEdits
    <2>6. ASSUME NEW t \in Callers \ Stray, Posts(call'[t], "blueprint") PROVE call'[t] = call[t]
      BY <1>0, <2>6 DEF Fresh, Posts
    <2>7. StraysKeepUp'
      BY <1>0, <1>00, <1>2, <2>6, StraysStep
    <2>. QED
      BY <1>1, <2>3, <2>4, <2>5, <2>7 DEF SavingInv
  <1>3. ASSUME NEW s \in Slot, Acknowledges(s), call'[s].at = "detail"
        PROVE  SavingInv'
    <2>1. /\ Posts(call[s], "blueprint") /\ call[s].answer.ok
          /\ acknowledged' = acknowledged \cup ({call[s].v} \X call[s].what)
          /\ "builder" \in savers
          /\ s \in DOMAIN call
      BY <1>0, <1>3 DEF Acknowledges, SaversAreKnown, Shape, Callers
    <2>2. Fresh(call'[s])
      BY <1>0, <1>3, <2>1 DEF Posts
    <2>3. BuilderKeepsUp'
      <3>1. SUFFICES ASSUME ~overlapped', ~outrun', "sheet" \notin savers'
                     PROVE  /\ \A t \in Slot : SlotKeepsUp(call[t])'
                            /\ page'.detail # Unset /\ (\A t \in Slot : call'[t].at # "detail")
                                 => AckedIn(page.detail.id, page.detail.edits)'
        BY DEF BuilderKeepsUp
      <3>2. ASSUME NEW t \in Slot PROVE SlotKeepsUp(call[t])'
        <4>1. CASE t = s
          BY <2>2, <4>1 DEF Fresh, SlotKeepsUp, Posts
        <4>2. CASE t # s
          <5>1. call'[t].at = "idle"
            BY <1>0, <1>3, <3>1, <4>2 DEF OneAtATime
          <5>. QED
            BY <5>1 DEF SlotKeepsUp, Posts
        <4>. QED
          BY <4>1, <4>2
      <3>. QED
        BY <1>3, <3>2
    <2>4. SheetKeepsUp'
      BY <1>0, <2>1 DEF SheetKeepsUp
    <2>5. SavedEdits'
      <3>1. SUFFICES ASSUME ~overlapped', ~outrun', savers # {"builder", "sheet"}, NEW x \in acknowledged'
                     PROVE  x[1] \in Made /\ x[2] \in version[x[1]].edits
        BY <1>0 DEF SavedEdits, Undisturbed
      <3>2. Undisturbed
        BY <1>0, <3>1 DEF Undisturbed
      <3>3. "sheet" \notin savers
        BY <1>0, <2>1, <3>2, OneSaver
      <3>4. call[s].v \in Made /\ call[s].what \subseteq version[call[s].v].edits
        BY <1>0, <2>1, <3>2, <3>3, SavedWhatIsMade DEF BuilderKeepsUp, SlotKeepsUp, Saved, Undisturbed
      <3>5. CASE x \in acknowledged
        BY <1>0, <3>2, <3>5 DEF SavedEdits
      <3>6. CASE x \in {call[s].v} \X call[s].what
        BY <3>4, <3>6
      <3>. QED
        BY <2>1, <3>1, <3>5, <3>6
    <2>6. StraysKeepUp'
      <3>1. Undisturbed => \A g \in Stray : ~Posts(call[g], "blueprint")
        BY <1>0, <1>00, <1>3, <2>1 DEF StraysKeepUp
      <3>. QED
        BY <1>0, <1>00, <3>1, StraysStep
    <2>. QED
      BY <1>1, <2>3, <2>4, <2>5, <2>6 DEF SavingInv
  <1>. QED
    BY <1>2, <1>3 DEF Turned

LEMMA ArrivedSaving ==
  ASSUME Shape, OneAtATime, SavingInv, Arrived
  PROVE  SavingInv'
  <1>1. PICK s \in Slot : Arrives(s)
    BY DEF Arrived
  <1>0. /\ DOMAIN call' = Callers /\ call'[s] = Idle /\ \A t \in Callers \ {s} : call'[t] = call[t]
        /\ call[s].at = "detail"
        /\ \/ call[s].answer.ok /\ page'.detail = call[s].answer
           \/ page'.detail = Unset
        /\ UNCHANGED <<version, sheet, savers, outrun, acknowledged>> /\ (overlapped => overlapped')
        /\ SaversAreKnown /\ BuilderKeepsUp /\ SheetKeepsUp /\ StraysKeepUp /\ SavedEdits
    BY <1>1 DEF Arrived, Arrives, Recorded, SavingInv, BuilderOnly, historyVars, saverVars
  <1>2. /\ \A v, e : AckedIn(v, e)' <=> AckedIn(v, e)
        /\ Made' = Made
    BY <1>0, SameAcknowledged
  <1>3. /\ call'[0] = call[0] /\ call'[-1] = call[-1]
        /\ \A t \in Slot : call'[t] = call[t] \/ (t = s /\ call'[t] = Idle)
        /\ \A g \in Stray : call'[g] = call[g]
        /\ Undisturbed' => Undisturbed
    BY <1>0, CallersApart DEF Undisturbed
  <1>4. SaversAreKnown'
    BY <1>0, <1>3, IdleShape DEF SaversAreKnown, Posts
  <1>5. BuilderKeepsUp'
    <2>1. SUFFICES ASSUME ~overlapped', ~outrun', "sheet" \notin savers'
                   PROVE  /\ \A t \in Slot : SlotKeepsUp(call[t])'
                          /\ page'.detail # Unset => AckedIn(page.detail.id, page.detail.edits)'
      BY DEF BuilderKeepsUp
    <2>2. \A t \in Slot : SlotKeepsUp(call[t])
      BY <1>0, <2>1 DEF BuilderKeepsUp
    <2>3. ASSUME NEW t \in Slot PROVE SlotKeepsUp(call[t])'
      <3>1. CASE call'[t] = call[t]
        BY <1>0, <1>2, <2>2, <3>1 DEF SlotKeepsUp, Saved
      <3>2. CASE call'[t] = Idle
        BY <3>2, IdleShape DEF SlotKeepsUp, Posts
      <3>. QED
        BY <1>3, <3>1, <3>2
    <2>4. ASSUME call[s].answer.ok PROVE AckedIn(call[s].answer.id, call[s].answer.edits)
      <3>0. s \in DOMAIN call /\ RequestOK(call[s], Made)
        BY DEF Shape, Callers
      <3>1. LoadOK(call[s], Made)
        BY <1>0, <3>0, RequestKinds
      <3>2. call[s].answer.id = call[s].v
        BY <1>0, <2>4, <3>1 DEF LoadOK
      <3>. QED
        BY <1>0, <2>2, <2>4, <3>2 DEF SlotKeepsUp
    <2>. QED
      BY <1>0, <1>2, <2>3, <2>4
  <1>6. SheetKeepsUp'
    BY <1>0, <1>2, <1>3 DEF SheetKeepsUp, Saved
  <1>7. SavedEdits'
    BY <1>0, <1>2, <1>3 DEF SavedEdits
  <1>8. ASSUME NEW t \in Callers \ Stray, Posts(call'[t], "blueprint") PROVE call'[t] = call[t]
    BY <1>0, <1>8, IdleShape DEF Posts
  <1>9. StraysKeepUp'
    BY <1>0, <1>3, <1>8, StraysStep
  <1>. QED
    BY <1>4, <1>5, <1>6, <1>7, <1>9 DEF SavingInv

LEMMA OpenedSaving ==
  ASSUME Shape, SavingInv, Opened
  PROVE  SavingInv'
  <1>0. /\ UNCHANGED <<version, sheet, overlapped, savers, outrun, acknowledged>>
        /\ \A t \in Callers \ Slot : call'[t] = call[t]
        /\ \A s \in Slot : Fresh(call'[s])
        /\ page'.detail = Unset
        /\ SaversAreKnown /\ BuilderKeepsUp /\ SheetKeepsUp /\ StraysKeepUp /\ SavedEdits
        /\ Undisturbed' <=> Undisturbed
    BY DEF Opened, BuilderOnly, SavingInv, historyVars, saverVars, Undisturbed
  <1>1. call'[0] = call[0] /\ call'[-1] = call[-1] /\ \A g \in Stray : call'[g] = call[g]
    BY <1>0, CallersApart
  <1>2. /\ \A v, e : AckedIn(v, e)' <=> AckedIn(v, e)
        /\ Made' = Made
    BY <1>0, SameAcknowledged
  <1>3. SaversAreKnown'
    BY <1>0, <1>1, FreshKeepsUp DEF SaversAreKnown
  <1>4. BuilderKeepsUp'
    <2>1. ASSUME NEW s \in Slot PROVE SlotKeepsUp(call[s])'
      BY <1>0 DEF Fresh, SlotKeepsUp, Posts
    <2>. QED
      BY <1>0, <2>1 DEF BuilderKeepsUp
  <1>5. SheetKeepsUp'
    BY <1>0, <1>1, <1>2 DEF SheetKeepsUp, Saved
  <1>6. SavedEdits'
    BY <1>0, <1>2 DEF SavedEdits
  <1>7. ASSUME NEW t \in Callers \ Stray, Posts(call'[t], "blueprint") PROVE call'[t] = call[t]
    BY <1>0, <1>7 DEF Fresh, Posts
  <1>8. StraysKeepUp'
    BY <1>0, <1>1, <1>7, StraysStep
  <1>. QED
    BY <1>3, <1>4, <1>5, <1>6, <1>8 DEF SavingInv

LEMMA AbandonedSaving ==
  ASSUME Shape, OneAtATime, SavingInv, NEW s \in Callers, NEW g \in Callers, Abandons(s, g)
  PROVE  SavingInv'
  <1>. DEFINE Waiting == Callers \ Stray
  <1>0. /\ UNCHANGED <<version, page, sheet, overlapped, savers, outrun, acknowledged>>
        /\ s \in Waiting /\ g \in Stray /\ call'[g] = call[s] /\ \A t \in Callers \ {s, g} : call'[t] = call[t]
        /\ SaversAreKnown /\ BuilderKeepsUp /\ SheetKeepsUp /\ StraysKeepUp /\ SavedEdits
        /\ Undisturbed' <=> Undisturbed
    BY DEF Abandons, SavingInv, historyVars, saverVars, Undisturbed
  <1>1. Slot \subseteq Waiting /\ {-1, 0} \subseteq Waiting /\ \A t \in Waiting \ {s} : call'[t] = call[t]
    BY <1>0, CallersApart
  <1>2. /\ call[s].at = "post" /\ call'[s].at = "post" /\ call'[s].kind = call[s].kind
        /\ call'[s].v = call[s].v /\ call'[s].what = call[s].what
        /\ call'[s].stage = "answered" /\ ~call'[s].answer.ok
    BY AbandonedPost
  <1>3. /\ \A v, e : AckedIn(v, e)' <=> AckedIn(v, e)
        /\ Made' = Made
    BY <1>0, SameAcknowledged
  <1>4. \A t \in Waiting :
          /\ call'[t].at = call[t].at
          /\ Posts(call'[t], "blueprint") =>
               Posts(call[t], "blueprint") /\ call'[t].v = call[t].v /\ call'[t].what = call[t].what
          /\ Saved(call[t]) => Saved(call[t])'
          /\ call'[t].at = "detail" => call'[t] = call[t]
    <2>1. ASSUME NEW t \in Waiting, t # s, Saved(call[t]) PROVE Saved(call[t])'
      BY <1>0, <1>1, <2>1 DEF Saved
    <2>2. Saved(call[s])'
      BY <1>2 DEF Saved
    <2>. QED
      BY <1>1, <1>2, <2>1, <2>2 DEF Posts
  <1>5. SaversAreKnown'
    BY <1>0, <1>1, <1>4 DEF SaversAreKnown
  <1>6. BuilderKeepsUp'
    BY <1>0, <1>1, <1>3, <1>4 DEF BuilderKeepsUp, SlotKeepsUp
  <1>7. SheetKeepsUp'
    BY <1>0, <1>1, <1>3, <1>4 DEF SheetKeepsUp
  <1>8. SavedEdits'
    BY <1>0, <1>3 DEF SavedEdits
  <1>9. StraysKeepUp'
    <2>1. SUFFICES ASSUME Undisturbed, NEW h \in Stray, Posts(call'[h], "blueprint")
                   PROVE  /\ AckedIn(call'[h].v, call'[h].what)
                          /\ \A t \in Waiting :
                               Posts(call'[t], "blueprint") => call'[t].stage = "answered" /\ ~call'[t].answer.ok
      BY <1>0, <1>3 DEF StraysKeepUp
    <2>2. CASE h = g
      <3>1. call'[h] = call[s] /\ Posts(call[s], "blueprint")
        BY <1>0, <2>1, <2>2
      <3>2. AckedIn(call[s].v, call[s].what)
        BY <1>0, <2>1, <3>1, PostedKeepsUp
      <3>3. \A t \in Waiting : Posts(call'[t], "blueprint") => t = s
        BY <1>0, <1>4, <2>1, <3>1, OneBlueprint
      <3>. QED
        BY <1>2, <3>1, <3>2, <3>3
    <2>3. CASE h # g
      <3>1. call'[h] = call[h] /\ Posts(call[h], "blueprint")
        BY <1>0, <2>1, <2>3, CallersApart
      <3>2. /\ AckedIn(call[h].v, call[h].what)
            /\ \A t \in Waiting : Posts(call[t], "blueprint") => call[t].stage = "answered" /\ ~call[t].answer.ok
        BY <1>0, <2>1, <3>1 DEF StraysKeepUp
      <3>. QED
        BY <1>1, <1>2, <1>4, <3>1, <3>2
    <2>. QED
      BY <2>2, <2>3
  <1>. QED
    BY <1>5, <1>6, <1>7, <1>8, <1>9 DEF SavingInv

LEMMA SentSaving ==
  ASSUME Shape, OneAtATime, SavingInv, Sent
  PROVE  SavingInv'
  <1>1. PICK s \in Slot : Sends(s, call'[s]) /\ PostOfPage(call'[s])
    BY DEF Sent
  <1>0. /\ DOMAIN call' = Callers /\ \A t \in Callers \ {s} : call'[t] = call[t]
        /\ call[s].at = "idle" /\ call'[s].at = "post" /\ ~call'[s].answer.ok
        /\ page'.detail = page.detail
        /\ UNCHANGED <<version, sheet, acknowledged>> /\ (overlapped => overlapped') /\ OneAtATime'
        /\ SaversAreKnown /\ BuilderKeepsUp /\ SheetKeepsUp /\ StraysKeepUp /\ SavedEdits
    BY <1>1 DEF Sent, Sends, PostOfPage, Recorded, SavingInv, BuilderOnly
  <1>2. /\ \A v, e : AckedIn(v, e)' <=> AckedIn(v, e)
        /\ Made' = Made
    BY <1>0, SameAcknowledged
  <1>3. /\ call'[0] = call[0] /\ call'[-1] = call[-1] /\ Slot \subseteq Callers
        /\ \A t \in Slot : t # s => call'[t] = call[t]
        /\ \A g \in Stray : call'[g] = call[g]
    BY <1>0, CallersApart
  <1>4. /\ savers' = savers \/ savers' = savers \cup {"builder"}
        /\ Posts(call'[s], "blueprint") =>
             /\ "builder" \in savers' /\ page.detail # Unset
             /\ call'[s].v = page.detail.id /\ page.detail.edits \subseteq call'[s].what
             /\ ~outrun' => \A g \in Stray : ~Posts(call[g], "blueprint")
        /\ outrun => outrun'
    BY <1>1 DEF PostOfPage, Posts, Saves, saverVars
  <1>9. Undisturbed' => Undisturbed
    BY <1>0, <1>4 DEF Undisturbed, SaversAreKnown
  <1>5. SaversAreKnown'
    BY <1>0, <1>3, <1>4 DEF SaversAreKnown
  <1>6. BuilderKeepsUp'
    <2>1. SUFFICES ASSUME ~overlapped', ~outrun', "sheet" \notin savers'
                   PROVE  /\ \A t \in Slot : SlotKeepsUp(call[t])'
                          /\ page'.detail # Unset => AckedIn(page.detail.id, page.detail.edits)'
      BY DEF BuilderKeepsUp
    <2>2. \A t \in Slot \ {s} : call'[t].at = "idle" /\ call[t].at = "idle"
      BY <1>0, <1>3, <2>1 DEF OneAtATime
    <2>3. page.detail # Unset => AckedIn(page.detail.id, page.detail.edits)
      BY <1>0, <1>4, <2>1, <2>2 DEF BuilderKeepsUp
    <2>4. ASSUME NEW t \in Slot PROVE SlotKeepsUp(call[t])'
      <3>1. CASE t # s
        BY <2>2, <3>1 DEF SlotKeepsUp, Posts
      <3>2. CASE t = s
        <4>1. Posts(call'[s], "blueprint") => AckedIn(call'[s].v, call'[s].what)
          BY <1>4, <2>3 DEF AckedIn
        <4>. QED
          BY <1>0, <1>2, <3>2, <4>1 DEF SlotKeepsUp, Saved
      <3>. QED
        BY <3>1, <3>2
    <2>. QED
      BY <1>0, <1>2, <2>3, <2>4
  <1>7. SheetKeepsUp'
    BY <1>0, <1>2, <1>3, <1>4 DEF SheetKeepsUp, Saved
  <1>8. SavedEdits'
    BY <1>0, <1>2, <1>9 DEF SavedEdits
  <1>10. StraysKeepUp'
    <2>1. CASE Posts(call'[s], "blueprint")
      <3>1. Undisturbed' => \A g \in Stray : ~Posts(call[g], "blueprint")
        BY <1>4, <2>1 DEF Undisturbed
      <3>. QED
        BY <1>0, <1>3, <1>9, <3>1, StraysStep
    <2>2. CASE ~Posts(call'[s], "blueprint")
      <3>1. ASSUME NEW t \in Callers \ Stray, Posts(call'[t], "blueprint") PROVE call'[t] = call[t]
        BY <1>0, <2>2, <3>1
      <3>. QED
        BY <1>0, <1>3, <1>9, <3>1, StraysStep
    <2>. QED
      BY <2>1, <2>2
  <1>. QED
    BY <1>5, <1>6, <1>7, <1>8, <1>10 DEF SavingInv

LEMMA SheetSaving ==
  ASSUME Shape, OneAtATime, SavingInv, SheetMoves
  PROVE  SavingInv'
  <1>0. /\ DOMAIN call' = Callers /\ \A t \in Callers \ {0} : call'[t] = call[t]
        /\ UNCHANGED <<version, page, overlapped>>
        /\ SheetOpens \/ SheetHears \/ SheetSaves \/ SheetSendsOther
        /\ SaversAreKnown /\ BuilderKeepsUp /\ SheetKeepsUp /\ StraysKeepUp /\ SavedEdits
        /\ Made' = Made /\ 0 \in DOMAIN call
    BY DEF SheetMoves, OfCaller, SavingInv, Made, Shape, Callers
  <1>1. /\ call'[-1] = call[-1] /\ \A t \in Slot : call'[t] = call[t]
        /\ \A g \in Stray : call'[g] = call[g]
    BY <1>0, CallersApart
  <1>2. /\ savers' = savers \/ (savers' = savers \cup {"sheet"} /\ SheetSaves)
        /\ acknowledged' = acknowledged \/ (Acknowledges(0) /\ SheetHears /\ UNCHANGED <<savers, sheet>>)
        /\ Posts(call'[0], "blueprint") => SheetSaves
        /\ outrun => outrun'
        /\ SheetSaves /\ ~outrun' => \A g \in Stray : ~Posts(call[g], "blueprint")
    <2>1. CASE SheetOpens
      BY <2>1 DEF SheetOpens, SheetSaves, historyVars, saverVars, Fresh, Posts
    <2>2. CASE SheetHears
      <3>1. Fresh(call'[0]) /\ UNCHANGED <<savers, outrun>>
        BY <2>2 DEF SheetHears, saverVars
      <3>2. acknowledged' = acknowledged \/ (Acknowledges(0) /\ SheetHears /\ UNCHANGED <<savers, sheet>>)
        BY <2>2, <3>1 DEF SheetHears
      <3>. QED
        BY <3>1, <3>2 DEF Fresh, Posts, SheetSaves
    <2>3. CASE SheetSaves
      <3>1. /\ savers' = savers \cup {"sheet"} /\ acknowledged' = acknowledged
            /\ outrun' = (outrun \/ \E g \in Stray : Posts(call[g], "blueprint"))
        BY <2>3 DEF SheetSaves, Saves, Posts
      <3>. QED
        BY <2>3, <3>1
    <2>4. CASE SheetSendsOther
      BY <2>4 DEF SheetSendsOther, SheetSaves, historyVars, saverVars, Posts
    <2>. QED
      BY <1>0, <2>1, <2>2, <2>3, <2>4
  <1>9. Undisturbed' => Undisturbed
    BY <1>0, <1>2 DEF Undisturbed, SaversAreKnown
  <1>3. SaversAreKnown'
    <2>1. SheetSaves => savers' = savers \cup {"sheet"}
      BY DEF SheetSaves, Saves
    <2>. QED
      BY <1>0, <1>1, <1>2, <2>1 DEF SaversAreKnown
  <1>4. ASSUME "sheet" \notin savers' PROVE UNCHANGED <<savers, acknowledged>>
    BY <1>0, <1>2, <1>4 DEF SaversAreKnown, Acknowledges
  <1>5. BuilderKeepsUp'
    <2>1. SUFFICES ASSUME ~overlapped', ~outrun', "sheet" \notin savers'
                   PROVE  /\ \A t \in Slot : SlotKeepsUp(call[t])'
                          /\ page'.detail # Unset /\ (\A t \in Slot : call'[t].at # "detail")
                               => AckedIn(page.detail.id, page.detail.edits)'
      BY DEF BuilderKeepsUp
    <2>2. UNCHANGED <<savers, acknowledged>>
      BY <1>4, <2>1
    <2>3. \A v, e : AckedIn(v, e)' <=> AckedIn(v, e)
      BY <1>0, <2>2, SameAcknowledged
    <2>4. /\ \A t \in Slot : SlotKeepsUp(call[t])
          /\ page.detail # Unset /\ (\A t \in Slot : call[t].at # "detail")
               => AckedIn(page.detail.id, page.detail.edits)
      BY <1>0, <1>2, <2>1, <2>2 DEF BuilderKeepsUp
    <2>. QED
      BY <1>0, <1>1, <2>3, <2>4 DEF SlotKeepsUp, Saved
  <1>6. SheetKeepsUp'
    <2>1. SUFFICES ASSUME ~overlapped', ~outrun', "builder" \notin savers'
                   PROVE  /\ Posts(call'[0], "blueprint") =>
                               /\ sheet'.detail # Unset /\ call'[0].v = sheet'.detail.id
                               /\ call'[0].what = sheet'.draft /\ Saved(call[0])'
                          /\ call'[0].at = "detail" /\ call'[0].answer.ok => AckedIn(call[0].v, call[0].answer.edits)'
                          /\ sheet'.detail # Unset => AckedIn(sheet.detail.id, sheet.draft)'
      BY DEF SheetKeepsUp
    <2>2. /\ Posts(call[0], "blueprint") =>
               sheet.detail # Unset /\ call[0].v = sheet.detail.id /\ call[0].what = sheet.draft /\ Saved(call[0])
          /\ call[0].at = "detail" /\ call[0].answer.ok => AckedIn(call[0].v, call[0].answer.edits)
          /\ sheet.detail # Unset => AckedIn(sheet.detail.id, sheet.draft)
      BY <1>0, <1>2, <2>1 DEF SheetKeepsUp
    <2>3. CASE SheetOpens
      BY <2>3 DEF SheetOpens, Fresh, Posts
    <2>4. CASE SheetHears
      <3>1. Fresh(call'[0])
        BY <2>4 DEF SheetHears
      <3>2. CASE UNCHANGED <<sheet, acknowledged>>
        BY <2>2, <3>1, <3>2 DEF Fresh, Posts, AckedIn
      <3>3. CASE UNCHANGED sheet /\ Acknowledges(0)
        <4>1. Posts(call[0], "blueprint") /\ acknowledged' = acknowledged \cup ({call[0].v} \X call[0].what)
          BY <3>3 DEF Acknowledges
        <4>2. /\ call[0].what = sheet.draft /\ AckedIn(sheet.detail.id, sheet.draft)
          BY <2>2, <4>1
        <4>3. AckedIn(sheet.detail.id, sheet.draft)'
          BY <3>3, <4>1, <4>2 DEF AckedIn
        <4>. QED
          BY <3>1, <4>3 DEF Fresh, Posts
      <3>4. CASE /\ UNCHANGED acknowledged
                 /\ call[0].at = "detail" /\ call[0].answer.ok
                 /\ sheet'.detail = call[0].answer /\ sheet'.draft = call[0].answer.edits
        <4>1. LoadOK(call[0], Made)
          BY <1>0, <3>4, RequestKinds DEF Shape
        <4>2. call[0].answer.id = call[0].v
          BY <3>4, <4>1 DEF LoadOK
        <4>3. AckedIn(sheet.detail.id, sheet.draft)'
          BY <2>2, <3>4, <4>2 DEF AckedIn
        <4>. QED
          BY <3>1, <4>3 DEF Fresh, Posts
      <3>. QED
        BY <2>4, <3>2, <3>3, <3>4 DEF SheetHears
    <2>5. CASE SheetSaves
      <3>1. /\ sheet.detail # Unset /\ sheet'.detail = sheet.detail /\ sheet.draft \subseteq sheet'.draft
            /\ call'[0].at = "post" /\ call'[0].v = sheet.detail.id /\ call'[0].what = sheet'.draft
            /\ ~call'[0].answer.ok /\ UNCHANGED acknowledged
        BY <2>5 DEF SheetSaves, Posts
      <3>2. AckedIn(sheet.detail.id, sheet.draft)'
        BY <2>2, <3>1 DEF AckedIn
      <3>. QED
        BY <3>1, <3>2 DEF Saved
    <2>6. CASE SheetSendsOther
      <3>1. /\ sheet'.detail = sheet.detail /\ sheet'.draft = sheet.draft
            /\ call'[0].at = "post" /\ call'[0].kind # "blueprint" /\ UNCHANGED acknowledged
        BY <2>6 DEF SheetSendsOther, historyVars
      <3>. QED
        BY <2>2, <3>1 DEF AckedIn, Posts
    <2>. QED
      BY <1>0, <2>3, <2>4, <2>5, <2>6
  <1>7. SavedEdits'
    <2>1. SUFFICES ASSUME Undisturbed', NEW x \in acknowledged'
                   PROVE  x[1] \in Made /\ x[2] \in version[x[1]].edits
      BY <1>0 DEF SavedEdits
    <2>2. Undisturbed
      BY <1>9, <2>1
    <2>3. CASE x \in acknowledged
      BY <1>0, <2>2, <2>3 DEF SavedEdits
    <2>4. CASE x \notin acknowledged
      <3>1. Acknowledges(0)
        BY <1>2, <2>1, <2>4
      <3>2. /\ Posts(call[0], "blueprint") /\ call[0].answer.ok
            /\ x \in {call[0].v} \X call[0].what
        BY <2>1, <2>4, <3>1 DEF Acknowledges
      <3>3. 0 \in Callers \ Stray
        BY CallersApart
      <3>4. call[0].v \in Made /\ call[0].what \subseteq version[call[0].v].edits
        BY <1>0, <2>2, <3>2, <3>3, PostedKeepsUp, SavedWhatIsMade DEF Saved
      <3>. QED
        BY <3>2, <3>4
    <2>. QED
      BY <2>3, <2>4
  <1>8. StraysKeepUp'
    <2>1. CASE Acknowledges(0)
      <3>1. Undisturbed => \A g \in Stray : ~Posts(call[g], "blueprint")
        BY <1>0, <2>1, CallersApart DEF StraysKeepUp, Acknowledges
      <3>. QED
        BY <1>0, <1>1, <1>9, <3>1, StraysStep
    <2>2. CASE SheetSaves
      <3>1. Undisturbed' => \A g \in Stray : ~Posts(call[g], "blueprint")
        BY <1>2, <2>2 DEF Undisturbed
      <3>. QED
        BY <1>0, <1>1, <1>9, <3>1, StraysStep
    <2>3. CASE ~Acknowledges(0) /\ ~SheetSaves
      <3>1. ASSUME NEW t \in Callers \ Stray, Posts(call'[t], "blueprint") PROVE call'[t] = call[t]
        BY <1>0, <1>2, <2>3, <3>1
      <3>2. acknowledged' = acknowledged
        BY <1>2, <2>3
      <3>. QED
        BY <1>0, <1>1, <1>9, <3>1, <3>2, StraysStep
    <2>. QED
      BY <2>1, <2>2, <2>3
  <1>. QED
    BY <1>3, <1>5, <1>6, <1>7, <1>8 DEF SavingInv

LEMMA ConsoleSaving ==
  ASSUME Shape, SavingInv, ConsoleMoves
  PROVE  SavingInv'
  <1>0. /\ \A t \in Callers \ {-1} : call'[t] = call[t]
        /\ UNCHANGED <<version, page, overlapped, sheet, savers, outrun, acknowledged>>
        /\ ~Posts(call'[-1], "blueprint")
        /\ SaversAreKnown /\ BuilderKeepsUp /\ SheetKeepsUp /\ StraysKeepUp /\ SavedEdits
    BY DEF ConsoleMoves, OfCaller, SavingInv, historyVars, saverVars
  <1>1. /\ call'[0] = call[0] /\ \A t \in Slot : call'[t] = call[t]
        /\ \A g \in Stray : call'[g] = call[g]
        /\ Undisturbed' <=> Undisturbed
    BY <1>0, CallersApart DEF Undisturbed
  <1>2. /\ \A v, e : AckedIn(v, e)' <=> AckedIn(v, e)
        /\ Made' = Made
    BY <1>0, SameAcknowledged
  <1>3. SaversAreKnown'
    BY <1>0, <1>1 DEF SaversAreKnown
  <1>4. BuilderKeepsUp'
    BY <1>0, <1>1, <1>2 DEF BuilderKeepsUp, SlotKeepsUp, Saved
  <1>5. SheetKeepsUp'
    BY <1>0, <1>1, <1>2 DEF SheetKeepsUp, Saved
  <1>6. SavedEdits'
    BY <1>0, <1>1, <1>2 DEF SavedEdits
  <1>7. ASSUME NEW t \in Callers \ Stray, Posts(call'[t], "blueprint") PROVE call'[t] = call[t]
    BY <1>0, <1>7
  <1>8. StraysKeepUp'
    BY <1>0, <1>1, <1>7, StraysStep
  <1>. QED
    BY <1>3, <1>4, <1>5, <1>6, <1>8 DEF SavingInv

LEMMA SavingStep ==
  ASSUME Shape, OneAtATime, SavingInv, [BuilderNext]_builderVars
  PROVE  SavingInv'
  <1>1. CASE BuilderNext
    BY <1>1, StepsOfPages, TurnedSaving, ArrivedSaving, SentSaving, OpenedSaving, SheetSaving, ConsoleSaving,
       AbandonedSaving, ServedSaving DEF Abandoned
  <1>2. CASE UNCHANGED builderVars
    <2>1. UNCHANGED <<version, page, sheet, call, overlapped, savers, outrun, acknowledged>>
      BY <1>2 DEF builderVars, serverVars, historyVars, saverVars
    <2>2. /\ \A v, e : AckedIn(v, e)' <=> AckedIn(v, e)
          /\ Made' = Made
      BY <2>1, SameAcknowledged
    <2>3. SaversAreKnown'
      BY <2>1 DEF SavingInv, SaversAreKnown
    <2>4. BuilderKeepsUp'
      BY <2>1, <2>2 DEF SavingInv, BuilderKeepsUp, SlotKeepsUp, Saved
    <2>5. SheetKeepsUp'
      BY <2>1, <2>2 DEF SavingInv, SheetKeepsUp, Saved
    <2>6. SavedEdits'
      BY <2>1, <2>2 DEF SavingInv, SavedEdits, Undisturbed
    <2>7. StraysKeepUp'
      BY <2>1, StraysStep DEF SavingInv, Undisturbed
    <2>. QED
      BY <2>3, <2>4, <2>5, <2>6, <2>7 DEF SavingInv
  <1>. QED
    BY <1>1, <1>2

LEMMA SavingInitially ==
  ASSUME BuilderInit
  PROVE  SavingInv
  <1>2. /\ savers = {} /\ acknowledged = {} /\ page.detail = Unset /\ sheet.detail = Unset
        /\ call = [s \in Callers |-> FirstCall(s)]
    BY NewPageShape DEF BuilderInit, Callers
  <1>3. \A s \in Callers : call[s] = FirstCall(s)
    BY <1>2
  <1>4. /\ \A s \in Callers : call[s].at \in {"idle", "list"}
        /\ {-1, 0} \subseteq Callers /\ Slot \subseteq Callers /\ Stray \subseteq Callers
    BY <1>3, FirstCalls, CallersApart
  <1>5. SaversAreKnown
    BY <1>2, <1>4 DEF SaversAreKnown, Posts
  <1>6. BuilderKeepsUp
    BY <1>2, <1>4 DEF BuilderKeepsUp, SlotKeepsUp, Posts
  <1>7. SheetKeepsUp
    BY <1>2, <1>4 DEF SheetKeepsUp, Posts
  <1>8. SavedEdits
    BY <1>2 DEF SavedEdits
  <1>9. StraysKeepUp
    BY <1>4 DEF StraysKeepUp, Posts
  <1>. QED
    BY <1>5, <1>6, <1>7, <1>8, <1>9 DEF SavingInv

(***************************************************************************)
(* An edit a page was told is saved stays in its version (NoLostEdit),     *)
(* with any number of versions, edits and requests, and of handlers that   *)
(* go on after their page has lost or left them: the whole blueprints the  *)
(* pages send never leave one out, as long as the builder has one request  *)
(* under way at a time, only one of the two pages saves, and it sends no   *)
(* blueprint while such a handler still has one to write.                  *)
(***************************************************************************)
THEOREM EditsStay == BuilderSpec => []NoLostEdit
  <1>. DEFINE Inv == Shape /\ OneAtATime /\ SavingInv
  <1>1. BuilderInit => Inv
    BY ShapeInitially, SavingInitially
  <1>2. Inv /\ [BuilderNext]_builderVars => Inv'
    BY ShapeStep, SavingStep
  <1>3. Inv => NoLostEdit
    BY DEF SavingInv, SavedEdits, Undisturbed, NoLostEdit
  <1>. QED
    BY <1>1, <1>2, <1>3, PTL DEF BuilderSpec

-----------------------------------------------------------------------------
(***************************************************************************)
(* The items that are selected belong to the version that is shown, and a  *)
(* new item that is being created to the version that will be shown when   *)
(* it comes, unless requests have overlapped.                              *)
(***************************************************************************)
Belongs(x, v) == x[2] = v \/ (overlapped /\ x[1] # 1)

ItemsBelong ==
    /\ page.detail # Unset => \A x \in page.ids : Belongs(x, page.detail.id)
    /\ \A s \in Slot : Posts(call[s], "items") => \A x \in call[s].what : Belongs(x, call[s].v)
    /\ ~overlapped => \A s \in Slot :
         Posts(call[s], "item") /\ page.detail # Unset => page.detail.id = call[s].what

LEMMA ItemsBelongStep ==
  ASSUME Shape, OneAtATime, ItemsBelong, [BuilderNext]_builderVars
  PROVE  ItemsBelong'
  <1>0. /\ DOMAIN call = Callers /\ Slot \subseteq Callers /\ {-1, 0} \cap Slot = {}
        /\ Slot \cap Stray = {}
    BY CallersApart DEF Shape
  <1>1. CASE Turned
    <2>1. /\ \A s \in Slot : call'[s] = call[s] \/ Fresh(call'[s])
          /\ page'.detail = page.detail /\ \A x \in page'.ids : Ticked(x)
          /\ overlapped => overlapped'
      BY <1>1 DEF Turned, Turns, Recorded
    <2>2. ASSUME page.detail # Unset, NEW x, Ticked(x)
          PROVE  Belongs(x, page.detail.id)'
      <3>1. CASE x \in page.ids
        BY <2>1, <2>2, <3>1 DEF ItemsBelong, Belongs
      <3>2. CASE x[2] = page.detail.id
        BY <2>1, <3>2 DEF Belongs
      <3>3. ASSUME NEW s \in Slot, Posts(call[s], "item"), call[s].answer.ok,
                   x = <<call[s].answer.new, call[s].what>>
            PROVE  Belongs(x, page.detail.id)'
        <4>1. PostOK(call[s], Made)
          BY <1>0, <3>3, RequestKinds DEF Shape, Posts
        <4>2. x[1] # 1 /\ x[2] = call[s].what
          BY <3>3, <4>1 DEF PostOK, Posts
        <4>3. ~overlapped' => call[s].what = page.detail.id
          BY <2>1, <2>2, <3>3 DEF ItemsBelong
        <4>. QED
          BY <2>1, <4>2, <4>3 DEF Belongs
      <3>. QED
        BY <2>2, <3>1, <3>2, <3>3 DEF Ticked
    <2>3. page'.detail # Unset => \A x \in page'.ids : Belongs(x, page.detail.id)'
      BY <2>1, <2>2
    <2>4. ASSUME NEW s \in Slot, call'[s].at = "post"
          PROVE  call'[s] = call[s]
      BY <2>1, <2>4 DEF Fresh
    <2>5. ASSUME NEW s \in Slot, Posts(call'[s], "items"), NEW x \in call'[s].what
          PROVE  Belongs(x, call[s].v)'
      BY <2>1, <2>4, <2>5 DEF ItemsBelong, Belongs, Posts
    <2>6. ~overlapped' => \A s \in Slot :
            Posts(call'[s], "item") /\ page'.detail # Unset => page'.detail.id = call'[s].what
      BY <2>1, <2>4 DEF ItemsBelong, Posts
    <2>. QED
      BY <2>3, <2>5, <2>6 DEF ItemsBelong
  <1>2. CASE Arrived
    <2>1. PICK s \in Slot : Arrives(s)
      BY <1>2 DEF Arrived
    <2>2. /\ call'[s] = Idle /\ call[s].at = "detail" /\ \A t \in Slot \ {s} : call'[t] = call[t]
          /\ overlapped => overlapped'
          /\ page'.detail = Unset \/ \A x \in page'.ids : x[2] = page'.detail.id
      BY <1>0, <2>1 DEF Arrives, Recorded
    <2>3. page'.detail # Unset => \A x \in page'.ids : Belongs(x, page.detail.id)'
      BY <2>2 DEF Belongs
    <2>4. ASSUME NEW t \in Slot, call'[t].at = "post"
          PROVE  t # s /\ call'[t] = call[t]
      BY <2>2, <2>4, IdleShape
    <2>5. ASSUME NEW t \in Slot, Posts(call'[t], "items"), NEW x \in call'[t].what
          PROVE  Belongs(x, call[t].v)'
      BY <2>2, <2>4, <2>5 DEF ItemsBelong, Belongs, Posts
    <2>6. ~overlapped' => \A t \in Slot : call'[t].at # "post"
      BY <2>2, <2>4 DEF OneAtATime
    <2>. QED
      BY <2>3, <2>5, <2>6 DEF ItemsBelong, Posts
  <1>3. CASE Sent
    <2>1. PICK s \in Slot : Sends(s, call'[s]) /\ PostOfPage(call'[s])
      BY <1>3 DEF Sent
    <2>2. /\ \A t \in Slot \ {s} : call'[t] = call[t]
          /\ page'.detail = page.detail /\ page'.ids = page.ids
          /\ overlapped => overlapped'
          /\ call'[s].kind = "items" => page.detail # Unset /\ call'[s].v = page.detail.id /\ call'[s].what = page.ids
          /\ call'[s].kind = "item" => call'[s].what = page.detail.id
      BY <1>0, <2>1 DEF Sends, PostOfPage, Recorded
    <2>3. page'.detail # Unset => \A x \in page'.ids : Belongs(x, page.detail.id)'
      BY <2>2 DEF ItemsBelong, Belongs
    <2>4. ASSUME NEW t \in Slot, Posts(call'[t], "items"), NEW x \in call'[t].what
          PROVE  Belongs(x, call[t].v)'
      <3>1. CASE t = s
        BY <2>2, <2>3, <2>4, <3>1 DEF Belongs, Posts
      <3>2. CASE t # s
        BY <2>2, <2>4, <3>2 DEF ItemsBelong, Belongs
      <3>. QED
        BY <3>1, <3>2
    <2>5. ~overlapped' => \A t \in Slot :
            Posts(call'[t], "item") /\ page'.detail # Unset => page'.detail.id = call'[t].what
      BY <2>2 DEF ItemsBelong, Posts
    <2>. QED
      BY <2>3, <2>4, <2>5 DEF ItemsBelong
  <1>4. CASE UNCHANGED <<page, overlapped>> /\ \A t \in Slot : call'[t] = call[t]
    BY <1>4 DEF ItemsBelong, Belongs
  <1>5. CASE SheetMoves \/ ConsoleMoves
    BY <1>0, <1>4, <1>5 DEF SheetMoves, ConsoleMoves, OfCaller
  <1>6. ASSUME NEW s \in DOMAIN call, Served(s) PROVE ItemsBelong'
    <2>1. UNCHANGED <<page, overlapped>>
      BY <1>6 DEF Served
    <2>2. ASSUME NEW t \in Slot, NEW kind \in {"item", "items"}, Posts(call'[t], kind)
          PROVE  Posts(call[t], kind) /\ call'[t].v = call[t].v /\ call'[t].what = call[t].what
      <3>1. t \in DOMAIN call /\ t \notin Stray
        BY <1>0
      <3>2. Posts(call[t], kind) /\ call'[t].v = call[t].v
        BY <1>6, <2>2, <3>1, ServedStays DEF Posts
      <3>3. call'[t].what = call[t].what
        BY <1>6, <3>1, <3>2 DEF Served, Continues, Posts
      <3>. QED
        BY <3>2, <3>3
    <2>3. ASSUME NEW t \in Slot, Posts(call'[t], "items"), NEW x \in call'[t].what
          PROVE  Belongs(x, call[t].v)'
      BY <2>1, <2>2, <2>3 DEF ItemsBelong, Belongs
    <2>4. ~overlapped' => \A t \in Slot :
            Posts(call'[t], "item") /\ page'.detail # Unset => page'.detail.id = call'[t].what
      BY <2>1, <2>2 DEF ItemsBelong
    <2>. QED
      BY <2>1, <2>3, <2>4 DEF ItemsBelong, Belongs
  <1>7. CASE UNCHANGED builderVars
    BY <1>4, <1>7 DEF builderVars
  <1>8. CASE Opened
    <2>1. /\ page'.detail = Unset /\ \A t \in Slot : Fresh(call'[t])
      BY <1>8 DEF Opened
    <2>. QED
      BY <2>1 DEF ItemsBelong, Fresh, Posts
  <1>9. ASSUME NEW s \in Callers, NEW g \in Callers, Abandons(s, g) PROVE ItemsBelong'
    <2>1. UNCHANGED <<page, overlapped>> /\ \A t \in Slot : t # s => call'[t] = call[t]
      BY <1>0, <1>9 DEF Abandons
    <2>2. /\ call[s].at = "post" /\ call'[s].at = "post" /\ call'[s].kind = call[s].kind
          /\ call'[s].v = call[s].v /\ call'[s].what = call[s].what
      BY <1>9, AbandonedPost
    <2>. QED
      BY <2>1, <2>2 DEF ItemsBelong, Belongs, Posts
  <1>. QED
    BY <1>1, <1>2, <1>3, <1>5, <1>6, <1>7, <1>8, <1>9, StepsOfPages DEF Abandoned

(***************************************************************************)
(* The items the builder sends for a version were loaded with it or ticked *)
(* while it was shown (ItemsStayWithTheirVersion), with any number of      *)
(* versions, items and requests that overlap.                              *)
(***************************************************************************)
THEOREM ItemsStay == BuilderSpec => []ItemsStayWithTheirVersion
  <1>. DEFINE Inv == Shape /\ OneAtATime /\ ItemsBelong
  <1>1. BuilderInit => ItemsBelong
    <2>. SUFFICES ASSUME BuilderInit PROVE ItemsBelong
      OBVIOUS
    <2>2. /\ page.detail = Unset
          /\ call = [s \in Callers |-> FirstCall(s)]
      BY NewPageShape DEF BuilderInit, Callers
    <2>4. \A s \in Slot : call[s].at \in {"idle", "list"}
      BY <2>2, FirstCalls, CallersApart
    <2>. QED
      BY <2>2, <2>4 DEF ItemsBelong, Posts
  <1>2. BuilderInit => Inv
    BY <1>1, ShapeInitially
  <1>3. Inv /\ [BuilderNext]_builderVars => Inv'
    BY ShapeStep, ItemsBelongStep
  <1>4. Inv => ItemsStayWithTheirVersion
    BY DEF ItemsBelong, Belongs, Posts, ItemsStayWithTheirVersion
  <1>. QED
    BY <1>2, <1>3, <1>4, PTL DEF BuilderSpec
=============================================================================
