-------------------------- MODULE CatalogueProofs --------------------------
(***************************************************************************)
(* The safety properties of Catalogue, for any number of products, users,  *)
(* pictures, options, values, variants and calls and any size of a page.   *)
(* Four invariants, one for each thing the module is about, on top of the  *)
(* shape of the state: PInv says where the picture of an owner is that has *)
(* one request at a time, VInv what a variant and a generation consist of, *)
(* CInv counts the variants of a combination together with the branches    *)
(* that have still to make one, and Walking says how far a client has      *)
(* read.  CInv needs VInv; the others need only the shape.                 *)
(***************************************************************************)
EXTENDS Catalogue, SequenceTheorems, FiniteSetTheorems, TLAPS

-----------------------------------------------------------------------------
(* The shape of the state                                                  *)

Steps == {"idle", "update", "move", "out", "generate"}
CallType == [at : Steps, of : Owners \cup {None},
             new : Pictures \cup {None}, old : Pictures \cup {None}]

\* A call that goes on has an owner, and the pictures its step is about; only
\* a generation has variants to make.
StepFits(c) ==
  /\ call[c].at = "idle" => call[c] = Idle
  /\ call[c].at # "idle" => call[c].of \in Owners
  /\ call[c].at \in {"update", "generate"} => call[c].of \in Products
  /\ call[c].at \in {"update", "move"} => call[c].new \in Pictures
  /\ call[c].at = "out" => call[c].old \in Pictures
  /\ call[c].at # "generate" => plan[c] = {} /\ made[c] = {}

RowsFit == rows \in Seq(Products) /\ IsInjective(rows)
PicturesFit ==
  /\ picture \in [Owners -> Pictures \cup {None}]
  /\ place \in [Pictures -> {"none", "temp", "image"}]
VarietyFits ==
  /\ productOf \in [Options -> Products \cup {None}]
  /\ values \subseteq Values
  /\ \A x \in values : productOf[OptionOf(x)] # None
  /\ variantOf \in [Variants -> Products \cup {None}]
  /\ links \in [Variants -> SUBSET Values]
CallsFit ==
  /\ call \in [Calls -> CallType]
  /\ plan \in [Calls -> SUBSET SUBSET Values]
  /\ made \in [Calls -> SUBSET (Variants \X SUBSET Values)]
  /\ \A c \in Calls : StepFits(c)
WalkFits ==
  walk \in [at : {"none", "find", "count", "over", "off"}, page : Nat \ {0},
            there : SUBSET Products, seen : SUBSET Products]
ObserversFit ==
  tidy \subseteq Owners /\ plain \subseteq Products /\ runs \in [Products -> Nat]

TInv == /\ RowsFit /\ PicturesFit /\ VarietyFits /\ CallsFit /\ WalkFits
        /\ ObserversFit

USE NoneAssumption, LinksAssumption, LimitAssumption, OptionAssumption

\* A row is put at the end.
LEMMA AppendFits ==
  ASSUME RowsFit, NEW p \in Products, p \notin Rows, rows' = Append(rows, p)
  PROVE  RowsFit'
<1>1. /\ rows' \in Seq(Products) /\ Len(rows') = Len(rows) + 1
      /\ \A i \in 1..Len(rows) : rows'[i] = rows[i]
      /\ rows'[Len(rows) + 1] = p
  BY AppendProperties DEF RowsFit
<1>2. DOMAIN rows = 1..Len(rows) /\ DOMAIN rows' = 1..(Len(rows) + 1)
      /\ Len(rows) \in Nat
  BY <1>1 DEF RowsFit
<1>3. \A i \in 1..Len(rows) : rows[i] # p
  BY <1>2 DEF Rows, Range
<1>4. IsInjective(rows')
  BY <1>1, <1>2, <1>3 DEF RowsFit, IsInjective
<1> QED BY <1>1, <1>4 DEF RowsFit

\* A row is taken out.
LEMMA RemoveFits ==
  ASSUME RowsFit, NEW i \in DOMAIN rows, rows' = RemoveAt(rows, i)
  PROVE  RowsFit'
<1> DEFINE s == SubSeq(rows, 1, i - 1)
           t == SubSeq(rows, i + 1, Len(rows))
           n == Len(rows)
<1>0. n \in Nat /\ DOMAIN rows = 1..n /\ i \in 1..n
  BY DEF RowsFit
<1>1. s \in Seq(Products) /\ Len(s) = i - 1 /\ \A j \in 1..(i - 1) : s[j] = rows[j]
  BY <1>0 DEF RowsFit
<1>2. t \in Seq(Products) /\ Len(t) = n - i /\ \A j \in 1..(n - i) : t[j] = rows[i + j]
  BY <1>0 DEF RowsFit
<1>3. rows' = s \o t
  BY DEF RemoveAt
<1> HIDE DEF s, t
<1>4. /\ rows' \in Seq(Products) /\ Len(rows') = n - 1
      /\ \A j \in 1..(n - 1) : rows'[j] = IF j < i THEN rows[j] ELSE rows[j + 1]
  <2>1. s \o t \in Seq(Products) /\ Len(s \o t) = Len(s) + Len(t)
    BY <1>1, <1>2, ConcatProperties
  <2>2. ASSUME NEW j \in 1..(n - 1)
        PROVE  (s \o t)[j] = IF j < i THEN rows[j] ELSE rows[j + 1]
    <3>1. (s \o t)[j] = IF j <= Len(s) THEN s[j] ELSE t[j - Len(s)]
      BY <1>0, <1>1, <1>2, ConcatProperties
    <3>2. CASE j < i
      BY <3>1, <3>2, <1>0, <1>1
    <3>3. CASE ~(j < i)
      <4>1. (s \o t)[j] = t[j - (i - 1)] /\ j - (i - 1) \in 1..(n - i)
        BY <3>1, <3>3, <1>0, <1>1
      <4>2. i + (j - (i - 1)) = j + 1
        BY <1>0
      <4> QED BY <4>1, <4>2, <3>3, <1>2
    <3> QED BY <3>2, <3>3
  <2>3. Len(s) + Len(t) = n - 1
    BY <1>0, <1>1, <1>2
  <2> QED BY <2>1, <2>2, <2>3, <1>3
<1>5. DOMAIN rows' = 1..(n - 1)
  BY <1>4
<1>6. IsInjective(rows')
  <2>1. \A a, b \in 1..n : rows[a] = rows[b] => a = b
    BY <1>0 DEF RowsFit, IsInjective
  <2>2. SUFFICES ASSUME NEW a \in 1..(n - 1), NEW b \in 1..(n - 1), rows'[a] = rows'[b]
                 PROVE  a = b
    BY <1>5 DEF IsInjective
  <2> QED BY <2>1, <2>2, <1>4, <1>0
<1> QED BY <1>4, <1>6 DEF RowsFit

\* A page lists products.
LEMMA PageLists ==
  ASSUME RowsFit, NEW page \in Nat \ {0}
  PROVE  /\ Range(Page(page)) \subseteq Products
         /\ \A j \in 1..Len(rows) :
              Len(rows) + 1 - j \in (page - 1) * Limit + 1 .. page * Limit
                => rows[j] \in Range(Page(page))
<1> DEFINE n == Len(rows)
           newest == Reverse(rows)
           low == (page - 1) * Limit
           high == IF low + Limit < n THEN low + Limit ELSE n
<1>1. n \in Nat /\ low \in Nat /\ high \in Nat /\ page * Limit = low + Limit /\ high <= n
  BY DEF RowsFit
<1>2. /\ newest = [i \in 1..n |-> rows[n - i + 1]]
      /\ newest \in Seq(Products) /\ Len(newest) = n
  <2>1. newest = [i \in 1..n |-> rows[n - i + 1]]
    BY DEF Reverse
  <2>2. \A i \in 1..n : rows[n - i + 1] \in Products
    BY <1>1 DEF RowsFit
  <2> QED BY <2>1, <2>2, <1>1, IsASeq
<1>3. Page(page) = SubSeq(newest, low + 1, high)
  BY DEF Page, Skipped
<1> HIDE DEF newest, low, high, n
<1>4. CASE high < low + 1
  <2>1. Page(page) = << >>
    BY <1>1, <1>2, <1>3, <1>4, SubSeqEmpty
  <2>2. \A j \in 1..n : n + 1 - j \notin low + 1 .. page * Limit
    BY <1>1, <1>4 DEF high
  <2> QED BY <2>1, <2>2 DEF Range, n, low
<1>5. CASE low + 1 <= high
  <2> DEFINE s == SubSeq(newest, low + 1, high)
  <2>1. /\ s \in Seq(Products) /\ Len(s) = high - low
        /\ \A i \in 1..(high - low) : s[i] = newest[low + i]
    BY <1>1, <1>2, <1>5, SubSeqProperties
  <2> HIDE DEF s
  <2>2. DOMAIN s = 1..(high - low) /\ Range(s) \subseteq Products
    BY <2>1 DEF Range
  <2>3. ASSUME NEW j \in 1..n, n + 1 - j \in low + 1 .. page * Limit
        PROVE  rows[j] \in Range(s)
    <3> DEFINE d == n + 1 - j
    <3>1. d \in low + 1 .. high /\ d \in 1..n
      BY <2>3, <1>1 DEF high
    <3>2. d - low \in 1..(high - low) /\ low + (d - low) = d
      BY <3>1, <1>1
    <3>3. s[d - low] = newest[d]
      BY <3>2, <2>1
    <3>4. newest[d] = rows[n - d + 1] /\ n - d + 1 = j
      BY <3>1, <1>1, <1>2
    <3> QED BY <3>2, <3>3, <3>4, <2>2 DEF Range
  <2> QED BY <2>2, <2>3, <1>3 DEF s, n, low
<1> QED BY <1>1, <1>4, <1>5

\* Nothing is there at first.
LEMMA InitTInv == Init => TInv
<1> SUFFICES ASSUME Init PROVE TInv
  OBVIOUS
<1> USE DEF Init
<1>1. RowsFit
  BY DEF RowsFit, IsInjective
<1>2. PicturesFit /\ VarietyFits /\ ObserversFit /\ WalkFits
  BY DEF PicturesFit, VarietyFits, ObserversFit, WalkFits
<1>3. CallsFit
  BY DEF CallsFit, CallType, Steps, StepFits, Idle
<1> QED BY <1>1, <1>2, <1>3 DEF TInv

\* What Begins leaves of the tidy owners.
LEMMA BeginsFits ==
  ASSUME ObserversFit, NEW o, NEW f, Begins(o, f), UNCHANGED <<plain, runs>>
  PROVE  ObserversFit'
BY DEF ObserversFit, Begins

\* Uploads come to temp and go from there.
LEMMA UploadTInv ==
  ASSUME TInv, NEW f \in Pictures, Upload(f) \/ CleanUp(f)
  PROVE  TInv'
<1>1. PicturesFit'
  BY DEF TInv, PicturesFit, Upload, CleanUp
<1>2. UNCHANGED <<rows, variety, call, generation, walk, tidy, plain, runs>>
  BY DEF Upload, CleanUp
<1> QED
  BY <1>1, <1>2 DEF TInv, RowsFit, VarietyFits, CallsFit, StepFits, WalkFits,
    ObserversFit, variety, generation

\* A request that begins without a generation has a step that fits.
LEMMA RequestTInv ==
  ASSUME TInv, NEW c \in Calls, call[c] = Idle,
         UNCHANGED generation,
         NEW r \in CallType, call' = [call EXCEPT ![c] = r],
         r.at \in {"update", "move"}, r.of \in Owners,
         r.at = "update" => r.of \in Products, r.new \in Pictures
  PROVE  CallsFit'
<1> USE DEF TInv, CallsFit, generation
<1>1. call' \in [Calls -> CallType] /\ call'[c] = r
      /\ \A d \in Calls \ {c} : call'[d] = call[d]
  OBVIOUS
<1>2. plan[c] = {} /\ made[c] = {}
  BY DEF StepFits, Idle
<1>3. StepFits(c)'
  BY <1>1, <1>2 DEF StepFits
<1>4. \A d \in Calls \ {c} : StepFits(d)'
  BY <1>1 DEF StepFits
<1> QED BY <1>1, <1>3, <1>4

\* Requests of products and users begin.
LEMMA BeginTInv ==
  ASSUME TInv, NEW c \in Calls,
         \/ \E p \in Products, f \in Pictures \ Links :
              AddNewProduct(c, p, f) \/ EditProduct(c, p, f)
         \/ \E u \in Users, f \in Pictures \cup {None} : UpdateUser(c, u, f)
  PROVE  TInv'
<1> USE DEF TInv
<1>1. ASSUME NEW p \in Products, NEW f \in Pictures, AddNewProduct(c, p, f)
      PROVE  TInv'
  <2>1. RowsFit'
    BY <1>1, AppendFits DEF AddNewProduct
  <2>2. PicturesFit'
    BY <1>1 DEF AddNewProduct, PicturesFit, Owners
  <2>3. ObserversFit'
    BY <1>1, BeginsFits DEF AddNewProduct
  <2> DEFINE r == [Idle EXCEPT !.at = "move", !.of = p, !.new = f]
  <2>4. r \in CallType /\ r.at = "move" /\ r.of = p /\ r.new = f
    BY DEF CallType, Steps, Idle, Owners
  <2>5. call' = [call EXCEPT ![c] = r] /\ call[c] = Idle /\ UNCHANGED generation
    BY <1>1 DEF AddNewProduct
  <2> HIDE DEF r
  <2>6. CallsFit'
    BY <2>4, <2>5, RequestTInv DEF Owners
  <2>7. VarietyFits' /\ WalkFits'
    BY <1>1 DEF AddNewProduct, VarietyFits, WalkFits, variety
  <2> QED BY <2>1, <2>2, <2>3, <2>6, <2>7
<1>2. ASSUME NEW p \in Products, NEW f \in Pictures, EditProduct(c, p, f)
      PROVE  TInv'
  <2>1. RowsFit' /\ PicturesFit' /\ VarietyFits' /\ WalkFits'
    BY <1>2 DEF EditProduct, RowsFit, PicturesFit, VarietyFits, WalkFits, variety, tables
  <2>2. ObserversFit'
    BY <1>2, BeginsFits DEF EditProduct
  <2> DEFINE r == [at |-> "update", of |-> p, new |-> f, old |-> picture[p]]
  <2>3. r \in CallType /\ r.at = "update" /\ r.of = p /\ r.new = f
    BY DEF CallType, Steps, Owners, PicturesFit
  <2>4. call' = [call EXCEPT ![c] = r] /\ call[c] = Idle /\ UNCHANGED generation
    BY <1>2 DEF EditProduct
  <2> HIDE DEF r
  <2>5. CallsFit'
    BY <2>3, <2>4, RequestTInv DEF Owners
  <2> QED BY <2>1, <2>2, <2>5
<1>3. ASSUME NEW u \in Users, NEW f \in Pictures \cup {None}, UpdateUser(c, u, f)
      PROVE  TInv'
  <2> DEFINE g == IF f = None THEN picture[u] ELSE f
  <2>0. g \in Pictures \cup {None} /\ u \in Owners
    BY DEF PicturesFit, Owners
  <2>1. RowsFit' /\ VarietyFits' /\ WalkFits' /\ PicturesFit'
    BY <1>3, <2>0 DEF UpdateUser, RowsFit, PicturesFit, VarietyFits, WalkFits, variety
  <2>2. UNCHANGED <<plain, runs, generation>> /\ call[c] = Idle
    BY <1>3 DEF UpdateUser
  <2>3. CASE g = None
    <3>1. UNCHANGED <<call, tidy>>
      BY <1>3, <2>3 DEF UpdateUser
    <3> QED BY <2>1, <2>2, <3>1 DEF CallsFit, StepFits, ObserversFit, generation
  <2>4. CASE g # None
    <3> DEFINE r == [Idle EXCEPT !.at = "move", !.of = u, !.new = g]
    <3>1. call' = [call EXCEPT ![c] = r] /\ Begins(u, g)
      BY <1>3, <2>4 DEF UpdateUser
    <3>2. r \in CallType /\ r.at = "move" /\ r.of = u /\ r.new = g /\ g \in Pictures
      BY <2>0, <2>4 DEF CallType, Steps, Idle
    <3>3. ObserversFit'
      BY <3>1, <2>2, BeginsFits
    <3> HIDE DEF r, g
    <3>4. CallsFit'
      BY <3>1, <3>2, <2>0, <2>2, RequestTInv
    <3> QED BY <2>1, <3>3, <3>4
  <2> QED BY <2>3, <2>4
<1> QED BY <1>1, <1>2, <1>3

\* A request that is not a generation ends, or goes on with its pictures.
LEMMA GoesOnTInv ==
  ASSUME TInv, NEW c \in Calls, call[c].at \in {"update", "move", "out"},
         UNCHANGED generation,
         \/ Ends(c)
         \/ Goto(c, "move") /\ call[c].at = "update"
         \/ Goto(c, "out") /\ call[c].old # None
  PROVE  CallsFit'
<1> USE DEF TInv, CallsFit, generation
<1>0. plan[c] = {} /\ made[c] = {} /\ call[c] \in CallType
      /\ call[c].of \in Owners
  BY DEF StepFits
<1>1. CASE Ends(c)
  <2>1. call' \in [Calls -> CallType] /\ call'[c] = Idle
        /\ \A d \in Calls \ {c} : call'[d] = call[d]
    BY <1>1 DEF Ends, CallType, Steps, Idle
  <2>2. StepFits(c)'
    BY <2>1, <1>0 DEF StepFits, Idle
  <2>3. \A d \in Calls \ {c} : StepFits(d)'
    BY <2>1 DEF StepFits
  <2> QED BY <2>1, <2>2, <2>3
<1>2. ASSUME NEW s \in {"move", "out"}, Goto(c, s),
             s = "move" => call[c].at = "update", s = "out" => call[c].old # None
      PROVE  CallsFit'
  <2>1. call' \in [Calls -> CallType] /\ call'[c] = [call[c] EXCEPT !.at = s]
        /\ \A d \in Calls \ {c} : call'[d] = call[d]
    BY <1>2 DEF Goto, CallType, Steps
  <2>2. /\ call'[c].at = s /\ call'[c].of = call[c].of
        /\ call'[c].new = call[c].new /\ call'[c].old = call[c].old
    BY <2>1, <1>0 DEF CallType
  <2>3. StepFits(c)'
    BY <2>2, <1>0, <1>2 DEF StepFits, CallType
  <2>4. \A d \in Calls \ {c} : StepFits(d)'
    BY <2>1 DEF StepFits
  <2> QED BY <2>1, <2>3, <2>4
<1> QED BY <1>1, <1>2

\* Requests of products and users go on.
LEMMA StepTInv ==
  ASSUME TInv, NEW c \in Calls,
         UpdateProduct(c) \/ MoveIn(c) \/ MoveOut(c) \/ RequestFails(c)
  PROVE  TInv'
<1> USE DEF TInv
<1>1. UNCHANGED <<rows, variety, generation, walk, plain, runs>>
  BY DEF UpdateProduct, MoveIn, MoveOut, RequestFails, tables
<1>2. CallsFit'
  BY <1>1, GoesOnTInv DEF UpdateProduct, MoveIn, MoveOut, RequestFails
<1>3. PicturesFit'
  <2>1. call[c] \in CallType /\ StepFits(c)
    BY DEF CallsFit
  <2>2. CASE UpdateProduct(c)
    BY <2>1, <2>2 DEF PicturesFit, UpdateProduct, CallType
  <2>3. CASE MoveIn(c) \/ MoveOut(c)
    BY <2>1, <2>3 DEF PicturesFit, MoveIn, MoveOut
  <2>4. CASE RequestFails(c)
    BY <2>4 DEF PicturesFit, RequestFails, tables
  <2> QED BY <2>2, <2>3, <2>4
<1>4. ObserversFit'
  BY <1>1 DEF ObserversFit, UpdateProduct, MoveIn, MoveOut, RequestFails
<1>5. RowsFit' /\ VarietyFits' /\ WalkFits'
  BY <1>1 DEF RowsFit, VarietyFits, WalkFits, variety
<1> QED BY <1>2, <1>3, <1>4, <1>5

\* What the options, values and variants are changed to fits.
LEMMA VarietyTInv ==
  ASSUME TInv,
         \/ \E p \in Products, o \in Options : AddOption(o, p)
         \/ \E x \in Values : AddValue(x) \/ DeleteValue(x)
         \/ \E o \in Options : DeleteOption(o)
         \/ \E v \in Variants : DeleteVariant(v)
  PROVE  TInv'
<1> USE DEF TInv
<1>1. UNCHANGED <<tables, call, generation, walk, tidy, runs>> /\ plain' \subseteq plain
  BY DEF AddOption, AddValue, DeleteValue, DeleteOption, DeleteVariant, Disturbs
<1>2. VarietyFits'
  <2>1. ASSUME NEW p \in Products, NEW o \in Options, AddOption(o, p)
        PROVE  VarietyFits'
    BY <2>1 DEF VarietyFits, AddOption
  <2>2. ASSUME NEW x \in Values, AddValue(x)
        PROVE  VarietyFits'
    BY <2>2 DEF VarietyFits, AddValue
  <2>3. ASSUME NEW x \in Values, DeleteValue(x)
        PROVE  VarietyFits'
    BY <2>3 DEF VarietyFits, DeleteValue, Unlinked
  <2>4. ASSUME NEW o \in Options, DeleteOption(o)
        PROVE  VarietyFits'
    BY <2>4 DEF VarietyFits, DeleteOption, Unlinked, ValuesOf
  <2>5. ASSUME NEW v \in Variants, DeleteVariant(v)
        PROVE  VarietyFits'
    BY <2>5 DEF VarietyFits, DeleteVariant
  <2> QED BY <2>1, <2>2, <2>3, <2>4, <2>5
<1> QED
  BY <1>1, <1>2 DEF RowsFit, PicturesFit, CallsFit, StepFits, WalkFits, ObserversFit,
    tables, generation

\* A generation begins, makes its variants and ends.
LEMMA GenerationTInv ==
  ASSUME TInv, NEW c \in Calls,
         \/ \E p \in Products : Generate(c, p)
         \/ \E s \in plan[c] : CreateVariant(c, s)
         \/ \E m \in made[c] : CreateValues(c, m)
         \/ BranchFails(c) \/ Generates(c)
  PROVE  TInv'
<1> USE DEF TInv
<1>0. UNCHANGED <<tables, productOf, values, walk, tidy>>
  BY DEF Generate, CreateVariant, CreateValues, BranchFails, Generates, variety
<1>1. RowsFit' /\ PicturesFit' /\ WalkFits'
  BY <1>0 DEF tables, RowsFit, PicturesFit, WalkFits
<1>2. ObserversFit'
  <2>1. ASSUME NEW p \in Products, Generate(c, p) PROVE ObserversFit'
    <3>1. runs' = [runs EXCEPT ![p] = runs[p] + 1] /\ UNCHANGED <<tidy, plain>>
      BY <2>1 DEF Generate
    <3>2. runs[p] + 1 \in Nat
      BY DEF ObserversFit
    <3> QED BY <3>1, <3>2 DEF ObserversFit
  <2>2. CASE UNCHANGED runs /\ plain' \subseteq plain
    BY <1>0, <2>2 DEF ObserversFit
  <2>3. CASE BranchFails(c)
    BY <2>2, <2>3 DEF BranchFails
  <2>4. ASSUME NEW s \in plan[c], CreateVariant(c, s) PROVE ObserversFit'
    BY <2>2, <2>4 DEF CreateVariant
  <2>5. ASSUME NEW m \in made[c], CreateValues(c, m) PROVE ObserversFit'
    BY <2>2, <2>5 DEF CreateValues
  <2>6. CASE Generates(c)
    BY <2>2, <2>6 DEF Generates
  <2> QED BY <2>1, <2>3, <2>4, <2>5, <2>6
<1>3. VarietyFits'
  <2>1. CASE UNCHANGED variety
    BY <2>1 DEF variety, VarietyFits
  <2>2. ASSUME NEW s \in plan[c], CreateVariant(c, s)
        PROVE  VarietyFits'
    <3>1. plan[c] # {} /\ call[c].of \in Products
      BY <2>2 DEF CallsFit, StepFits
    <3> QED BY <2>2, <3>1 DEF VarietyFits, CreateVariant
  <2>3. ASSUME NEW m \in made[c], CreateValues(c, m)
        PROVE  VarietyFits'
    <3>1. m \in Variants \X SUBSET Values
      BY DEF CallsFit
    <3> QED BY <2>3, <3>1 DEF VarietyFits, CreateValues, Linked
  <2> QED
    BY <2>1, <2>2, <2>3 DEF Generate, BranchFails, Generates
<1>4. CallsFit'
  <2> USE DEF CallsFit
  <2>1. ASSUME NEW p \in Products, Generate(c, p)
        PROVE  CallsFit'
    <3> DEFINE r == [Idle EXCEPT !.at = "generate", !.of = p]
    <3>1. r \in CallType /\ r.at = "generate" /\ r.of = p
      BY DEF CallType, Steps, Idle, Owners
    <3>2. call' = [call EXCEPT ![c] = r] /\ UNCHANGED made
      BY <2>1 DEF Generate
    <3>3. Combinations(p) \subseteq SUBSET Values
      <4>1. \A s \in Combinations(p) : s \subseteq values
        BY DEF Combinations
      <4> QED BY <4>1 DEF VarietyFits
    <3>4. plan' = [plan EXCEPT ![c] = Combinations(p)]
      BY <2>1 DEF Generate
    <3>5. plan' \in [Calls -> SUBSET SUBSET Values]
      BY <3>3, <3>4
    <3> HIDE DEF r
    <3>6. call' \in [Calls -> CallType] /\ call'[c] = r
          /\ \A d \in Calls \ {c} : call'[d] = call[d] /\ plan'[d] = plan[d]
      BY <3>1, <3>2, <3>4
    <3>7. \A d \in Calls : StepFits(d)'
      BY <3>1, <3>2, <3>6 DEF StepFits, Owners
    <3> QED BY <3>2, <3>5, <3>6, <3>7
  <2>2. ASSUME NEW s \in plan[c], CreateVariant(c, s)
        PROVE  CallsFit'
    <3>1. call[c].at = "generate" /\ s \in SUBSET Values
      BY DEF StepFits
    <3>2. PICK v \in Variants : made' = [made EXCEPT ![c] = @ \cup {<<v, s>>}]
      BY <2>2 DEF CreateVariant
    <3>3. plan' = [plan EXCEPT ![c] = @ \ {s}] /\ UNCHANGED call
      BY <2>2 DEF CreateVariant
    <3>4. made' \in [Calls -> SUBSET (Variants \X SUBSET Values)]
      BY <3>1, <3>2
    <3>5. plan' \in [Calls -> SUBSET SUBSET Values]
      BY <3>3
    <3>6. \A d \in Calls : StepFits(d)'
      BY <3>1, <3>2, <3>3 DEF StepFits
    <3> QED BY <3>3, <3>4, <3>5, <3>6
  <2>3. ASSUME NEW m \in made[c], CreateValues(c, m)
        PROVE  CallsFit'
    <3>1. call[c].at = "generate"
      BY DEF StepFits
    <3>2. made' = [made EXCEPT ![c] = @ \ {m}] /\ UNCHANGED <<call, plan>>
      BY <2>3 DEF CreateValues
    <3>3. made' \in [Calls -> SUBSET (Variants \X SUBSET Values)]
      BY <3>2
    <3>4. \A d \in Calls : StepFits(d)'
      BY <3>1, <3>2 DEF StepFits
    <3> QED BY <3>2, <3>3, <3>4
  <2>4. CASE BranchFails(c)
    <3>1. /\ plan' \in [Calls -> SUBSET SUBSET Values]
          /\ made' \in [Calls -> SUBSET (Variants \X SUBSET Values)]
          /\ \A d \in Calls : plan'[d] \subseteq plan[d] /\ made'[d] \subseteq made[d]
      BY <2>4 DEF BranchFails
    <3>2. UNCHANGED call
      BY <2>4 DEF BranchFails
    <3>3. \A d \in Calls : StepFits(d)'
      BY <3>1, <3>2 DEF StepFits
    <3> QED BY <3>1, <3>2, <3>3
  <2>5. CASE Generates(c)
    <3>1. call' \in [Calls -> CallType] /\ call'[c] = Idle
          /\ \A d \in Calls \ {c} : call'[d] = call[d]
      BY <2>5 DEF Generates, Ends, CallType, Steps, Idle
    <3>2. UNCHANGED <<plan, made>> /\ plan[c] = {} /\ made[c] = {}
      BY <2>5 DEF Generates, generation
    <3>3. \A d \in Calls : StepFits(d)'
      BY <3>1, <3>2 DEF StepFits, Idle
    <3> QED BY <3>1, <3>2, <3>3
  <2> QED BY <2>1, <2>2, <2>3, <2>4, <2>5
<1> QED BY <1>1, <1>2, <1>3, <1>4

\* A product goes with all that hangs on it.
LEMMA DeleteTInv ==
  ASSUME TInv, NEW p \in Products, DeleteProduct(p)
  PROVE  TInv'
<1> USE DEF TInv, DeleteProduct
<1>1. RowsFit'
  BY RemoveFits
<1>2. PicturesFit' /\ ObserversFit'
  BY DEF PicturesFit, ObserversFit
<1>3. VarietyFits'
  BY DEF VarietyFits
<1>4. CallsFit'
  BY DEF CallsFit, StepFits, generation
<1>5. WalkFits'
  BY DEF WalkFits
<1> QED BY <1>1, <1>2, <1>3, <1>4, <1>5

\* The end of the process takes the requests.
LEMMA CrashTInv ==
  ASSUME TInv, Crash
  PROVE  TInv'
<1> USE DEF TInv, Crash
<1>1. RowsFit' /\ PicturesFit' /\ VarietyFits' /\ WalkFits' /\ ObserversFit'
  BY DEF RowsFit, PicturesFit, VarietyFits, WalkFits, ObserversFit, tables, variety
<1>2. CallsFit'
  BY DEF CallsFit, StepFits, CallType, Steps, Idle
<1> QED BY <1>1, <1>2

\* A client reads on.
LEMMA ReadTInv ==
  ASSUME TInv, ReadPage \/ ReadCount
  PROVE  TInv'
<1> USE DEF TInv
<1>1. UNCHANGED <<tables, variety, call, generation, tidy, plain, runs>>
  BY DEF ReadPage, ReadCount
<1>2. WalkFits'
  <2>1. \A page \in Nat \ {0} : Range(Page(page)) \subseteq Products
    BY PageLists
  <2>2. Rows \subseteq Products
    BY DEF RowsFit, Rows, Range
  <2>3. CASE ReadPage
    <3>1. Range(Page(1)) \subseteq Products /\ Range(Page(walk.page)) \subseteq Products
      BY <2>1 DEF WalkFits
    <3>2. CASE walk' = [at |-> "count", page |-> 1, there |-> Rows,
                        seen |-> Range(Page(1))]
      BY <2>2, <3>1, <3>2 DEF WalkFits
    <3>3. CASE walk' = [walk EXCEPT !.at = "count", !.seen = @ \cup Range(Page(walk.page))]
      BY <3>1, <3>3 DEF WalkFits
    <3> QED BY <2>3, <3>2, <3>3 DEF ReadPage
  <2>4. CASE ReadCount
    <3>1. walk.page + 1 \in Nat \ {0}
      BY DEF WalkFits
    <3>2. CASE walk' = [walk EXCEPT !.at = "find", !.page = @ + 1]
      BY <3>1, <3>2 DEF WalkFits
    <3>3. CASE walk' = [walk EXCEPT !.at = "over"]
      BY <3>3 DEF WalkFits
    <3> QED BY <2>4, <3>2, <3>3 DEF ReadCount
  <2> QED BY <2>3, <2>4
<1> QED
  BY <1>1, <1>2 DEF RowsFit, PicturesFit, VarietyFits, CallsFit, StepFits, ObserversFit,
    tables, variety, generation

\* Every step keeps the shape.
LEMMA NextTInv == TInv /\ [Next]_vars => TInv'
<1> SUFFICES ASSUME TInv, [Next]_vars PROVE TInv'
  OBVIOUS
<1>1. CASE UNCHANGED vars
  BY <1>1 DEF vars, tables, variety, generation, TInv, RowsFit, PicturesFit,
    VarietyFits, CallsFit, StepFits, WalkFits, ObserversFit
<1>2. CASE Next
  BY <1>2, UploadTInv, BeginTInv, StepTInv, VarietyTInv, GenerationTInv, DeleteTInv,
    CrashTInv, ReadTInv DEF Next
<1> QED BY <1>1, <1>2

\* The shape holds always.
LEMMA Shape == Spec => []TInv
BY InitTInv, NextTInv, PTL DEF Spec

\* Every variable of Catalogue has its type, and no product is listed twice.
THEOREM TypeCorrect == Spec => []TypeOK
<1>1. TInv => TypeOK
  BY DEF TInv, RowsFit, PicturesFit, VarietyFits, CallsFit, CallType, Steps, WalkFits,
    ObserversFit, TypeOK
<1> QED BY <1>1, Shape, PTL

-----------------------------------------------------------------------------
(* Pictures                                                                *)

\* What the row of an owner names, or one of his requests.
Names(o, f) ==
  \/ picture[o] = f
  \/ \E c \in Calls : call[c].of = o /\ f \in {call[c].new, call[c].old}
AtWorkFor(c, o) == call[c].of = o /\ call[c].at # "generate"
Moving(o) == \E c \in Calls : call[c].of = o /\ call[c].at = "move"

\* A tidy owner has one request at a time, generations aside, ...
OneRequest ==
  \A o \in tidy : \A c, d \in Calls : AtWorkFor(c, o) /\ AtWorkFor(d, o) => c = d
\* ... shares no picture with anybody, ...
Unshared ==
  \A o \in tidy, q \in Owners, f \in Pictures : Names(o, f) /\ Names(q, f) => q = o
\* ... has his picture in place unless a request is about to move it, ...
InPlace ==
  \A o \in tidy :
    picture[o] \notin Links \cup {None} /\ ~Moving(o) => place[picture[o]] = "image"
\* ... and his request knows which picture is his.
MovesItsOwn ==
  \A o \in tidy : \A c \in Calls : call[c].of = o =>
    IF call[c].at \in {"move", "out"}
    THEN picture[o] = call[c].new /\ call[c].new # call[c].old
    ELSE call[c].at = "update" => picture[o] = call[c].old

PInv == OneRequest /\ Unshared /\ InPlace /\ MovesItsOwn

\* Steps that only begin or end generations, or make no owner tidy.
LEMMA QuietPInv ==
  ASSUME TInv, PInv, UNCHANGED <<picture, place>>, tidy' \subseteq tidy,
         \A c \in Calls : \/ call'[c] = call[c]
                          \/ /\ call[c].at \in {"idle", "generate"}
                             /\ call'[c].at \in {"idle", "generate"}
                             /\ call'[c].at = "idle" => call'[c].of = None
                             /\ call'[c].new = None /\ call'[c].old = None
  PROVE  PInv'
<1>0. None \notin tidy /\ tidy \subseteq Owners /\ None \notin Pictures
  BY DEF TInv, ObserversFit, Owners
<1>1. \A o \in tidy, c \in Calls : AtWorkFor(c, o)' => AtWorkFor(c, o) /\ call'[c] = call[c]
  BY <1>0 DEF AtWorkFor
<1>2. \A o \in Owners, f \in Pictures : Names(o, f)' => Names(o, f)
  BY <1>0 DEF Names
<1>3. \A o \in tidy : Moving(o)' <=> Moving(o)
  BY DEF Moving
<1>4. OneRequest'
  BY <1>1 DEF PInv, OneRequest
<1>5. Unshared'
  BY <1>0, <1>2 DEF PInv, Unshared
<1>6. InPlace'
  BY <1>3 DEF PInv, InPlace
<1>7. MovesItsOwn'
  BY DEF PInv, MovesItsOwn
<1> QED BY <1>4, <1>5, <1>6, <1>7 DEF PInv

\* An upload and the clean-up touch no picture in place.
LEMMA UploadPInv ==
  ASSUME TInv, PInv, NEW f \in Pictures, Upload(f) \/ CleanUp(f)
  PROVE  PInv'
<1>1. UNCHANGED <<picture, call, tidy>>
  BY DEF Upload, CleanUp
<1>2. \A g \in Pictures : place[g] = "image" => place'[g] = "image"
  BY DEF TInv, PicturesFit, Upload, CleanUp
<1>3. InPlace'
  <2>1. \A o \in tidy : picture[o] \in Pictures \cup {None}
    BY DEF TInv, PicturesFit, ObserversFit
  <2> QED BY <1>1, <1>2, <2>1 DEF PInv, InPlace, Moving
<1>4. OneRequest' /\ Unshared' /\ MovesItsOwn'
  BY <1>1 DEF PInv, OneRequest, Unshared, MovesItsOwn, AtWorkFor, Names
<1> QED BY <1>3, <1>4 DEF PInv

\* A request that begins for o with picture g leaves those tidy who share
\* nothing with it.
LEMMA BeginsTidy ==
  ASSUME TInv, NEW o \in Owners, NEW g \in Pictures, Begins(o, g)
  PROVE  /\ tidy' \subseteq tidy
         /\ o \in tidy' => ~Busy(o) /\ \A q \in Owners \ {o} : ~Names(q, g)
         /\ \A q \in tidy' \ {o} : ~Names(q, g)
<1>1. Sharing(o, g) = {q \in Owners \ {o} : Names(q, g)}
  BY DEF Sharing, Names
<1> QED BY <1>1 DEF Begins, TInv, ObserversFit

\* A request begins.
LEMMA OpeningPInv ==
  ASSUME TInv, PInv, NEW c \in Calls, call[c] = Idle, NEW o \in Owners,
         NEW g \in Pictures, NEW r \in CallType, Begins(o, g),
         UNCHANGED place, call' = [call EXCEPT ![c] = r], r.of = o, r.new = g,
         \/ r.at = "update" /\ r.old = picture[o] /\ picture' = picture
         \/ r.at = "move" /\ r.old = None /\ picture' = [picture EXCEPT ![o] = g]
  PROVE  PInv'
<1>0. /\ None \notin Owners /\ None \notin Pictures /\ tidy \subseteq Owners
      /\ picture \in [Owners -> Pictures \cup {None}]
      /\ call \in [Calls -> CallType]
  BY DEF TInv, ObserversFit, Owners, PicturesFit, CallsFit
<1>1. /\ tidy' \subseteq tidy
      /\ o \in tidy' => ~Busy(o) /\ \A q \in Owners \ {o} : ~Names(q, g)
      /\ \A q \in tidy' \ {o} : ~Names(q, g)
  BY BeginsTidy
<1>2. call'[c] = r /\ \A d \in Calls \ {c} : call'[d] = call[d]
  BY <1>0
<1>3. /\ \A q \in Owners \ {o} : picture'[q] = picture[q]
      /\ r.at = "move" => picture'[o] = g
      /\ picture'[o] \in {g, picture[o]}
  BY <1>0
<1>4. \A q \in Owners, h \in Pictures : Names(q, h)' => Names(q, h) \/ (q = o /\ h = g)
  BY <1>0, <1>2, <1>3 DEF Names
<1>5. call[c].of = None
  BY DEF Idle
<1>6. \A q \in tidy' \ {o} : \A d \in Calls : call'[d].of = q => d # c /\ call[d].of = q
  BY <1>2
<1>7. o \in tidy' => \A d \in Calls : call'[d].of = o => d = c
  BY <1>1, <1>2 DEF Busy
<1>8. OneRequest'
  BY <1>1, <1>2, <1>6, <1>7 DEF PInv, OneRequest, AtWorkFor
<1>9. Unshared'
  <2> SUFFICES ASSUME NEW q \in tidy', NEW t \in Owners, NEW h \in Pictures,
                      Names(q, h)', Names(t, h)'
               PROVE  t = q
    BY DEF Unshared
  <2>0. q \in tidy /\ q \in Owners
    BY <1>0, <1>1
  <2>1. CASE Names(q, h) /\ Names(t, h)
    BY <2>0, <2>1 DEF PInv, Unshared
  <2>2. CASE q = o /\ h = g
    BY <2>2, <1>1, <1>4
  <2>3. CASE t = o /\ h = g /\ q # o
    BY <2>3, <1>1, <1>4, <2>0
  <2> QED BY <1>4, <2>0, <2>1, <2>2, <2>3
<1>10. InPlace'
  <2> SUFFICES ASSUME NEW q \in tidy', picture'[q] \notin Links \cup {None},
                      ~Moving(q)'
               PROVE  place[picture'[q]] = "image"
    BY DEF InPlace
  <2>0. q \in tidy /\ q \in Owners
    BY <1>0, <1>1
  <2>1. CASE q # o
    <3>1. ~Moving(q)
      <4>1. \A d \in Calls : call[d].of = q => d # c
        BY <1>5, <2>0, <1>0
      <4> QED BY <1>2, <4>1 DEF Moving
    <3> QED BY <2>0, <2>1, <3>1, <1>3 DEF PInv, InPlace
  <2>2. CASE q = o
    <3>1. r.at = "update"
      BY <2>2, <1>2 DEF Moving
    <3>2. ~Moving(o) /\ picture' = picture
      BY <3>1, <1>1, <2>2 DEF Moving, Busy
    <3> QED BY <2>0, <2>2, <3>2 DEF PInv, InPlace
  <2> QED BY <2>1, <2>2
<1>11. MovesItsOwn'
  <2> SUFFICES ASSUME NEW q \in tidy', NEW d \in Calls, call'[d].of = q
               PROVE IF call'[d].at \in {"move", "out"}
                     THEN picture'[q] = call'[d].new /\ call'[d].new # call'[d].old
                     ELSE call'[d].at = "update" => picture'[q] = call'[d].old
    BY DEF MovesItsOwn
  <2>0. q \in tidy /\ q \in Owners
    BY <1>0, <1>1
  <2>1. CASE q # o
    BY <2>0, <2>1, <1>2, <1>3, <1>6 DEF PInv, MovesItsOwn
  <2>2. CASE q = o
    BY <2>2, <1>0, <1>2, <1>3, <1>7
  <2> QED BY <2>1, <2>2
<1> QED BY <1>8, <1>9, <1>10, <1>11 DEF PInv

\* Requests of products and users begin.
LEMMA BeginPInv ==
  ASSUME TInv, PInv, NEW c \in Calls,
         \/ \E p \in Products, f \in Pictures \ Links :
              AddNewProduct(c, p, f) \/ EditProduct(c, p, f)
         \/ \E u \in Users, f \in Pictures \cup {None} : UpdateUser(c, u, f)
  PROVE  PInv'
<1>1. ASSUME NEW p \in Products, NEW f \in Pictures, AddNewProduct(c, p, f)
      PROVE  PInv'
  <2> DEFINE r == [Idle EXCEPT !.at = "move", !.of = p, !.new = f]
  <2>1. r \in CallType /\ r.at = "move" /\ r.of = p /\ r.new = f /\ r.old = None
    BY DEF CallType, Steps, Idle, Owners
  <2>2. /\ call' = [call EXCEPT ![c] = r] /\ call[c] = Idle /\ UNCHANGED place
        /\ picture' = [picture EXCEPT ![p] = f] /\ Begins(p, f)
    BY <1>1 DEF AddNewProduct
  <2> HIDE DEF r
  <2> QED BY <2>1, <2>2, OpeningPInv DEF Owners
<1>2. ASSUME NEW p \in Products, NEW f \in Pictures, EditProduct(c, p, f)
      PROVE  PInv'
  <2> DEFINE r == [at |-> "update", of |-> p, new |-> f, old |-> picture[p]]
  <2>1. r \in CallType /\ r.at = "update" /\ r.of = p /\ r.new = f /\ r.old = picture[p]
    BY DEF CallType, Steps, Owners, TInv, PicturesFit
  <2>2. /\ call' = [call EXCEPT ![c] = r] /\ call[c] = Idle
        /\ UNCHANGED <<picture, place>> /\ Begins(p, f)
    BY <1>2 DEF EditProduct, tables
  <2> HIDE DEF r
  <2> QED BY <2>1, <2>2, OpeningPInv DEF Owners
<1>3. ASSUME NEW u \in Users, NEW f \in Pictures \cup {None}, UpdateUser(c, u, f)
      PROVE  PInv'
  <2> DEFINE g == IF f = None THEN picture[u] ELSE f
  <2>0. g \in Pictures \cup {None} /\ u \in Owners
    BY DEF TInv, PicturesFit, Owners
  <2>1. /\ picture' = [picture EXCEPT ![u] = g] /\ UNCHANGED place /\ call[c] = Idle
    BY <1>3 DEF UpdateUser
  <2>2. CASE g = None
    <3>1. UNCHANGED <<call, tidy>>
      BY <1>3, <2>2 DEF UpdateUser
    <3>2. g = picture[u]
      BY <2>2
    <3>3. picture' = picture
      BY <2>1, <3>2 DEF TInv, PicturesFit
    <3> QED BY <2>1, <3>1, <3>3, QuietPInv
  <2>3. CASE g # None
    <3> DEFINE r == [Idle EXCEPT !.at = "move", !.of = u, !.new = g]
    <3>1. call' = [call EXCEPT ![c] = r] /\ Begins(u, g)
      BY <1>3, <2>3 DEF UpdateUser
    <3>2. /\ r \in CallType /\ r.at = "move" /\ r.of = u /\ r.new = g /\ r.old = None
          /\ g \in Pictures
      BY <2>0, <2>3 DEF CallType, Steps, Idle
    <3> HIDE DEF r, g
    <3> QED BY <2>0, <2>1, <3>1, <3>2, OpeningPInv
  <2> QED BY <2>2, <2>3
<1> QED BY <1>1, <1>2, <1>3

\* What the steps of a request that goes on or ends have in common: it names
\* nothing new and stays the only one.
LEMMA GoesOnPInv ==
  ASSUME TInv, PInv, NEW c \in Calls, call[c].at \in {"update", "move", "out"},
         tidy' \subseteq tidy,
         \/ Ends(c)
         \/ Goto(c, "move") /\ call[c].at = "update"
         \/ Goto(c, "out") /\ call[c].at = "move",
         \/ picture' = picture
         \/ picture' = [picture EXCEPT ![call[c].of] = call[c].new]
  PROVE  /\ OneRequest' /\ Unshared'
         /\ \A d \in Calls \ {c} : call'[d] = call[d]
         /\ \A q \in tidy \ {call[c].of} : Moving(q)' <=> Moving(q)
         /\ call[c].of \in tidy =>
              \A d \in Calls \ {c} : call[d].of = call[c].of => call[d].at = "generate"
         /\ \/ call'[c] = Idle
            \/ call'[c] = [call[c] EXCEPT !.at = call'[c].at]
<1> DEFINE o == call[c].of
<1>0. /\ None \notin Owners /\ None \notin Pictures /\ tidy \subseteq Owners
      /\ picture \in [Owners -> Pictures \cup {None}]
      /\ call \in [Calls -> CallType] /\ o \in Owners /\ call[c].at # "generate"
  BY DEF TInv, ObserversFit, Owners, PicturesFit, CallsFit, StepFits
<1>1. \A d \in Calls \ {c} : call'[d] = call[d]
  BY <1>0 DEF Ends, Goto
<1>2. \/ call'[c] = Idle
      \/ call'[c] = [call[c] EXCEPT !.at = call'[c].at] /\ call'[c].at \in {"move", "out"}
  BY <1>0 DEF Ends, Goto, CallType
<1>3. call'[c].of \in {o, None} /\ call'[c].new \in {call[c].new, None}
      /\ call'[c].old \in {call[c].old, None}
  BY <1>0, <1>2 DEF Idle, CallType
<1>4. \A q \in Owners, h \in Pictures : Names(q, h)' => Names(q, h)
  BY <1>0, <1>1, <1>3 DEF Names
<1>5. Unshared'
  BY <1>0, <1>4 DEF PInv, Unshared
<1>6. \A q \in tidy, d \in Calls : AtWorkFor(d, q)' => AtWorkFor(d, q)
  BY <1>0, <1>1, <1>3 DEF AtWorkFor
<1>7. OneRequest'
  BY <1>6 DEF PInv, OneRequest
<1>8. \A q \in tidy \ {o} : Moving(q)' <=> Moving(q)
  BY <1>0, <1>1, <1>3 DEF Moving
<1>9. o \in tidy => \A d \in Calls \ {c} : call[d].of = o => call[d].at = "generate"
  BY <1>0 DEF PInv, OneRequest, AtWorkFor
<1> QED BY <1>1, <1>2, <1>5, <1>7, <1>8, <1>9

\* Requests go on and end.
LEMMA StepPInv ==
  ASSUME TInv, PInv, NEW c \in Calls,
         UpdateProduct(c) \/ MoveIn(c) \/ MoveOut(c) \/ RequestFails(c)
  PROVE  PInv'
<1> PICK o \in Owners : o = call[c].of
  BY DEF TInv, CallsFit, StepFits, UpdateProduct, MoveIn, MoveOut, RequestFails
<1>0. /\ None \notin Owners /\ None \notin Pictures /\ tidy \subseteq Owners
      /\ picture \in [Owners -> Pictures \cup {None}]
      /\ place \in [Pictures -> {"none", "temp", "image"}]
      /\ call \in [Calls -> CallType] /\ o = call[c].of
      /\ StepFits(c)
  BY DEF TInv, ObserversFit, Owners, PicturesFit, CallsFit
<1>1. /\ call[c].at \in {"update", "move", "out"} /\ tidy' \subseteq tidy
      /\ \/ Ends(c)
         \/ Goto(c, "move") /\ call[c].at = "update"
         \/ Goto(c, "out") /\ call[c].at = "move"
      /\ \/ picture' = picture
         \/ picture' = [picture EXCEPT ![call[c].of] = call[c].new]
  BY DEF UpdateProduct, MoveIn, MoveOut, RequestFails, tables
<1>2. /\ OneRequest' /\ Unshared'
      /\ \A d \in Calls \ {c} : call'[d] = call[d]
      /\ \A q \in tidy \ {o} : Moving(q)' <=> Moving(q)
      /\ o \in tidy =>
           \A d \in Calls \ {c} : call[d].of = o => call[d].at = "generate"
      /\ \/ call'[c] = Idle
         \/ call'[c] = [call[c] EXCEPT !.at = call'[c].at]
  BY <1>1, GoesOnPInv
\* Of the pictures of others nothing changes.
<1>3. \A q \in tidy \ {o} :
        picture'[q] = picture[q] /\ (picture[q] # None =>
          (place[picture[q]] = "image" => place'[picture[q]] = "image"))
  <2> SUFFICES ASSUME NEW q \in tidy \ {o}, picture[q] # None, place[picture[q]] = "image"
               PROVE  place'[picture[q]] = "image"
    BY <1>0, <1>1
  <2>1. picture[q] \in Pictures
    BY <1>0
  <2>2. CASE UpdateProduct(c) \/ RequestFails(c)
    BY <2>2 DEF UpdateProduct, RequestFails, tables
  <2>3. CASE MoveIn(c)
    BY <2>1, <2>3, <1>0 DEF MoveIn
  <2>4. CASE MoveOut(c)
    <3>1. call[c].old \in Pictures /\ Names(o, call[c].old)
      BY <2>4, <1>0 DEF MoveOut, StepFits, Names
    <3>2. picture[q] # call[c].old
      BY <3>1, <1>0 DEF PInv, Unshared, Names
    <3> QED BY <3>2, <2>4 DEF MoveOut, Replaced
  <2> QED BY <2>2, <2>3, <2>4
<1>4. \A q \in tidy \ {o}, d \in Calls : call'[d].of = q => d # c
  BY <1>0, <1>2 DEF Idle, CallType
<1>5. ASSUME o \in tidy'
      PROVE  /\ picture'[o] \notin Links \cup {None} /\ ~Moving(o)'
                  => place'[picture'[o]] = "image"
             /\ \A d \in Calls : call'[d].of = o =>
                  IF call'[d].at \in {"move", "out"}
                  THEN picture'[o] = call'[d].new /\ call'[d].new # call'[d].old
                  ELSE call'[d].at = "update" => picture'[o] = call'[d].old
  <2>0. o \in tidy /\ o # None
    BY <1>0, <1>1, <1>5
  <2>1. \A d \in Calls \ {c} : call'[d].of = o => call'[d].at = "generate"
    BY <1>2, <2>0
  <2>2. IF call[c].at \in {"move", "out"}
        THEN picture[o] = call[c].new /\ call[c].new # call[c].old
        ELSE picture[o] = call[c].old
    BY <1>1, <2>0 DEF PInv, MovesItsOwn
  <2>3. call[c].at # "move" => ~Moving(o)
    BY <1>2, <2>0 DEF Moving
  <2>4. picture[o] \notin Links \cup {None} /\ ~Moving(o) => place[picture[o]] = "image"
    BY <2>0 DEF PInv, InPlace
  <2>5. CASE UpdateProduct(c)
    <3>1. call[c].at = "update" /\ picture'[o] = call[c].new /\ call[c].new \in Pictures
          /\ UNCHANGED place
      BY <2>5, <1>0 DEF UpdateProduct, StepFits
    <3>2. CASE IsNew(c)
      <4>1. call'[c] = [call[c] EXCEPT !.at = "move"]
        BY <2>5, <3>2, <1>0 DEF UpdateProduct, Goto
      <4>2. Moving(o)'
        BY <4>1, <1>0 DEF Moving, CallType
      <4>3. call'[c].new = call[c].new /\ call'[c].old = call[c].old
        BY <4>1, <1>0 DEF CallType
      <4>4. \A d \in Calls : call'[d].of = o =>
              d = c \/ call'[d].at = "generate"
        BY <2>1
      <4>5. call'[c].at = "move"
        BY <4>1, <1>0 DEF CallType
      <4> QED BY <4>2, <4>3, <4>4, <4>5, <3>1, <3>2 DEF IsNew
    <3>3. CASE ~IsNew(c)
      <4>1. call'[c] = Idle
        BY <2>5, <3>3, <1>0 DEF UpdateProduct, Ends
      <4>2. picture'[o] = picture[o]
        BY <3>1, <3>3, <2>2, <1>0 DEF IsNew
      <4>3. picture[o] \notin Links \cup {None} => place'[picture[o]] = "image"
        BY <3>1, <2>3, <2>4
      <4> QED BY <4>1, <4>2, <4>3, <2>0, <2>1 DEF Idle
    <3> QED BY <3>2, <3>3
  <2>6. CASE MoveIn(c)
    <3>1. call[c].at = "move" /\ call[c].new \in Pictures /\ UNCHANGED picture
          /\ place' = [place EXCEPT ![call[c].new] = "image"]
      BY <2>6, <1>0 DEF MoveIn, StepFits
    <3>2. place'[picture[o]] = "image"
      BY <3>1, <2>2, <1>0
    <3>3. call'[c] # Idle => call'[c].new = call[c].new /\ call'[c].old = call[c].old
      BY <1>0, <1>2 DEF CallType
    <3>4. Ends(c) \/ Goto(c, "out")
      BY <2>6 DEF MoveIn
    <3>5. call'[c] # Idle => call'[c].at = "out"
      BY <3>4, <1>0 DEF Goto, Ends, CallType
    <3> QED BY <3>1, <3>2, <3>3, <3>5, <2>0, <2>1, <2>2 DEF Idle
  <2>7. CASE MoveOut(c)
    <3>1. call[c].at = "out" /\ call[c].old \in Pictures /\ UNCHANGED picture
          /\ place' = [place EXCEPT ![call[c].old] = "temp"] /\ call'[c] = Idle
      BY <2>7, <1>0 DEF MoveOut, StepFits, Ends, Replaced
    <3>2. place'[picture[o]] = place[picture[o]] \/ picture[o] = None
      BY <3>1, <2>2, <1>0
    <3> QED BY <3>1, <3>2, <2>0, <2>1, <2>2, <2>3, <2>4 DEF Idle
  <2>8. CASE RequestFails(c)
    <3>1. UNCHANGED <<picture, place>> /\ call'[c] = Idle
      BY <2>8, <1>0 DEF RequestFails, tables, Ends
    <3>2. call[c].at = "move" => call[c].new \in Links \/ place[call[c].new] = "image"
      BY <2>8, <1>5 DEF RequestFails, Unmoved
    <3> QED BY <3>1, <3>2, <2>0, <2>1, <2>2, <2>3, <2>4 DEF Idle
  <2> QED BY <2>5, <2>6, <2>7, <2>8
<1>6. InPlace'
  <2> SUFFICES ASSUME NEW q \in tidy', picture'[q] \notin Links \cup {None},
                      ~Moving(q)'
               PROVE  place'[picture'[q]] = "image"
    BY DEF InPlace
  <2>1. CASE q = o
    BY <2>1, <1>5
  <2>2. CASE q # o
    BY <2>2, <1>1, <1>2, <1>3 DEF PInv, InPlace
  <2> QED BY <2>1, <2>2
<1>7. MovesItsOwn'
  <2> SUFFICES ASSUME NEW q \in tidy', NEW d \in Calls, call'[d].of = q
               PROVE IF call'[d].at \in {"move", "out"}
                     THEN picture'[q] = call'[d].new /\ call'[d].new # call'[d].old
                     ELSE call'[d].at = "update" => picture'[q] = call'[d].old
    BY DEF MovesItsOwn
  <2>1. CASE q = o
    BY <2>1, <1>5
  <2>2. CASE q # o
    BY <2>2, <1>1, <1>2, <1>3, <1>4 DEF PInv, MovesItsOwn
  <2> QED BY <2>1, <2>2
<1> QED BY <1>2, <1>6, <1>7 DEF PInv

\* A product that is deleted is tidy no more, and names less.
LEMMA DeletePInv ==
  ASSUME TInv, PInv, NEW p \in Products, DeleteProduct(p)
  PROVE  PInv'
<1>1. /\ tidy' = tidy \ {p} /\ picture' = [picture EXCEPT ![p] = None]
      /\ UNCHANGED <<place, call>>
  BY DEF DeleteProduct
<1>2. \A q \in Owners : picture'[q] = IF q = p THEN None ELSE picture[q]
  BY <1>1 DEF TInv, PicturesFit, Owners
<1>3. \A q \in Owners, h \in Pictures : Names(q, h)' => Names(q, h)
  BY <1>1, <1>2 DEF Names
<1>4. tidy \subseteq Owners
  BY DEF TInv, ObserversFit
<1>5. OneRequest' /\ InPlace' /\ MovesItsOwn'
  BY <1>1, <1>2, <1>4 DEF PInv, OneRequest, AtWorkFor, InPlace, Moving, MovesItsOwn
<1>6. Unshared'
  BY <1>1, <1>3, <1>4 DEF PInv, Unshared
<1> QED BY <1>5, <1>6 DEF PInv

\* The end of the process leaves tidy those whose pictures are in place.
LEMMA CrashPInv ==
  ASSUME TInv, PInv, Crash
  PROVE  PInv'
<1>1. /\ UNCHANGED <<picture, place>> /\ call' = [c \in Calls |-> Idle]
      /\ tidy' = tidy \ {call[c].of : c \in {d \in Calls : Unmoved(d)}}
  BY DEF Crash, tables
<1>2. None \notin tidy /\ None \notin Pictures /\ tidy \subseteq Owners
  BY DEF TInv, ObserversFit, Owners
<1>3. \A q \in tidy, c \in Calls : call'[c].of # q
  BY <1>1, <1>2 DEF Idle
<1>4. \A q \in Owners, h \in Pictures : Names(q, h)' => Names(q, h)
  BY <1>1, <1>2 DEF Names, Idle
<1>5. OneRequest' /\ MovesItsOwn'
  <2>1. tidy' \subseteq tidy
    BY <1>1
  <2>2. \A q \in tidy', c \in Calls : ~AtWorkFor(c, q)'
    BY <1>3, <2>1 DEF AtWorkFor
  <2>3. OneRequest'
    BY <2>2 DEF OneRequest
  <2> QED BY <1>3, <2>1, <2>3 DEF MovesItsOwn
<1>6. Unshared'
  <2>1. tidy' \subseteq tidy
    BY <1>1
  <2> QED BY <1>2, <1>4, <2>1 DEF PInv, Unshared
<1>7. InPlace'
  <2> SUFFICES ASSUME NEW q \in tidy', picture[q] \notin Links \cup {None}
               PROVE  place[picture[q]] = "image"
    BY <1>1 DEF InPlace
  <2>1. CASE Moving(q)
    BY <1>1, <2>1 DEF PInv, MovesItsOwn, Moving, Unmoved
  <2>2. CASE ~Moving(q)
    BY <1>1, <2>2 DEF PInv, InPlace
  <2> QED BY <2>1, <2>2
<1> QED BY <1>5, <1>6, <1>7 DEF PInv

\* A generation that begins or ends has no pictures.
LEMMA GenerationPInv ==
  ASSUME TInv, PInv, NEW c \in Calls,
         \/ \E p \in Products : Generate(c, p)
         \/ \E s \in plan[c] : CreateVariant(c, s)
         \/ \E m \in made[c] : CreateValues(c, m)
         \/ BranchFails(c) \/ Generates(c)
  PROVE  PInv'
<1>0. call \in [Calls -> CallType]
  BY DEF TInv, CallsFit
<1>1. CASE UNCHANGED <<picture, place, tidy, call>>
  BY <1>1, QuietPInv
<1>2. ASSUME NEW p \in Products, Generate(c, p)
      PROVE  PInv'
  <2>1. /\ call' = [call EXCEPT ![c] = [Idle EXCEPT !.at = "generate", !.of = p]]
        /\ call[c] = Idle /\ UNCHANGED <<picture, place, tidy>>
    BY <1>2 DEF Generate, tables
  <2> QED BY <1>0, <2>1, QuietPInv DEF Idle
<1>3. CASE Generates(c)
  <2>1. /\ call' = [call EXCEPT ![c] = Idle] /\ call[c].at = "generate"
        /\ UNCHANGED <<picture, place, tidy>>
    BY <1>3 DEF Generates, Ends, tables
  <2> QED BY <1>0, <2>1, QuietPInv DEF Idle
<1> QED
  BY <1>1, <1>2, <1>3 DEF CreateVariant, CreateValues, BranchFails, tables

\* Every step keeps tidy owners tidy.
LEMMA NextPInv == TInv /\ PInv /\ [Next]_vars => PInv'
<1> SUFFICES ASSUME TInv, PInv, [Next]_vars PROVE PInv'
  OBVIOUS
<1>1. CASE UNCHANGED <<picture, place, tidy, call>>
  BY <1>1, QuietPInv
<1>2. CASE UNCHANGED vars
  BY <1>1, <1>2 DEF vars, tables
<1>3. ASSUME \/ \E p \in Products, o \in Options : AddOption(o, p)
             \/ \E x \in Values : AddValue(x) \/ DeleteValue(x)
             \/ \E o \in Options : DeleteOption(o)
             \/ \E v \in Variants : DeleteVariant(v)
             \/ ReadPage \/ ReadCount
      PROVE  PInv'
  BY <1>1, <1>3 DEF AddOption, AddValue, DeleteValue, DeleteOption, DeleteVariant,
    ReadPage, ReadCount, tables
<1>4. CASE Next
  BY <1>3, <1>4, UploadPInv, BeginPInv, StepPInv, GenerationPInv, DeletePInv, CrashPInv
    DEF Next
<1> QED BY <1>2, <1>4

\* At first rows name links alone, and who shares his with another is not tidy.
LEMMA InitPInv == Init => PInv
<1> SUFFICES ASSUME Init PROVE PInv
  OBVIOUS
<1>1. \A o \in Owners : picture[o] \in Links \cup {None}
  <2>1. PICK told \in [Users -> Links \cup {None}] :
          picture = [o \in Owners |-> IF o \in Users THEN told[o] ELSE None]
    BY DEF Init
  <2> QED BY <2>1
<1>2. \A c \in Calls : call[c] = Idle
  BY DEF Init
<1>3. OneRequest /\ MovesItsOwn /\ InPlace
  BY <1>1, <1>2 DEF Init, OneRequest, MovesItsOwn, InPlace, AtWorkFor, Idle, Owners
<1>4. \A o \in Owners, f \in Pictures : Names(o, f) => picture[o] = f
  BY <1>2 DEF Names, Idle
<1>5. \A o \in tidy : o \in Owners /\ (picture[o] # None => Sharing(o, picture[o]) = {})
  BY DEF Init
<1>6. Unshared
  <2> SUFFICES ASSUME NEW o \in tidy, NEW q \in Owners, NEW f \in Pictures,
                      Names(o, f), Names(q, f), q # o
               PROVE  FALSE
    BY DEF Unshared
  <2>1. picture[o] = f /\ picture[q] = f /\ picture[o] # None
    BY <1>4, <1>5
  <2>2. q \in Sharing(o, picture[o])
    BY <2>1 DEF Sharing
  <2> QED BY <1>5, <2>1, <2>2
<1> QED BY <1>3, <1>6 DEF PInv

\* Whatever else is uploaded, cleaned up and edited, the picture of an owner
\* whose requests come one by one is where his row says.
THEOREM PictureInPlace == Spec => []TidyOwnerHasPicture
<1>1. Init => PInv
  BY InitPInv
<1>2. TInv /\ PInv => TidyOwnerHasPicture
  BY DEF PInv, InPlace, Moving, Busy, TidyOwnerHasPicture
<1> QED BY <1>1, <1>2, Shape, NextPInv, PTL DEF Spec

-----------------------------------------------------------------------------
(* Variants                                                                *)

\* The combinations a generation has to make or has made a variant for.
Sets(c) == plan[c] \cup {m[2] : m \in made[c]}

\* They have one value of an option, and of those that are still there the
\* option is one of the product, ...
OneOfEach ==
  \A c \in Calls : \A s \in Sets(c) : \A x, y \in s :
    /\ x \in values => productOf[OptionOf(x)] = call[c].of
    /\ OptionOf(x) = OptionOf(y) => x = y
\* ... a variant that has been made is one of the product or gone, and without
\* values, ...
MadeFits ==
  \A c \in Calls : \A m \in made[c] :
    variantOf[m[1]] \in {None, call[c].of} /\ links[m[1]] = {}
\* ... and it was made once.
MadeOnce ==
  \A c, d \in Calls : \A m \in made[c], n \in made[d] :
    m[1] = n[1] => c = d /\ m = n

VInv == VariantIsAChoice /\ OneOfEach /\ MadeFits /\ MadeOnce

\* A combination has one value of every option of its product, and no others.
LEMMA CombinationIsAChoice ==
  ASSUME NEW p, NEW s \in Combinations(p)
  PROVE  /\ s \subseteq values
         /\ \A x \in s : OptionOf(x) \in OptionsOf(p)
         /\ \A x, y \in s : OptionOf(x) = OptionOf(y) => x = y
         /\ OptionsOf(p) # {} => s # {}
<1>1. PICK g \in [OptionsOf(p) -> values] :
        /\ \A o \in OptionsOf(p) : g[o] \in ValuesOf(o)
        /\ s = {g[o] : o \in OptionsOf(p)}
  BY DEF Combinations
<1>2. \A o \in OptionsOf(p) : g[o] \in values /\ OptionOf(g[o]) = o
  BY <1>1 DEF ValuesOf
<1> QED BY <1>1, <1>2

\* A variant that is not there has no values.
LEMMA GoneHasNone ==
  ASSUME TInv, VariantIsAChoice, NEW v \in Variants, variantOf[v] = None
  PROVE  links[v] = {}
BY DEF TInv, VarietyFits, VariantIsAChoice

\* Steps that leave variants and generations alone.
LEMMA QuietVInv ==
  ASSUME TInv, VInv, UNCHANGED <<variety, generation>>,
         \A c \in Calls : call[c].at = "generate" => call'[c] = call[c]
  PROVE  VInv'
<1>1. \A c \in Calls : UNCHANGED Sets(c)
  BY DEF Sets, generation
<1>2. \A c \in Calls : Sets(c) # {} \/ made[c] # {} => call'[c] = call[c]
  BY DEF Sets, TInv, CallsFit, StepFits
<1>3. UNCHANGED <<productOf, values, variantOf, links, made>>
  BY DEF variety, generation
<1>4. OneOfEach'
  BY <1>1, <1>2, <1>3 DEF VInv, OneOfEach
<1>5. VariantIsAChoice' /\ MadeFits' /\ MadeOnce'
  BY <1>2, <1>3 DEF VInv, VariantIsAChoice, MadeFits, MadeOnce
<1> QED BY <1>4, <1>5 DEF VInv

\* Options and values come and go; what goes takes its links with it, and a
\* value in use does not come back.
LEMMA OptionsVInv ==
  ASSUME TInv, VInv,
         \/ \E p \in Products, o \in Options : AddOption(o, p)
         \/ \E x \in Values : AddValue(x) \/ DeleteValue(x)
         \/ \E o \in Options : DeleteOption(o)
  PROVE  VInv'
<1> USE DEF VInv
<1>0. /\ productOf \in [Options -> Products \cup {None}] /\ values \subseteq Values
      /\ \A x \in values : OptionOf(x) \in Options /\ productOf[OptionOf(x)] # None
      /\ links \in [Variants -> SUBSET Values]
  BY DEF TInv, VarietyFits
<1>1. UNCHANGED <<variantOf, call, plan, made>>
  BY DEF AddOption, AddValue, DeleteValue, DeleteOption, generation
<1>2. \A c \in Calls : UNCHANGED Sets(c)
  BY <1>1 DEF Sets
<1>3. MadeOnce'
  BY <1>1 DEF MadeOnce
<1>4. CASE \E p \in Products, o \in Options : AddOption(o, p)
  <2>1. PICK p \in Products, o \in Options : AddOption(o, p)
    BY <1>4
  <2>2. UNCHANGED <<values, links>>
    BY <2>1 DEF AddOption
  <2>3. \A x \in values : productOf'[OptionOf(x)] = productOf[OptionOf(x)]
    BY <2>1, <1>0 DEF AddOption
  <2> QED
    BY <1>1, <1>2, <1>3, <2>2, <2>3 DEF VariantIsAChoice, OneOfEach, MadeFits
<1>5. CASE \E x \in Values : AddValue(x)
  <2>1. PICK x \in Values : AddValue(x)
    BY <1>5
  <2>2. UNCHANGED <<productOf, links>> /\ values' = values \cup {x}
    BY <2>1 DEF AddValue
  <2>3. \A c \in Calls : \A s \in Sets(c) : x \notin s
    BY <2>1 DEF AddValue, InUse, Sets
  <2>4. OneOfEach'
    BY <1>1, <1>2, <2>2, <2>3 DEF OneOfEach
  <2> QED
    BY <1>1, <1>3, <2>2, <2>4 DEF VariantIsAChoice, MadeFits
<1>6. ASSUME NEW X \in SUBSET Values, values' = values \ X, links' = Unlinked(X),
             \A x \in values \ X : productOf'[OptionOf(x)] = productOf[OptionOf(x)]
      PROVE  VInv'
  <2>1. \A v \in Variants : links'[v] = links[v] \ X
    BY <1>6 DEF Unlinked
  <2>2. VariantIsAChoice'
    BY <1>1, <1>6, <2>1 DEF VariantIsAChoice
  <2>3. OneOfEach'
    BY <1>1, <1>2, <1>6 DEF OneOfEach
  <2>4. MadeFits'
    <3>1. \A c \in Calls : \A m \in made[c] : m[1] \in Variants
      BY DEF TInv, CallsFit
    <3> QED BY <1>1, <2>1, <3>1 DEF MadeFits
  <2> QED BY <1>3, <2>2, <2>3, <2>4
<1>7. CASE \E x \in Values : DeleteValue(x)
  <2>1. PICK x \in Values : DeleteValue(x)
    BY <1>7
  <2>2. values' = values \ {x} /\ links' = Unlinked({x}) /\ UNCHANGED productOf
    BY <2>1 DEF DeleteValue
  <2> QED BY <2>2, <1>6
<1>8. CASE \E o \in Options : DeleteOption(o)
  <2>1. PICK o \in Options : DeleteOption(o)
    BY <1>8
  <2>2. /\ values' = values \ ValuesOf(o) /\ links' = Unlinked(ValuesOf(o))
        /\ productOf' = [productOf EXCEPT ![o] = None]
    BY <2>1 DEF DeleteOption
  <2>3. \A x \in values \ ValuesOf(o) : productOf'[OptionOf(x)] = productOf[OptionOf(x)]
    BY <2>2, <1>0 DEF ValuesOf
  <2>4. ValuesOf(o) \in SUBSET Values
    BY <1>0 DEF ValuesOf
  <2> QED BY <2>2, <2>3, <2>4, <1>6
<1> QED BY <1>4, <1>5, <1>7, <1>8

\* Variants go, with their product or without.
LEMMA VariantsGoVInv ==
  ASSUME TInv, VInv,
         \/ \E v \in Variants : DeleteVariant(v)
         \/ \E p \in Products : DeleteProduct(p)
  PROVE  VInv'
<1> USE DEF VInv
<1>0. /\ productOf \in [Options -> Products \cup {None}] /\ values \subseteq Values
      /\ \A x \in values : OptionOf(x) \in Options /\ productOf[OptionOf(x)] # None
      /\ variantOf \in [Variants -> Products \cup {None}]
      /\ links \in [Variants -> SUBSET Values]
      /\ \A c \in Calls : \A m \in made[c] : m[1] \in Variants
  BY DEF TInv, VarietyFits, CallsFit
<1>1. UNCHANGED <<call, plan, made>>
  BY DEF DeleteVariant, DeleteProduct, generation
<1>2. \A c \in Calls : UNCHANGED Sets(c)
  BY <1>1 DEF Sets
<1>3. MadeOnce'
  BY <1>1 DEF MadeOnce
<1>4. \A v \in Variants : \/ variantOf'[v] = variantOf[v] /\ links'[v] = links[v]
                          \/ variantOf'[v] = None /\ links'[v] = {}
  <2>1. CASE \E v \in Variants : DeleteVariant(v)
    BY <2>1, <1>0 DEF DeleteVariant
  <2>2. CASE \E p \in Products : DeleteProduct(p)
    BY <2>2, <1>0 DEF DeleteProduct
  <2> QED BY <2>1, <2>2
<1>5. MadeFits'
  BY <1>0, <1>1, <1>4 DEF MadeFits
<1>6. CASE \E v \in Variants : DeleteVariant(v)
  <2>1. UNCHANGED <<productOf, values>>
    BY <1>6 DEF DeleteVariant
  <2>2. VariantIsAChoice'
    BY <1>4, <2>1 DEF VariantIsAChoice
  <2>3. OneOfEach'
    BY <1>1, <1>2, <2>1 DEF OneOfEach
  <2> QED BY <1>3, <1>5, <2>2, <2>3
<1>7. CASE \E p \in Products : DeleteProduct(p)
  <2>1. PICK p \in Products : DeleteProduct(p)
    BY <1>7
  <2>2. /\ values' = {x \in values : productOf[OptionOf(x)] # p}
        /\ \A v \in Variants : variantOf[v] = p => links'[v] = {}
        /\ \A o \in Options : productOf[o] # p => productOf'[o] = productOf[o]
    BY <2>1 DEF DeleteProduct
  <2>3. \A x \in values' : x \in values /\ productOf'[OptionOf(x)] = productOf[OptionOf(x)]
    BY <1>0, <2>2
  <2>4. \A v \in Variants : \A x \in links'[v] :
          x \in links[v] /\ variantOf'[v] = variantOf[v] /\ x \in values'
    BY <1>4, <2>2 DEF VariantIsAChoice
  <2>5. VariantIsAChoice'
    BY <2>3, <2>4 DEF VariantIsAChoice
  <2>6. OneOfEach'
    BY <1>1, <1>2, <2>3 DEF OneOfEach
  <2> QED BY <1>3, <1>5, <2>5, <2>6
<1> QED BY <1>6, <1>7

\* A generation reads its combinations.
LEMMA GenerateVInv ==
  ASSUME TInv, VInv, NEW c \in Calls, NEW p \in Products, Generate(c, p)
  PROVE  VInv'
<1> USE DEF VInv
<1>0. call \in [Calls -> CallType] /\ plan \in [Calls -> SUBSET SUBSET Values]
      /\ StepFits(c) /\ call[c] = Idle
  BY DEF TInv, CallsFit, Generate
<1>1. /\ plan' = [plan EXCEPT ![c] = Combinations(p)]
      /\ call' = [call EXCEPT ![c] = [Idle EXCEPT !.at = "generate", !.of = p]]
      /\ UNCHANGED <<productOf, values, variantOf, links, made>>
  BY DEF Generate, variety
<1>2. made[c] = {} /\ call'[c].of = p /\ Sets(c)' = Combinations(p)
  BY <1>0, <1>1 DEF StepFits, Idle, Sets
<1>3. \A d \in Calls \ {c} : call'[d] = call[d] /\ UNCHANGED Sets(d)
  BY <1>0, <1>1 DEF Sets
<1>4. \A s \in Combinations(p) : \A x, y \in s :
        productOf[OptionOf(x)] = p /\ (OptionOf(x) = OptionOf(y) => x = y)
  BY CombinationIsAChoice DEF OptionsOf
<1>5. OneOfEach'
  <2> SUFFICES ASSUME NEW d \in Calls, NEW s \in Sets(d)', NEW x \in s, NEW y \in s
               PROVE  /\ x \in values => productOf[OptionOf(x)] = call'[d].of
                      /\ OptionOf(x) = OptionOf(y) => x = y
    BY <1>1 DEF OneOfEach
  <2>1. CASE d = c
    BY <2>1, <1>2, <1>4
  <2>2. CASE d # c
    BY <2>2, <1>3 DEF OneOfEach
  <2> QED BY <2>1, <2>2
<1>6. VariantIsAChoice' /\ MadeOnce'
  BY <1>1 DEF VariantIsAChoice, MadeOnce
<1>7. MadeFits'
  BY <1>1, <1>2, <1>3 DEF MadeFits
<1> QED BY <1>5, <1>6, <1>7

\* A branch makes a variant that nothing knows of.
LEMMA CreateVariantVInv ==
  ASSUME TInv, VInv, NEW c \in Calls, NEW s \in plan[c], CreateVariant(c, s)
  PROVE  VInv'
<1> USE DEF VInv
<1>1. PICK v \in Variants :
        /\ variantOf[v] = None
        /\ \A d \in Calls : \A m \in made[d] : m[1] # v
        /\ variantOf' = [variantOf EXCEPT ![v] = call[c].of]
        /\ made' = [made EXCEPT ![c] = @ \cup {<<v, s>>}]
  BY DEF CreateVariant
<1>2. plan' = [plan EXCEPT ![c] = @ \ {s}] /\ UNCHANGED <<productOf, values, links, call>>
  BY DEF CreateVariant
<1>3. /\ variantOf \in [Variants -> Products \cup {None}]
      /\ plan \in [Calls -> SUBSET SUBSET Values]
      /\ made \in [Calls -> SUBSET (Variants \X SUBSET Values)]
      /\ s \in SUBSET Values
  BY DEF TInv, VarietyFits, CallsFit
<1>4. links[v] = {}
  BY <1>1, GoneHasNone
<1>5. \A d \in Calls : Sets(d)' \subseteq Sets(d)
  <2>1. \A d \in Calls \ {c} : Sets(d)' = Sets(d)
    BY <1>1, <1>2, <1>3 DEF Sets
  <2>2. made'[c] = made[c] \cup {<<v, s>>} /\ plan'[c] = plan[c] \ {s}
    BY <1>1, <1>2, <1>3
  <2>3. Sets(c)' \subseteq Sets(c)
    BY <2>2 DEF Sets
  <2> QED BY <2>1, <2>3
<1>6. VariantIsAChoice'
  BY <1>1, <1>2, <1>3, <1>4 DEF VariantIsAChoice
<1>7. OneOfEach'
  BY <1>2, <1>5 DEF OneOfEach
<1>8. \A d \in Calls : \A m \in made'[d] :
        \/ m \in made[d] /\ m[1] # v
        \/ d = c /\ m = <<v, s>>
  BY <1>1, <1>3
<1>9. MadeFits'
  <2>1. \A d \in Calls : \A m \in made[d] : m[1] \in Variants
    BY <1>3
  <2>2. variantOf'[v] = call[c].of
    BY <1>1, <1>3
  <2>3. \A w \in Variants \ {v} : variantOf'[w] = variantOf[w]
    BY <1>1, <1>3
  <2> QED BY <1>2, <1>4, <1>8, <2>1, <2>2, <2>3 DEF MadeFits
<1>10. MadeOnce'
  BY <1>1, <1>8 DEF MadeOnce
<1> QED BY <1>6, <1>7, <1>9, <1>10

\* A branch gives its variant values that are all there.
LEMMA CreateValuesVInv ==
  ASSUME TInv, VInv, NEW c \in Calls, NEW m \in made[c], CreateValues(c, m)
  PROVE  VInv'
<1> USE DEF VInv
<1>1. /\ variantOf[m[1]] # None /\ m[2] \subseteq values
      /\ links' = [links EXCEPT ![m[1]] = m[2]]
      /\ made' = [made EXCEPT ![c] = @ \ {m}]
      /\ UNCHANGED <<productOf, values, variantOf, call, plan>>
  BY DEF CreateValues, Linked
<1>2. /\ links \in [Variants -> SUBSET Values]
      /\ made \in [Calls -> SUBSET (Variants \X SUBSET Values)]
      /\ m[1] \in Variants /\ m[2] \in Sets(c)
  BY DEF TInv, VarietyFits, CallsFit, Sets
<1>3. variantOf[m[1]] = call[c].of
  BY <1>1 DEF MadeFits
<1>4. \A d \in Calls : made'[d] \subseteq made[d] /\ Sets(d)' \subseteq Sets(d)
  <2>1. \A d \in Calls : made'[d] \subseteq made[d]
    BY <1>1, <1>2
  <2> QED BY <2>1, <1>1 DEF Sets
<1>5. VariantIsAChoice'
  <2> SUFFICES ASSUME NEW v \in Variants, NEW x \in links'[v], NEW y \in links'[v]
               PROVE  /\ x \in values /\ productOf[OptionOf(x)] = variantOf[v]
                      /\ OptionOf(x) = OptionOf(y) => x = y
    BY <1>1 DEF VariantIsAChoice
  <2>1. CASE v = m[1]
    BY <2>1, <1>1, <1>2, <1>3 DEF OneOfEach
  <2>2. CASE v # m[1]
    BY <2>2, <1>1, <1>2 DEF VariantIsAChoice
  <2> QED BY <2>1, <2>2
<1>6. OneOfEach'
  BY <1>1, <1>4 DEF OneOfEach
<1>7. MadeOnce'
  BY <1>4 DEF MadeOnce
<1>8. MadeFits'
  <2>1. \A d \in Calls : \A n \in made'[d] : n[1] # m[1]
    BY <1>1, <1>2 DEF MadeOnce
  <2>2. \A d \in Calls : \A n \in made'[d] : n[1] \in Variants
    BY <1>2, <1>4
  <2> QED BY <1>1, <1>2, <1>4, <2>1, <2>2 DEF MadeFits
<1> QED BY <1>5, <1>6, <1>7, <1>8

\* Branches fail and generations end.
LEMMA EndingVInv ==
  ASSUME TInv, VInv, \/ \E c \in Calls : BranchFails(c) \/ Generates(c)
                     \/ Crash
  PROVE  VInv'
<1> USE DEF VInv
<1>1. UNCHANGED <<productOf, values, variantOf, links>>
  BY DEF BranchFails, Generates, Crash, variety
<1>2. \A d \in Calls : plan'[d] \subseteq plan[d] /\ made'[d] \subseteq made[d]
  BY DEF BranchFails, Generates, Crash, generation, TInv, CallsFit
<1>3. \A d \in Calls : Sets(d)' \subseteq Sets(d)
  BY <1>2 DEF Sets
<1>4. \A d \in Calls : call'[d] = call[d] \/ (Sets(d)' = {} /\ made'[d] = {})
  <2>1. CASE \E c \in Calls : BranchFails(c)
    BY <2>1 DEF BranchFails
  <2>2. CASE \E c \in Calls : Generates(c)
    BY <2>2 DEF Generates, Ends, generation, Sets, TInv, CallsFit
  <2>3. CASE Crash
    BY <2>3 DEF Crash, Sets
  <2> QED BY <2>1, <2>2, <2>3
<1>5. VariantIsAChoice' /\ MadeOnce'
  BY <1>1, <1>2 DEF VariantIsAChoice, MadeOnce
<1>6. OneOfEach'
  BY <1>1, <1>3, <1>4 DEF OneOfEach
<1>7. MadeFits'
  BY <1>1, <1>2, <1>4 DEF MadeFits
<1> QED BY <1>5, <1>6, <1>7

\* Requests about pictures and the reading of lists are no generations.
LEMMA OthersQuiet ==
  ASSUME TInv,
         \/ \E f \in Pictures : Upload(f) \/ CleanUp(f)
         \/ \E c \in Calls :
              \/ \E p \in Products, f \in Pictures :
                   AddNewProduct(c, p, f) \/ EditProduct(c, p, f)
              \/ \E u \in Users, f \in Pictures \cup {None} : UpdateUser(c, u, f)
              \/ UpdateProduct(c) \/ MoveIn(c) \/ MoveOut(c) \/ RequestFails(c)
         \/ ReadPage \/ ReadCount
  PROVE  /\ UNCHANGED <<variety, generation, plain, runs>>
         /\ \A c \in Calls : call[c].at = "generate" => call'[c] = call[c]
         /\ \A c \in Calls : call'[c].at = "generate" => call'[c] = call[c]
<1>0. call \in [Calls -> CallType]
  BY DEF TInv, CallsFit
<1>1. CASE \/ \E f \in Pictures : Upload(f) \/ CleanUp(f)
           \/ ReadPage \/ ReadCount
  BY <1>1 DEF Upload, CleanUp, ReadPage, ReadCount
<1>2. CASE \E c \in Calls, p \in Products, f \in Pictures :
             AddNewProduct(c, p, f) \/ EditProduct(c, p, f)
  <2>1. PICK c \in Calls, p \in Products, f \in Pictures :
          AddNewProduct(c, p, f) \/ EditProduct(c, p, f)
    BY <1>2
  <2>0. call[c] = Idle /\ UNCHANGED <<variety, generation, plain, runs>>
    BY <2>1 DEF AddNewProduct, EditProduct
  <2>2. call[c].at = "idle"
    BY <2>0 DEF Idle
  <2>3. PICK r : call' = [call EXCEPT ![c] = r] /\ r.at # "generate"
    <3>1. CASE AddNewProduct(c, p, f)
      <4> DEFINE r == [Idle EXCEPT !.at = "move", !.of = p, !.new = f]
      <4>1. r.at = "move" /\ call' = [call EXCEPT ![c] = r]
        BY <3>1 DEF AddNewProduct, Idle
      <4> QED BY <4>1
    <3>2. CASE EditProduct(c, p, f)
      <4> DEFINE r == [at |-> "update", of |-> p, new |-> f, old |-> picture[p]]
      <4>1. r.at = "update" /\ call' = [call EXCEPT ![c] = r]
        BY <3>2 DEF EditProduct
      <4> QED BY <4>1
    <3> QED BY <2>1, <3>1, <3>2
  <2> QED BY <1>0, <2>0, <2>2, <2>3
<1>3. CASE \E c \in Calls, u \in Users, f \in Pictures \cup {None} : UpdateUser(c, u, f)
  <2>1. PICK c \in Calls, u \in Users, f \in Pictures \cup {None} : UpdateUser(c, u, f)
    BY <1>3
  <2> DEFINE g == IF f = None THEN picture[u] ELSE f
             r == [Idle EXCEPT !.at = "move", !.of = u, !.new = g]
  <2>0. call[c] = Idle /\ UNCHANGED <<variety, generation, plain, runs>>
    BY <2>1 DEF UpdateUser
  <2>2. call[c].at = "idle"
    BY <2>0 DEF Idle
  <2>3. UNCHANGED call \/ call' = [call EXCEPT ![c] = r]
    BY <2>1 DEF UpdateUser
  <2>4. r.at = "move"
    BY DEF Idle
  <2> HIDE DEF r
  <2> QED BY <1>0, <2>0, <2>2, <2>3, <2>4
<1>4. CASE \E c \in Calls :
             UpdateProduct(c) \/ MoveIn(c) \/ MoveOut(c) \/ RequestFails(c)
  <2>1. PICK c \in Calls :
          UpdateProduct(c) \/ MoveIn(c) \/ MoveOut(c) \/ RequestFails(c)
    BY <1>4
  <2>2. /\ call[c].at # "generate" /\ UNCHANGED <<variety, generation, plain, runs>>
        /\ Ends(c) \/ Goto(c, "move") \/ Goto(c, "out")
    BY <2>1 DEF UpdateProduct, MoveIn, MoveOut, RequestFails
  <2> QED BY <1>0, <2>2 DEF Ends, Goto, Idle, CallType
<1> QED BY <1>1, <1>2, <1>3, <1>4

\* Every step keeps variants choices.
LEMMA NextVInv == TInv /\ VInv /\ [Next]_vars => VInv'
<1> SUFFICES ASSUME TInv, VInv, [Next]_vars PROVE VInv'
  OBVIOUS
<1>1. CASE UNCHANGED vars
  BY <1>1, QuietVInv DEF vars
<1>2. CASE Next
  BY <1>2, OthersQuiet, QuietVInv, OptionsVInv, VariantsGoVInv, GenerateVInv,
    CreateVariantVInv, CreateValuesVInv, EndingVInv DEF Next
<1> QED BY <1>1, <1>2

\* A new table has no variants.
LEMMA InitVInv == Init => VInv
BY DEF Init, VInv, VariantIsAChoice, OneOfEach, MadeFits, MadeOnce, Sets

\* A variant has at most one value of an option, and those are of its product,
\* whatever is deleted while it is being made.
THEOREM VariantCorrect == Spec => []VariantIsAChoice
<1>1. VInv => VariantIsAChoice
  BY DEF VInv
<1> QED BY <1>1, InitVInv, Shape, NextVInv, PTL DEF Spec

-----------------------------------------------------------------------------
(* Counting variants                                                       *)

\* The variants of a product that have the values s or are about to, and the
\* generations that have still to make one.
IsFor(v, s) == links[v] = s \/ \E c \in Calls : <<v, s>> \in made[c]
Has(p, s) == {v \in Variants : variantOf[v] = p /\ IsFor(v, s)}
Coming(p, s) == {c \in Calls : call[c].of = p /\ s \in plan[c]}

\* A product that was never generated has no variants and no generation.
Fresh(p) ==
  /\ \A v \in Variants : variantOf[v] # p
  /\ \A c \in Calls : call[c].of = p => call[c].at # "generate"

\* One that was has made or will make each combination once per generation.
PlansFit(p) == \A c \in Calls : call[c].of = p => Sets(c) \subseteq Combinations(p)
NoOthers(p) ==
  \A v \in Variants : variantOf[v] = p => \E s \in Combinations(p) : v \in Has(p, s)
AsOften(p) ==
  \A s \in Combinations(p) :
    /\ IsFiniteSet(Has(p, s)) /\ IsFiniteSet(Coming(p, s))
    /\ Cardinality(Has(p, s)) + Cardinality(Coming(p, s)) = runs[p]
Even(p) == OptionsOf(p) # {} /\ PlansFit(p) /\ NoOthers(p) /\ AsOften(p)

CInv == \A p \in plain : IF Generated(p) THEN Even(p) ELSE Fresh(p)

\* The combinations of a product are those of its options and their values.
LEMMA SameCombinations ==
  ASSUME NEW p, OptionsOf(p)' = OptionsOf(p),
         \A o \in OptionsOf(p) : ValuesOf(o)' = ValuesOf(o)
  PROVE  Combinations(p)' = Combinations(p)
<1> DEFINE O == OptionsOf(p)
           Picks == {g \in [O -> values] : \A o \in O : g[o] \in ValuesOf(o)}
           Picks2 == {g \in [O -> values'] : \A o \in O : g[o] \in ValuesOf(o)'}
<1>1. Combinations(p) = {{pick[o] : o \in O} : pick \in Picks}
  BY DEF Combinations
<1>2. Combinations(p)' = {{pick[o] : o \in O} : pick \in Picks2}
  BY DEF Combinations
<1>3. ASSUME NEW o \in O PROVE ValuesOf(o) \subseteq values /\ ValuesOf(o)' \subseteq values'
  BY DEF ValuesOf
<1>4. Picks = Picks2
  <2>1. ASSUME NEW g \in Picks PROVE g \in Picks2
    <3>1. \A o \in O : g[o] \in values'
      BY <1>3
    <3> QED BY <3>1
  <2>2. ASSUME NEW g \in Picks2 PROVE g \in Picks
    <3>1. \A o \in O : g[o] \in values
      BY <1>3
    <3> QED BY <3>1
  <2> QED BY <2>1, <2>2
<1> HIDE DEF Picks, Picks2
<1> QED BY <1>1, <1>2, <1>4

\* A product stays counted when its options, its variants and what its
\* generations plan stay as they are.
LEMMA SameCounted ==
  ASSUME TInv, NEW p \in Products, IF Generated(p) THEN Even(p) ELSE Fresh(p),
         runs'[p] = runs[p],
         Generated(p) => OptionsOf(p)' = OptionsOf(p)
                           /\ \A o \in OptionsOf(p) : ValuesOf(o)' = ValuesOf(o),
         \A v \in Variants : variantOf'[v] = p <=> variantOf[v] = p,
         \A s \in Combinations(p), v \in Variants :
           Generated(p) /\ variantOf[v] = p => (IsFor(v, s)' <=> IsFor(v, s)),
         \A c \in Calls : call'[c].of = p =>
           Sets(c)' = {} \/ (call[c].of = p /\ Sets(c)' \subseteq Sets(c)),
         \A c \in Calls, s \in Combinations(p) :
           (call'[c].of = p /\ s \in plan'[c]) <=> (call[c].of = p /\ s \in plan[c]),
         \A c \in Calls :
           call'[c].of = p /\ call'[c].at = "generate" => call[c] = call'[c]
  PROVE  IF Generated(p)' THEN Even(p)' ELSE Fresh(p)'
<1>1. Generated(p)' <=> Generated(p)
  BY DEF Generated
<1>2. CASE ~Generated(p)
  BY <1>1, <1>2 DEF Fresh
<1>3. CASE Generated(p)
  <2>1. Combinations(p)' = Combinations(p) /\ OptionsOf(p)' = OptionsOf(p)
    BY <1>3, SameCombinations
  <2>2. \A s \in Combinations(p) : Has(p, s)' = Has(p, s)
    BY <1>3 DEF Has
  <2>3. \A s \in Combinations(p) : Coming(p, s)' = Coming(p, s)
    BY DEF Coming
  <2>4. AsOften(p)'
    BY <1>3, <2>1, <2>2, <2>3 DEF Even, AsOften
  <2>5. NoOthers(p)'
    BY <1>3, <2>1, <2>2 DEF Even, NoOthers
  <2>6. PlansFit(p)'
    BY <1>3, <2>1 DEF Even, PlansFit
  <2> QED BY <1>1, <1>3, <2>1, <2>4, <2>5, <2>6 DEF Even
<1> QED BY <1>2, <1>3

\* Steps that leave requests and generations as they are.
LEMMA TablesCounted ==
  ASSUME TInv, CInv, NEW p \in plain, UNCHANGED <<call, plan, made, runs>>,
         Generated(p) => OptionsOf(p)' = OptionsOf(p)
                           /\ \A o \in OptionsOf(p) : ValuesOf(o)' = ValuesOf(o),
         \A v \in Variants : variantOf'[v] = p <=> variantOf[v] = p,
         \A v \in Variants : Generated(p) /\ variantOf[v] = p => links'[v] = links[v]
  PROVE  IF Generated(p)' THEN Even(p)' ELSE Fresh(p)'
<1>1. \A c \in Calls : Sets(c)' = Sets(c)
  BY DEF Sets
<1>2. \A s \in Combinations(p), v \in Variants :
        Generated(p) /\ variantOf[v] = p => (IsFor(v, s)' <=> IsFor(v, s))
  BY DEF IsFor
<1>3. p \in Products
  BY DEF TInv, ObserversFit
<1> QED BY <1>1, <1>2, <1>3, SameCounted DEF CInv

\* Requests about pictures and readers count nothing.
LEMMA QuietCInv ==
  ASSUME TInv, CInv, UNCHANGED <<variety, generation, plain, runs>>,
         \A c \in Calls : call[c].at = "generate" => call'[c] = call[c],
         \A c \in Calls : call'[c].at = "generate" => call'[c] = call[c]
  PROVE  CInv'
<1> SUFFICES ASSUME NEW p \in plain
             PROVE  IF Generated(p)' THEN Even(p)' ELSE Fresh(p)'
  BY DEF CInv
<1>1. UNCHANGED <<productOf, values, variantOf, links, plan, made>>
  BY DEF variety, generation
<1>2. \A c \in Calls : Sets(c)' = Sets(c)
  BY <1>1 DEF Sets
<1>3. \A c \in Calls : plan[c] # {} \/ Sets(c) # {} => call'[c] = call[c]
  BY DEF TInv, CallsFit, StepFits, Sets
<1>4. \A v \in Variants : \A s : IsFor(v, s)' <=> IsFor(v, s)
  BY <1>1 DEF IsFor
<1>5. OptionsOf(p)' = OptionsOf(p) /\ \A o \in OptionsOf(p) : ValuesOf(o)' = ValuesOf(o)
  BY <1>1 DEF OptionsOf, ValuesOf
<1>6. p \in Products
  BY DEF TInv, ObserversFit
<1>7. \A c \in Calls : call'[c].of = p =>
           Sets(c)' = {} \/ (call[c].of = p /\ Sets(c)' \subseteq Sets(c))
  BY <1>2, <1>3
<1>8. \A c \in Calls, s \in Combinations(p) :
           (call'[c].of = p /\ s \in plan'[c]) <=> (call[c].of = p /\ s \in plan[c])
  BY <1>1, <1>3
<1> QED BY <1>1, <1>4, <1>5, <1>6, <1>7, <1>8, SameCounted DEF CInv

\* Options and values of a product that has been generated disturb it, and
\* those of others are not its own.
LEMMA OptionsCInv ==
  ASSUME TInv, VInv, CInv,
         \/ \E p \in Products, o \in Options : AddOption(o, p)
         \/ \E x \in Values : AddValue(x) \/ DeleteValue(x)
         \/ \E o \in Options : DeleteOption(o)
  PROVE  CInv'
<1> SUFFICES ASSUME NEW p \in plain'
             PROVE  IF Generated(p)' THEN Even(p)' ELSE Fresh(p)'
  BY DEF CInv
<1>0. /\ productOf \in [Options -> Products \cup {None}] /\ values \subseteq Values
      /\ \A x \in values : OptionOf(x) \in Options /\ productOf[OptionOf(x)] # None
      /\ links \in [Variants -> SUBSET Values] /\ plain \subseteq Products
      /\ None \notin Products
  BY DEF TInv, VarietyFits, ObserversFit
<1>1. UNCHANGED <<variantOf, call, plan, made, runs>>
  BY DEF AddOption, AddValue, DeleteValue, DeleteOption, generation
<1>2. \A v \in Variants : \A x \in links[v] : productOf[OptionOf(x)] = variantOf[v]
  BY DEF VInv, VariantIsAChoice
<1>3. ASSUME NEW q, Disturbs(q) PROVE p \in plain /\ (Generated(p) => p # q)
  BY <1>3 DEF Disturbs
<1>4. CASE \E q \in Products, o \in Options : AddOption(o, q)
  <2>1. PICK q \in Products, o \in Options : AddOption(o, q)
    BY <1>4
  <2>2. /\ productOf[o] = None /\ productOf' = [productOf EXCEPT ![o] = q]
        /\ UNCHANGED <<values, links>> /\ Disturbs(q)
    BY <2>1 DEF AddOption
  <2>3. p \in plain /\ p # None /\ (Generated(p) => p # q)
    BY <2>2, <1>3, <1>0
  <2>4. Generated(p) => OptionsOf(p)' = OptionsOf(p)
    BY <2>2, <2>3, <1>0 DEF OptionsOf
  <2>5. \A r \in Options : ValuesOf(r)' = ValuesOf(r)
    BY <2>2 DEF ValuesOf
  <2> QED BY <1>1, <2>2, <2>3, <2>4, <2>5, TablesCounted DEF OptionsOf
<1>5. CASE \E x \in Values : AddValue(x)
  <2>1. PICK x \in Values : AddValue(x)
    BY <1>5
  <2>2. /\ values' = values \cup {x} /\ UNCHANGED <<productOf, links>>
        /\ Disturbs(productOf[OptionOf(x)])
    BY <2>1 DEF AddValue
  <2>3. p \in plain /\ (Generated(p) => p # productOf[OptionOf(x)])
    BY <2>2, <1>3
  <2>4. OptionsOf(p)' = OptionsOf(p)
    BY <2>2 DEF OptionsOf
  <2>5. Generated(p) => \A o \in OptionsOf(p) : ValuesOf(o)' = ValuesOf(o)
    BY <2>2, <2>3 DEF ValuesOf, OptionsOf
  <2> QED BY <1>1, <2>2, <2>3, <2>4, <2>5, TablesCounted
<1>6. CASE \E x \in Values : DeleteValue(x)
  <2>1. PICK x \in Values : DeleteValue(x)
    BY <1>6
  <2>2. /\ values' = values \ {x} /\ UNCHANGED productOf /\ x \in values
        /\ links' = Unlinked({x}) /\ Disturbs(productOf[OptionOf(x)])
    BY <2>1 DEF DeleteValue
  <2>3. p \in plain /\ (Generated(p) => p # productOf[OptionOf(x)])
    BY <2>2, <1>3
  <2>4. OptionsOf(p)' = OptionsOf(p)
    BY <2>2 DEF OptionsOf
  <2>5. Generated(p) => \A o \in OptionsOf(p) : ValuesOf(o)' = ValuesOf(o)
    BY <2>2, <2>3 DEF ValuesOf, OptionsOf
  <2>6. \A v \in Variants : Generated(p) /\ variantOf[v] = p => links'[v] = links[v]
    <3> SUFFICES ASSUME NEW v \in Variants, Generated(p), variantOf[v] = p
                 PROVE  links'[v] = links[v]
      OBVIOUS
    <3>1. x \notin links[v]
      BY <1>2, <2>3
    <3>2. links'[v] = links[v] \ {x}
      BY <2>2 DEF Unlinked
    <3> QED BY <3>1, <3>2
  <2> QED BY <1>1, <2>2, <2>3, <2>4, <2>5, <2>6, TablesCounted
<1>7. CASE \E o \in Options : DeleteOption(o)
  <2>1. PICK o \in Options : DeleteOption(o)
    BY <1>7
  <2>2. /\ productOf[o] # None /\ productOf' = [productOf EXCEPT ![o] = None]
        /\ values' = values \ ValuesOf(o) /\ links' = Unlinked(ValuesOf(o))
        /\ Disturbs(productOf[o])
    BY <2>1 DEF DeleteOption
  <2>3. p \in plain /\ p # None /\ (Generated(p) => p # productOf[o])
    BY <2>2, <1>3, <1>0
  <2>4. Generated(p) => OptionsOf(p)' = OptionsOf(p) /\ o \notin OptionsOf(p)
    BY <2>2, <2>3, <1>0 DEF OptionsOf
  <2>5. \A r \in Options \ {o} : ValuesOf(r)' = ValuesOf(r)
    BY <2>2 DEF ValuesOf
  <2>6. \A v \in Variants : Generated(p) /\ variantOf[v] = p => links'[v] = links[v]
    <3> SUFFICES ASSUME NEW v \in Variants, Generated(p), variantOf[v] = p
                 PROVE  links'[v] = links[v]
      OBVIOUS
    <3>1. \A x \in ValuesOf(o) : x \notin links[v]
      BY <1>2, <2>3 DEF ValuesOf
    <3>2. links'[v] = links[v] \ ValuesOf(o)
      BY <2>2 DEF Unlinked
    <3> QED BY <3>1, <3>2
  <2> QED BY <1>1, <2>3, <2>4, <2>5, <2>6, TablesCounted DEF OptionsOf
<1> QED BY <1>4, <1>5, <1>6, <1>7

\* Variants that go disturb their product alone.
LEMMA VariantsGoCInv ==
  ASSUME TInv, CInv,
         \/ \E v \in Variants : DeleteVariant(v)
         \/ \E p \in Products : DeleteProduct(p)
  PROVE  CInv'
<1> SUFFICES ASSUME NEW p \in plain'
             PROVE  IF Generated(p)' THEN Even(p)' ELSE Fresh(p)'
  BY DEF CInv
<1>0. /\ productOf \in [Options -> Products \cup {None}] /\ values \subseteq Values
      /\ \A x \in values : OptionOf(x) \in Options
      /\ variantOf \in [Variants -> Products \cup {None}]
      /\ links \in [Variants -> SUBSET Values]
      /\ None \notin Products /\ plain \subseteq Products
  BY DEF TInv, VarietyFits, ObserversFit
<1>1. UNCHANGED <<call, plan, made, runs>> /\ p \in plain
  BY DEF DeleteVariant, DeleteProduct, generation
<1>2. CASE \E v \in Variants : DeleteVariant(v)
  <2>1. PICK v \in Variants : DeleteVariant(v)
    BY <1>2
  <2>2. /\ variantOf' = [variantOf EXCEPT ![v] = None] /\ links' = [links EXCEPT ![v] = {}]
        /\ UNCHANGED <<productOf, values>> /\ p # variantOf[v] /\ p # None
    BY <2>1, <1>0, <1>1 DEF DeleteVariant
  <2>3. OptionsOf(p)' = OptionsOf(p) /\ \A o \in OptionsOf(p) : ValuesOf(o)' = ValuesOf(o)
    BY <2>2 DEF OptionsOf, ValuesOf
  <2>4. \A w \in Variants : /\ variantOf'[w] = p <=> variantOf[w] = p
                            /\ variantOf[w] = p => links'[w] = links[w]
    BY <2>2, <1>0
  <2> QED BY <1>1, <2>3, <2>4, TablesCounted
<1>3. CASE \E q \in Products : DeleteProduct(q)
  <2>1. PICK q \in Products : DeleteProduct(q)
    BY <1>3
  <2>2. /\ values' = {x \in values : productOf[OptionOf(x)] # q} /\ p # q /\ p # None
        /\ productOf' = [o \in Options |-> IF productOf[o] = q THEN None ELSE productOf[o]]
        /\ variantOf' = [v \in Variants |-> IF variantOf[v] = q THEN None ELSE variantOf[v]]
        /\ links' = [v \in Variants |-> IF variantOf[v] = q THEN {} ELSE links[v]]
    BY <2>1, <1>0, <1>1 DEF DeleteProduct
  <2>3. OptionsOf(p)' = OptionsOf(p)
    BY <2>2 DEF OptionsOf
  <2>4. \A o \in OptionsOf(p) : ValuesOf(o)' = ValuesOf(o)
    BY <2>2 DEF ValuesOf, OptionsOf
  <2>5. \A w \in Variants : /\ variantOf'[w] = p <=> variantOf[w] = p
                            /\ variantOf[w] = p => links'[w] = links[w]
    BY <2>2
  <2> QED BY <1>1, <2>3, <2>4, <2>5, TablesCounted
<1> QED BY <1>2, <1>3

\* A generation makes every combination once more.
LEMMA GenerateCInv ==
  ASSUME TInv, VInv, CInv, NEW c \in Calls, NEW q \in Products, Generate(c, q)
  PROVE  CInv'
<1> SUFFICES ASSUME NEW p \in plain
             PROVE  IF Generated(p)' THEN Even(p)' ELSE Fresh(p)'
  BY DEF CInv, Generate
<1> DEFINE r == [Idle EXCEPT !.at = "generate", !.of = q]
<1>1. /\ call[c] = Idle /\ OptionsOf(q) # {}
      /\ plan' = [plan EXCEPT ![c] = Combinations(q)]
      /\ call' = [call EXCEPT ![c] = r]
      /\ runs' = [runs EXCEPT ![q] = @ + 1]
      /\ UNCHANGED <<productOf, values, variantOf, links, made, plain>>
  BY DEF Generate, variety
<1>2. /\ call[c].at = "idle" /\ call[c].of = None
      /\ r.at = "generate" /\ r.of = q
  BY <1>1 DEF Idle
<1> HIDE DEF r
<1>3. /\ call \in [Calls -> CallType] /\ plan \in [Calls -> SUBSET SUBSET Values]
      /\ runs \in [Products -> Nat] /\ p \in Products /\ p # None
      /\ \A d \in Calls : StepFits(d)
  BY DEF TInv, CallsFit, ObserversFit
<1>4. /\ plan[c] = {} /\ made[c] = {} /\ call'[c] = r /\ plan'[c] = Combinations(q)
      /\ \A d \in Calls \ {c} : call'[d] = call[d] /\ plan'[d] = plan[d]
  BY <1>1, <1>2, <1>3 DEF StepFits
<1>5. /\ Sets(c)' = Combinations(q)
      /\ \A d \in Calls \ {c} : Sets(d)' = Sets(d)
  BY <1>1, <1>4 DEF Sets
<1>6. OptionsOf(p)' = OptionsOf(p) /\ \A o \in OptionsOf(p) : ValuesOf(o)' = ValuesOf(o)
  BY <1>1 DEF OptionsOf, ValuesOf
<1>7. \A s, v : IsFor(v, s)' <=> IsFor(v, s)
  BY <1>1 DEF IsFor
<1>8. CASE p # q
  <2>1. runs'[p] = runs[p]
    BY <1>1, <1>3, <1>8
  <2>2. \A d \in Calls : call'[d].of = p => d # c
    BY <1>2, <1>4, <1>8
  <2>3. call[c].of # p
    BY <1>2, <1>3
  <2> QED BY <1>1, <1>3, <1>4, <1>5, <1>6, <1>7, <2>1, <2>2, <2>3, SameCounted DEF CInv
<1>9. CASE p = q
  <2>1. Combinations(p)' = Combinations(p)
    BY <1>6, SameCombinations
  <2>2. runs'[p] = runs[p] + 1 /\ runs[p] \in Nat /\ Generated(p)'
    BY <1>1, <1>3, <1>9 DEF Generated
  <2>3. ASSUME NEW s \in Combinations(p)
        PROVE  /\ Has(p, s)' = Has(p, s)
               /\ Coming(p, s)' = Coming(p, s) \cup {c} /\ c \notin Coming(p, s)
    <3>1. Has(p, s)' = Has(p, s)
      BY <1>1, <1>7 DEF Has
    <3>2. call'[c].of = p /\ s \in plan'[c] /\ call[c].of # p
      BY <1>2, <1>3, <1>4, <1>9
    <3> QED BY <3>1, <3>2, <1>4 DEF Coming
  <2>4. CASE Generated(p)
    <3>1. Even(p)
      BY <2>4 DEF CInv
    <3>2. AsOften(p)'
      <4> SUFFICES ASSUME NEW s \in Combinations(p)
                   PROVE  /\ IsFiniteSet(Has(p, s)') /\ IsFiniteSet(Coming(p, s)')
                          /\ Cardinality(Has(p, s)') + Cardinality(Coming(p, s)') = runs'[p]
        BY <2>1 DEF AsOften
      <4>1. /\ IsFiniteSet(Has(p, s)) /\ IsFiniteSet(Coming(p, s))
            /\ Cardinality(Has(p, s)) + Cardinality(Coming(p, s)) = runs[p]
        BY <3>1 DEF Even, AsOften
      <4>2. Cardinality(Has(p, s)) \in Nat /\ Cardinality(Coming(p, s)) \in Nat
        BY <4>1, FS_CardinalityType
      <4>3. /\ IsFiniteSet(Coming(p, s) \cup {c})
            /\ Cardinality(Coming(p, s) \cup {c}) = Cardinality(Coming(p, s)) + 1
        BY <4>1, <2>3, FS_AddElement
      <4>4. Has(p, s)' = Has(p, s) /\ Coming(p, s)' = Coming(p, s) \cup {c}
        BY <2>3
      <4> QED BY <2>2, <4>1, <4>2, <4>3, <4>4
    <3>3. PlansFit(p)'
      <4> SUFFICES ASSUME NEW d \in Calls, call'[d].of = p
                   PROVE  Sets(d)' \subseteq Combinations(p)
        BY <2>1 DEF PlansFit
      <4> QED BY <1>4, <1>5, <1>9, <3>1 DEF Even, PlansFit
    <3>4. NoOthers(p)'
      BY <1>1, <2>1, <2>3, <3>1 DEF Even, NoOthers
    <3> QED BY <1>1, <1>6, <1>9, <2>2, <3>2, <3>3, <3>4 DEF Even
  <2>5. CASE ~Generated(p)
    <3>1. Fresh(p) /\ runs[p] = 0
      BY <2>2, <2>5 DEF CInv, Generated
    <3>2. \A d \in Calls : call[d].of = p => Sets(d) = {} /\ plan[d] = {}
      BY <1>3, <3>1 DEF Fresh, StepFits, Sets
    <3>3. AsOften(p)'
      <4> SUFFICES ASSUME NEW s \in Combinations(p)
                   PROVE  /\ IsFiniteSet(Has(p, s)') /\ IsFiniteSet(Coming(p, s)')
                          /\ Cardinality(Has(p, s)') + Cardinality(Coming(p, s)') = runs'[p]
        BY <2>1 DEF AsOften
      <4>1. Has(p, s) = {} /\ Coming(p, s) = {}
        BY <3>1, <3>2 DEF Has, Coming, Fresh
      <4>2. Has(p, s)' = {} /\ Coming(p, s)' = {c}
        BY <4>1, <2>3
      <4>3. IsFiniteSet({}) /\ Cardinality({}) = 0
        BY FS_EmptySet
      <4>4. IsFiniteSet({c}) /\ Cardinality({c}) = 1
        BY FS_Singleton
      <4> QED BY <2>2, <3>1, <4>2, <4>3, <4>4
    <3>4. PlansFit(p)'
      <4> SUFFICES ASSUME NEW d \in Calls, call'[d].of = p
                   PROVE  Sets(d)' \subseteq Combinations(p)
        BY <2>1 DEF PlansFit
      <4> QED BY <1>4, <1>5, <1>9, <3>2
    <3>5. NoOthers(p)'
      BY <1>1, <3>1 DEF Fresh, NoOthers
    <3> QED BY <1>1, <1>6, <1>9, <2>2, <3>3, <3>4, <3>5 DEF Even
  <2> QED BY <2>4, <2>5
<1> QED BY <1>8, <1>9

\* A variant that a branch has made counts for the combination it is to have.
LEMMA CreateVariantCInv ==
  ASSUME TInv, VInv, CInv, NEW c \in Calls, NEW s \in plan[c], CreateVariant(c, s)
  PROVE  CInv'
<1> SUFFICES ASSUME NEW p \in plain
             PROVE  IF Generated(p)' THEN Even(p)' ELSE Fresh(p)'
  BY DEF CInv, CreateVariant
<1>1. PICK v \in Variants :
        /\ variantOf[v] = None
        /\ \A d \in Calls : \A m \in made[d] : m[1] # v
        /\ variantOf' = [variantOf EXCEPT ![v] = call[c].of]
        /\ made' = [made EXCEPT ![c] = @ \cup {<<v, s>>}]
  BY DEF CreateVariant
<1>2. /\ plan' = [plan EXCEPT ![c] = @ \ {s}]
      /\ UNCHANGED <<productOf, values, links, call, plain, runs>>
  BY DEF CreateVariant
<1>3. /\ variantOf \in [Variants -> Products \cup {None}]
      /\ plan \in [Calls -> SUBSET SUBSET Values]
      /\ made \in [Calls -> SUBSET (Variants \X SUBSET Values)]
      /\ p \in Products /\ p # None
      /\ call[c].at = "generate"
  BY DEF TInv, VarietyFits, CallsFit, StepFits, ObserversFit
<1>4. links[v] = {}
  BY <1>1, GoneHasNone DEF VInv
<1>5. /\ made'[c] = made[c] \cup {<<v, s>>} /\ plan'[c] = plan[c] \ {s}
      /\ variantOf'[v] = call[c].of
      /\ \A w \in Variants \ {v} : variantOf'[w] = variantOf[w]
      /\ \A d \in Calls \ {c} : made'[d] = made[d] /\ plan'[d] = plan[d]
  BY <1>1, <1>2, <1>3
<1>6. \A d \in Calls : Sets(d)' \subseteq Sets(d)
  <2>1. \A d \in Calls \ {c} : Sets(d)' = Sets(d)
    BY <1>5 DEF Sets
  <2>2. Sets(c)' \subseteq Sets(c)
    BY <1>5 DEF Sets
  <2> QED BY <2>1, <2>2
<1>7. OptionsOf(p)' = OptionsOf(p) /\ \A o \in OptionsOf(p) : ValuesOf(o)' = ValuesOf(o)
  BY <1>2 DEF OptionsOf, ValuesOf
<1>8. \A w \in Variants \ {v} : \A t : IsFor(w, t)' <=> IsFor(w, t)
  <2> SUFFICES ASSUME NEW w \in Variants \ {v}, NEW t
               PROVE  \A d \in Calls : <<w, t>> \in made'[d] <=> <<w, t>> \in made[d]
    BY <1>2 DEF IsFor
  <2> QED BY <1>5
<1>9. CASE p # call[c].of
  <2>1. \A w \in Variants : /\ variantOf'[w] = p <=> variantOf[w] = p
                            /\ variantOf[w] = p => w # v
    BY <1>1, <1>3, <1>5, <1>9
  <2>2. \A d \in Calls, t \in Combinations(p) :
           (call'[d].of = p /\ t \in plan'[d]) <=> (call[d].of = p /\ t \in plan[d])
    BY <1>2, <1>5, <1>9
  <2> QED BY <1>2, <1>3, <1>6, <1>7, <1>8, <2>1, <2>2, SameCounted DEF CInv
<1>10. CASE p = call[c].of
  <2>1. Even(p) /\ Generated(p) /\ Generated(p)' /\ runs'[p] = runs[p]
    BY <1>2, <1>3, <1>10 DEF CInv, Fresh, Generated
  <2>2. Combinations(p)' = Combinations(p) /\ s \in Combinations(p)
    <3>1. s \in Sets(c)
      BY DEF Sets
    <3> QED BY <1>7, <1>10, <2>1, <3>1, SameCombinations DEF Even, PlansFit
  <2>3. \A t \in Combinations(p) : t # {}
    BY <2>1, CombinationIsAChoice DEF Even
  <2>4. ASSUME NEW t \in Combinations(p), t = s
        PROVE  /\ Has(p, t)' = Has(p, t) \cup {v} /\ v \notin Has(p, t)
               /\ Coming(p, t)' = Coming(p, t) \ {c} /\ c \in Coming(p, t)
    <3>1. variantOf[v] # p /\ variantOf'[v] = p
      BY <1>1, <1>3, <1>5, <1>10
    <3>2. IsFor(v, t)'
      BY <1>5, <2>4 DEF IsFor
    <3>3. Has(p, t)' = Has(p, t) \cup {v} /\ v \notin Has(p, t)
      BY <1>5, <1>8, <3>1, <3>2 DEF Has
    <3>4. Coming(p, t)' = Coming(p, t) \ {c} /\ c \in Coming(p, t)
      BY <1>2, <1>5, <1>10, <2>4 DEF Coming
    <3> QED BY <3>3, <3>4
  <2>5. ASSUME NEW t \in Combinations(p), t # s
        PROVE  Has(p, t)' = Has(p, t) /\ Coming(p, t)' = Coming(p, t)
    <3>1. ~IsFor(v, t)'
      <4>1. links'[v] # t
        BY <1>2, <1>4, <2>3
      <4>2. \A d \in Calls : <<v, t>> \notin made[d]
        BY <1>1
      <4>3. <<v, t>> # <<v, s>>
        BY <2>5
      <4> QED BY <4>1, <4>2, <4>3, <1>5 DEF IsFor
    <3>2. variantOf[v] # p
      BY <1>1, <1>3
    <3>3. Has(p, t)' = Has(p, t)
      BY <1>5, <1>8, <3>1, <3>2 DEF Has
    <3>4. \A d \in Calls : t \in plan'[d] <=> t \in plan[d]
      BY <1>5, <2>5
    <3> QED BY <1>2, <3>3, <3>4 DEF Coming
  <2>6. AsOften(p)'
    <3> SUFFICES ASSUME NEW t \in Combinations(p)
                 PROVE  /\ IsFiniteSet(Has(p, t)') /\ IsFiniteSet(Coming(p, t)')
                        /\ Cardinality(Has(p, t)') + Cardinality(Coming(p, t)') = runs[p]
      BY <2>1, <2>2 DEF AsOften
    <3>1. /\ IsFiniteSet(Has(p, t)) /\ IsFiniteSet(Coming(p, t))
          /\ Cardinality(Has(p, t)) + Cardinality(Coming(p, t)) = runs[p]
      BY <2>1 DEF Even, AsOften
    <3>2. CASE t = s
      <4>0. /\ Has(p, t)' = Has(p, t) \cup {v} /\ v \notin Has(p, t)
            /\ Coming(p, t)' = Coming(p, t) \ {c} /\ c \in Coming(p, t)
        BY <2>4, <3>2
      <4>1. Cardinality(Has(p, t)) \in Nat /\ Cardinality(Coming(p, t)) \in Nat
        BY <3>1, FS_CardinalityType
      <4>2. /\ IsFiniteSet(Has(p, t) \cup {v})
            /\ Cardinality(Has(p, t) \cup {v}) = Cardinality(Has(p, t)) + 1
        BY <3>1, <4>0, FS_AddElement
      <4>3. /\ IsFiniteSet(Coming(p, t) \ {c})
            /\ Cardinality(Coming(p, t) \ {c}) = Cardinality(Coming(p, t)) - 1
        BY <3>1, <4>0, FS_RemoveElement
      <4> QED BY <3>1, <4>0, <4>1, <4>2, <4>3
    <3>3. CASE t # s
      BY <2>5, <3>1, <3>3
    <3> QED BY <3>2, <3>3
  <2>7. PlansFit(p)'
    BY <1>2, <1>6, <2>1, <2>2 DEF Even, PlansFit
  <2>8. NoOthers(p)'
    <3> SUFFICES ASSUME NEW w \in Variants, variantOf'[w] = p
                 PROVE  \E t \in Combinations(p) : w \in Has(p, t)'
      BY <2>2 DEF NoOthers
    <3>1. CASE w = v
      BY <2>2, <2>4, <3>1
    <3>2. CASE w # v
      <4>1. PICK t \in Combinations(p) : w \in Has(p, t)
        BY <1>5, <2>1, <3>2 DEF Even, NoOthers
      <4> QED BY <2>4, <2>5, <4>1
    <3> QED BY <3>1, <3>2
  <2> QED BY <1>7, <2>1, <2>6, <2>7, <2>8 DEF Even
<1> QED BY <1>9, <1>10

\* A variant that gets its values is the one it was made to be.
LEMMA CreateValuesCInv ==
  ASSUME TInv, VInv, CInv, NEW c \in Calls, NEW m \in made[c], CreateValues(c, m)
  PROVE  CInv'
<1> SUFFICES ASSUME NEW p \in plain
             PROVE  IF Generated(p)' THEN Even(p)' ELSE Fresh(p)'
  BY DEF CInv, CreateValues
<1>1. /\ links' = [links EXCEPT ![m[1]] = m[2]]
      /\ made' = [made EXCEPT ![c] = @ \ {m}]
      /\ UNCHANGED <<productOf, values, variantOf, call, plan, plain, runs>>
  BY DEF CreateValues, Linked
<1>2. /\ links \in [Variants -> SUBSET Values]
      /\ made \in [Calls -> SUBSET (Variants \X SUBSET Values)]
      /\ m[1] \in Variants /\ m = <<m[1], m[2]>> /\ p \in Products
  BY DEF TInv, VarietyFits, CallsFit, ObserversFit
<1>3. /\ made'[c] = made[c] \ {m} /\ \A d \in Calls \ {c} : made'[d] = made[d]
      /\ links'[m[1]] = m[2] /\ \A w \in Variants \ {m[1]} : links'[w] = links[w]
  BY <1>1, <1>2
<1>4. \A d \in Calls : Sets(d)' \subseteq Sets(d)
  <2>1. \A d \in Calls : made'[d] \subseteq made[d]
    BY <1>3
  <2> QED BY <1>1, <2>1 DEF Sets
<1>5. OptionsOf(p)' = OptionsOf(p) /\ \A o \in OptionsOf(p) : ValuesOf(o)' = ValuesOf(o)
  BY <1>1 DEF OptionsOf, ValuesOf
<1>6. ASSUME NEW t \in Combinations(p), NEW v \in Variants, Generated(p)
      PROVE  IsFor(v, t)' <=> IsFor(v, t)
  <2>1. CASE v # m[1]
    <3>1. \A d \in Calls : <<v, t>> \in made'[d] <=> <<v, t>> \in made[d]
      BY <1>2, <1>3, <2>1
    <3> QED BY <1>3, <2>1, <3>1 DEF IsFor
  <2>2. CASE v = m[1]
    <3>1. links[v] = {} /\ t # {}
      BY <1>6, <2>2, CombinationIsAChoice DEF VInv, MadeFits, CInv, Even
    <3>2. \A d \in Calls : <<v, t>> \in made[d] => m = <<v, t>>
      BY <2>2 DEF VInv, MadeOnce
    <3>3. IsFor(v, t) <=> t = m[2]
      BY <1>2, <2>2, <3>1, <3>2 DEF IsFor
    <3>4. \A d \in Calls : <<v, t>> \notin made'[d]
      <4>1. \A d \in Calls : <<v, t>> \in made[d] => d = c
        BY <2>2 DEF VInv, MadeOnce
      <4> QED BY <1>3, <3>2, <4>1
    <3>5. IsFor(v, t)' <=> t = m[2]
      BY <1>3, <2>2, <3>4 DEF IsFor
    <3> QED BY <3>3, <3>5
  <2> QED BY <2>1, <2>2
<1> QED BY <1>1, <1>2, <1>4, <1>5, <1>6, SameCounted DEF CInv

\* A generation that fails or is cut off has its product counted no more; one
\* that comes to its end has nothing left to count.
LEMMA EndingCInv ==
  ASSUME TInv, VInv, CInv, \/ \E c \in Calls : BranchFails(c) \/ Generates(c)
                           \/ Crash
  PROVE  CInv'
<1> SUFFICES ASSUME NEW p \in plain'
             PROVE  IF Generated(p)' THEN Even(p)' ELSE Fresh(p)'
  BY DEF CInv
<1>0. /\ call \in [Calls -> CallType] /\ plan \in [Calls -> SUBSET SUBSET Values]
      /\ made \in [Calls -> SUBSET (Variants \X SUBSET Values)]
  BY DEF TInv, CallsFit
<1>1. /\ UNCHANGED <<productOf, values, variantOf, links, runs>> /\ p \in plain
      /\ p \in Products /\ p # None
  BY DEF BranchFails, Generates, Crash, variety, TInv, ObserversFit
<1>2. \A d \in Calls : plan'[d] \subseteq plan[d] /\ made'[d] \subseteq made[d]
  BY <1>0 DEF BranchFails, Generates, Crash, generation
<1>3. \A d \in Calls : call'[d] = call[d] \/ (plan'[d] = {} /\ call'[d].of = None)
  <2>1. CASE \E c \in Calls : BranchFails(c)
    BY <2>1 DEF BranchFails
  <2>2. CASE \E c \in Calls : Generates(c)
    BY <2>2, <1>0 DEF Generates, Ends, generation, Idle
  <2>3. CASE Crash
    BY <2>3 DEF Crash, Idle
  <2> QED BY <2>1, <2>2, <2>3
<1>4. \A d \in Calls : call[d].of = p => plan'[d] = plan[d] /\ made'[d] = made[d]
  <2>1. CASE \E c \in Calls : BranchFails(c)
    <3>1. PICK c \in Calls : BranchFails(c)
      BY <2>1
    <3>2. /\ call[c].of # p
          /\ \A d \in Calls \ {c} : plan'[d] = plan[d] /\ made'[d] = made[d]
      BY <3>1, <1>0 DEF BranchFails
    <3> QED BY <3>2
  <2>2. CASE \E c \in Calls : Generates(c)
    BY <2>2 DEF Generates, generation
  <2>3. CASE Crash
    BY <2>3 DEF Crash
  <2> QED BY <2>1, <2>2, <2>3
<1>5. OptionsOf(p)' = OptionsOf(p) /\ \A o \in OptionsOf(p) : ValuesOf(o)' = ValuesOf(o)
  BY <1>1 DEF OptionsOf, ValuesOf
<1>6. ASSUME NEW v \in Variants, NEW s, variantOf[v] = p
      PROVE  IsFor(v, s)' <=> IsFor(v, s)
  <2>1. \A d \in Calls : <<v, s>> \in made[d] => call[d].of = p
    BY <1>1, <1>6 DEF VInv, MadeFits
  <2>2. \A d \in Calls : <<v, s>> \in made'[d] <=> <<v, s>> \in made[d]
    BY <1>2, <1>4, <2>1
  <2> QED BY <1>1, <2>2 DEF IsFor
<1>7. \A d \in Calls : call'[d].of = p => call'[d] = call[d] /\ Sets(d)' \subseteq Sets(d)
  BY <1>1, <1>2, <1>3 DEF Sets
<1>8. \A d \in Calls, s \in Combinations(p) :
        (call'[d].of = p /\ s \in plan'[d]) <=> (call[d].of = p /\ s \in plan[d])
  BY <1>1, <1>3, <1>4, <1>7
<1> QED BY <1>1, <1>5, <1>6, <1>7, <1>8, SameCounted DEF CInv

\* Every step keeps count.
LEMMA NextCInv == TInv /\ VInv /\ CInv /\ [Next]_vars => CInv'
<1> SUFFICES ASSUME TInv, VInv, CInv, [Next]_vars PROVE CInv'
  OBVIOUS
<1>1. CASE UNCHANGED vars
  BY <1>1, QuietCInv DEF vars
<1>2. CASE Next
  BY <1>2, OthersQuiet, QuietCInv, OptionsCInv, VariantsGoCInv, GenerateCInv,
    CreateVariantCInv, CreateValuesCInv, EndingCInv DEF Next
<1> QED BY <1>1, <1>2

\* Nothing has been generated.
LEMMA InitCInv == Init => CInv
<1> SUFFICES ASSUME Init, NEW p \in plain PROVE ~Generated(p) /\ Fresh(p)
  BY DEF CInv
<1> QED BY DEF Init, Generated, Fresh, Idle

\* While the options of a product stay as they are and none of its generations
\* fails, each of its combinations has as many variants as there were
\* generations, and it has no others.
THEOREM CombinationsEven == Spec => []EveryCombinationAsOften
<1>1. ASSUME TInv, VInv, CInv PROVE EveryCombinationAsOften
  <2> SUFFICES ASSUME NEW p \in plain, Generated(p), ~Busy(p)
               PROVE  /\ \A v \in Variants : variantOf[v] = p => links[v] \in Combinations(p)
                      /\ \A s \in Combinations(p) :
                           Cardinality({v \in Variants : variantOf[v] = p /\ links[v] = s})
                             = runs[p]
    BY DEF EveryCombinationAsOften
  <2>1. Even(p) /\ p # None /\ runs[p] \in Nat
    BY <1>1 DEF CInv, TInv, ObserversFit
  <2>2. \A v \in Variants : \A s : variantOf[v] = p => (IsFor(v, s) <=> links[v] = s)
    BY <1>1, <2>1 DEF IsFor, VInv, MadeFits, Busy
  <2>3. \A v \in Variants : variantOf[v] = p => links[v] \in Combinations(p)
    BY <2>1, <2>2 DEF Even, NoOthers, Has
  <2>4. ASSUME NEW s \in Combinations(p)
        PROVE  Cardinality({v \in Variants : variantOf[v] = p /\ links[v] = s}) = runs[p]
    <3>1. Has(p, s) = {v \in Variants : variantOf[v] = p /\ links[v] = s}
      BY <2>2 DEF Has
    <3>2. Coming(p, s) = {}
      BY DEF Coming, Busy
    <3>3. /\ IsFiniteSet(Has(p, s)) /\ Cardinality(Coming(p, s)) = 0
          /\ Cardinality(Has(p, s)) + Cardinality(Coming(p, s)) = runs[p]
      BY <2>1, <3>2, FS_EmptySet DEF Even, AsOften
    <3>4. Cardinality(Has(p, s)) \in Nat
      BY <3>3, FS_CardinalityType
    <3> QED BY <3>1, <3>3, <3>4
  <2> QED BY <2>3, <2>4
<1> QED BY <1>1, InitVInv, InitCInv, Shape, NextVInv, NextCInv, PTL DEF Spec

-----------------------------------------------------------------------------
(* Reading the list                                                        *)

\* How many of the newest rows the client has read.
ReadSoFar == IF walk.at = "find" THEN (walk.page - 1) * Limit ELSE walk.page * Limit

\* While nothing is deleted, it has seen those of the rows that were there when
\* it began which are as near to the newest as it has read.
Walking ==
  walk.at \in {"find", "count", "over"} =>
    /\ walk.there \subseteq Rows
    /\ \A j \in 1..Len(rows) :
         rows[j] \in walk.there /\ (walk.at = "over" \/ Len(rows) + 1 - j <= ReadSoFar)
           => rows[j] \in walk.seen

\* A product that is added moves the others on, never back.
LEMMA AddWalking ==
  ASSUME TInv, Walking, NEW p \in Products, p \notin Rows, rows' = Append(rows, p),
         UNCHANGED walk
  PROVE  Walking'
<1>1. /\ rows \in Seq(Products) /\ Len(rows) \in Nat /\ DOMAIN rows = 1..Len(rows)
      /\ Len(rows') = Len(rows) + 1 /\ DOMAIN rows' = 1..(Len(rows) + 1)
      /\ \A i \in 1..Len(rows) : rows'[i] = rows[i]
      /\ rows'[Len(rows) + 1] = p
  BY AppendProperties DEF TInv, RowsFit
<1>2. Rows \subseteq Rows'
  BY <1>1 DEF Rows, Range
<1>3. ReadSoFar' = ReadSoFar /\ ReadSoFar \in Int
  BY DEF ReadSoFar, TInv, WalkFits
<1> SUFFICES ASSUME walk.at \in {"find", "count", "over"}, NEW j \in 1..(Len(rows) + 1),
                    rows'[j] \in walk.there,
                    walk.at = "over" \/ Len(rows') + 1 - j <= ReadSoFar
             PROVE  rows'[j] \in walk.seen
  BY <1>1, <1>2, <1>3 DEF Walking
<1>4. j \in 1..Len(rows) /\ rows'[j] = rows[j]
  BY <1>1 DEF Walking
<1>5. walk.at = "over" \/ Len(rows) + 1 - j <= ReadSoFar
  BY <1>1, <1>3, <1>4
<1> QED BY <1>4, <1>5 DEF Walking

\* A page is the rows that come after those read before it.
LEMMA PageWalking ==
  ASSUME TInv, Walking, ReadPage
  PROVE  Walking'
<1>1. /\ RowsFit /\ walk.page \in Nat \ {0} /\ UNCHANGED rows
      /\ rows \in Seq(Products) /\ Len(rows) \in Nat /\ DOMAIN rows = 1..Len(rows)
      /\ walk \in [at : {"none", "find", "count", "over", "off"}, page : Nat \ {0},
                   there : SUBSET Products, seen : SUBSET Products]
  BY DEF TInv, WalkFits, RowsFit, ReadPage, tables
<1>2. CASE walk.at = "none"
  <2>1. /\ walk'.at = "count" /\ walk'.page = 1 /\ walk'.there = Rows
        /\ walk'.seen = Range(Page(1))
    BY <1>2 DEF ReadPage
  <2>2. \A j \in 1..Len(rows) :
          Len(rows) + 1 - j \in (1 - 1) * Limit + 1 .. 1 * Limit
            => rows[j] \in Range(Page(1))
    BY <1>1, PageLists
  <2>3. ReadSoFar' = Limit
    BY <2>1 DEF ReadSoFar
  <2>4. \A j \in 1..Len(rows) :
          Len(rows) + 1 - j <= Limit => rows[j] \in Range(Page(1))
    BY <1>1, <2>2
  <2> QED BY <1>1, <2>1, <2>3, <2>4 DEF Walking, Rows
<1>3. CASE walk.at # "none"
  <2> DEFINE n == walk.page
  <2>1. /\ walk.at = "find" /\ walk'.at = "count" /\ walk'.page = n
        /\ walk'.there = walk.there /\ walk'.seen = walk.seen \cup Range(Page(n))
    BY <1>1, <1>3 DEF ReadPage
  <2>2. \A j \in 1..Len(rows) :
          Len(rows) + 1 - j \in (n - 1) * Limit + 1 .. n * Limit
            => rows[j] \in Range(Page(n))
    BY <1>1, PageLists
  <2>3. ReadSoFar = (n - 1) * Limit /\ ReadSoFar' = n * Limit
    BY <2>1 DEF ReadSoFar
  <2>4. ReadSoFar \in Int /\ ReadSoFar' \in Int
    BY <1>1, <2>3
  <2>5. ASSUME NEW j \in 1..Len(rows), rows[j] \in walk.there,
               Len(rows) + 1 - j <= ReadSoFar'
        PROVE  rows[j] \in walk'.seen
    <3>1. CASE Len(rows) + 1 - j <= ReadSoFar
      BY <2>1, <2>5, <3>1 DEF Walking
    <3>2. CASE ~(Len(rows) + 1 - j <= ReadSoFar)
      BY <1>1, <2>1, <2>2, <2>3, <2>4, <2>5, <3>2
    <3> QED BY <3>1, <3>2
  <2>6. walk'.there \subseteq Rows'
    BY <1>1, <2>1 DEF Walking, Rows
  <2> QED BY <1>1, <2>1, <2>5, <2>6 DEF Walking
<1> QED BY <1>2, <1>3

\* The client ends where the pages do.
LEMMA CountWalking ==
  ASSUME TInv, Walking, ReadCount
  PROVE  Walking'
<1> DEFINE n == walk.page
<1>1. /\ n \in Nat \ {0} /\ n * Limit \in Int /\ UNCHANGED rows /\ Len(rows) \in Nat
      /\ walk \in [at : {"none", "find", "count", "over", "off"}, page : Nat \ {0},
                   there : SUBSET Products, seen : SUBSET Products]
      /\ walk.at = "count" /\ ReadSoFar = n * Limit
  BY DEF TInv, WalkFits, RowsFit, ReadCount, tables, ReadSoFar
<1>2. UNCHANGED <<walk.there, walk.seen, Rows>>
  BY <1>1 DEF ReadCount, Rows
<1>3. CASE n * Limit < Len(rows)
  <2>1. walk'.at = "find" /\ walk'.page = n + 1
    BY <1>1, <1>3 DEF ReadCount
  <2>2. (n + 1) - 1 = n
    BY <1>1
  <2>3. ReadSoFar' = n * Limit
    BY <2>1, <2>2 DEF ReadSoFar
  <2> QED BY <1>1, <1>2, <2>1, <2>3 DEF Walking
<1>4. CASE ~(n * Limit < Len(rows))
  <2>1. walk'.at = "over"
    BY <1>1, <1>4 DEF ReadCount
  <2>2. \A j \in 1..Len(rows) : Len(rows) + 1 - j <= ReadSoFar
    BY <1>1, <1>4
  <2> QED BY <1>1, <1>2, <2>1, <2>2 DEF Walking
<1> QED BY <1>3, <1>4

\* Every step keeps what the client has seen.
LEMMA NextWalking == TInv /\ Walking /\ [Next]_vars => Walking'
<1> SUFFICES ASSUME TInv, Walking, [Next]_vars PROVE Walking'
  OBVIOUS
<1>1. CASE UNCHANGED <<rows, walk>>
  BY <1>1 DEF Walking, Rows, ReadSoFar
<1>2. CASE \E c \in Calls, p \in Products, f \in Pictures : AddNewProduct(c, p, f)
  BY <1>2, AddWalking DEF AddNewProduct
<1>3. CASE \E p \in Products : DeleteProduct(p)
  <2>1. walk'.at \in {"none", "off"}
    BY <1>3 DEF DeleteProduct, TInv, WalkFits
  <2> QED BY <2>1 DEF Walking
<1>4. CASE ReadPage \/ ReadCount
  BY <1>4, PageWalking, CountWalking
<1>5. CASE Crash
  BY <1>1, <1>5 DEF Crash, tables
<1>6. ASSUME ~(\E c \in Calls, p \in Products, f \in Pictures : AddNewProduct(c, p, f)),
             ~(\E p \in Products : DeleteProduct(p)), ~ReadPage, ~ReadCount, ~Crash
      PROVE  UNCHANGED <<rows, walk>>
  BY <1>6 DEF Next, vars, tables, Upload, CleanUp, EditProduct, UpdateUser, UpdateProduct,
    MoveIn, MoveOut, RequestFails, Generate, CreateVariant, CreateValues, BranchFails,
    Generates, AddOption, AddValue, DeleteValue, DeleteOption, DeleteVariant
<1> QED BY <1>1, <1>2, <1>3, <1>4, <1>5, <1>6

\* A client that has come to the end of the list has seen every product that
\* was there when it began, whatever was added meanwhile, if none was deleted.
THEOREM WalkCorrect == Spec => []WalkMissesNothing
<1>1. Init => Walking
  BY DEF Init, Walking
<1>2. TInv /\ Walking => WalkMissesNothing
  BY DEF TInv, RowsFit, Walking, WalkMissesNothing, Rows, Range
<1> QED BY <1>1, <1>2, Shape, NextWalking, PTL DEF Spec
=============================================================================
