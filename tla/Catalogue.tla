----------------------------- MODULE Catalogue -----------------------------
(***************************************************************************)
(* Products: their rows and pictures, the variants generated from their    *)
(* options, and the pages a client reads them in.  From ProductService,    *)
(* VariantOptionService, VariantValueService, ProductVariantService and    *)
(* the profile picture of UserService, which moves through the same        *)
(* directories.                                                            *)
(*                                                                         *)
(* A request is a call that runs one query or one rename between two       *)
(* awaits; the rows of a generation are written by branches that run at    *)
(* once (Promise.all).  A picture is uploaded to temp, moved to image by   *)
(* the request that names it, and back to temp by the edit that replaces   *)
(* it, where the clean-up removes it.  A user that Google or Facebook sent *)
(* has a link for a picture, which is in neither directory.                *)
(***************************************************************************)
EXTENDS Integers, Sequences, SequencesExt

CONSTANTS
  Products, Users,  \* those a picture belongs to
  Pictures,         \* what a row may name: uploads...
  Links,            \* ... and links to pictures elsewhere
  Options, Values,  \* rows of VariantOption and VariantValue
  OptionOf(_),      \* the option a value is made for
  Variants,         \* rows of ProductVariant
  Calls,            \* requests in progress at once
  None,             \* no product, no picture
  Limit,            \* the size of a page
  Budgets           \* bound: how often each kind of request is made

ASSUME NoneAssumption == None \notin Products \cup Users \cup Pictures
ASSUME LinksAssumption == Links \subseteq Pictures
ASSUME LimitAssumption == Limit \in Nat \ {0}
ASSUME OptionAssumption == \A x \in Values : OptionOf(x) \in Options

VARIABLES
  (* the tables and the directories *)
  rows,      \* the products in the order of their creation
  picture,   \* the picture a row names
  place,     \* where an upload is
  productOf, \* the product of an option; None: there is no such option
  values,    \* the values there are
  variantOf, \* the product of a variant; None: there is no such variant
  links,     \* the values of a variant
  (* the requests *)
  call,      \* the step a call has come to, its owner and its pictures
  plan,      \* combinations a generation has still to make a variant for
  made,      \* variants it made that have no values yet
  walk,      \* a client reading the list page by page
  left,      \* the requests that may still be made
  (* observers, read by properties only *)
  tidy,      \* owners whose requests came one by one and left their picture
  plain,     \* products whose generations all saw the same options
  runs       \* the generations of a product

tables == <<rows, picture, place>>
variety == <<productOf, values, variantOf, links>>
generation == <<plan, made>>
vars == <<tables, variety, call, generation, walk, left, tidy, plain, runs>>

Owners == Products \cup Users
Idle == [at |-> "idle", of |-> None, new |-> None, old |-> None]
Rows == Range(rows)
Busy(o) == \E c \in Calls : call[c].of = o
Spend(kind) == left[kind] > 0 /\ left' = [left EXCEPT ![kind] = @ - 1]
Goto(c, s) == call' = [call EXCEPT ![c].at = s]
Ends(c) == call' = [call EXCEPT ![c] = Idle]

\* Owners other than o that name a picture, in their row or in a request.
Sharing(o, f) ==
  {q \in Owners \ {o} : \/ picture[q] = f
                        \/ \E c \in Calls : /\ call[c].of = q
                                            /\ f \in {call[c].new, call[c].old}}
Begins(o, f) ==
  tidy' = tidy \ ((IF Busy(o) \/ Sharing(o, f) # {} THEN {o} ELSE {})
                    \cup Sharing(o, f))

\* A row names an upload that is not where it should be, and never was.
Unmoved(c) ==
  call[c].at = "move" /\ call[c].new \notin Links /\ place[call[c].new] # "image"

\* googleLogin and facebookLogin create users with the picture they were told.
Init ==
  /\ rows = <<>>
  /\ picture \in {[o \in Owners |-> IF o \in Users THEN told[o] ELSE None] :
                    told \in [Users -> Links \cup {None}]}
  /\ place = [f \in Pictures |-> "none"]
  /\ productOf = [o \in Options |-> None] /\ values = {}
  /\ variantOf = [v \in Variants |-> None] /\ links = [v \in Variants |-> {}]
  /\ call = [c \in Calls |-> Idle]
  /\ plan = [c \in Calls |-> {}] /\ made = [c \in Calls |-> {}]
  /\ walk = [at |-> "none", page |-> 1, there |-> {}, seen |-> {}]
  /\ left \in Budgets
  /\ tidy = {o \in Owners : picture[o] # None => Sharing(o, picture[o]) = {}}
  /\ plain = Products /\ runs = [p \in Products |-> 0]

-----------------------------------------------------------------------------
(* Pictures                                                                *)

\* imageMulterConfig stores an upload under a new name.
Upload(f) ==
  /\ f \notin Links /\ place[f] = "none" /\ Spend("upload")
  /\ \A o \in Owners : picture[o] # f
  /\ \A c \in Calls : f \notin {call[c].new, call[c].old}
  /\ place' = [place EXCEPT ![f] = "temp"]
  /\ UNCHANGED <<rows, picture, variety, call, generation, walk, tidy, plain,
                 runs>>

\* The clean-up removes any file that has been in temp for five minutes; an
\* old picture counts from its upload.
CleanUp(f) ==
  /\ place[f] = "temp"
  /\ place' = [place EXCEPT ![f] = "none"]
  /\ UNCHANGED <<rows, picture, variety, call, generation, walk, left, tidy,
                 plain, runs>>

\* addNewProduct creates the row, then moves the picture it names.  The row of
\* a deleted product is a new one only when no request knows the old.
AddNewProduct(c, p, f) ==
  /\ call[c] = Idle /\ p \notin Rows /\ ~Busy(p)
  /\ Spend("add")
  /\ rows' = Append(rows, p)
  /\ picture' = [picture EXCEPT ![p] = f]
  /\ call' = [call EXCEPT ![c] = [Idle EXCEPT !.at = "move", !.of = p, !.new = f]]
  /\ Begins(p, f)
  /\ UNCHANGED <<place, variety, generation, walk, plain, runs>>

\* editProduct reads the row...
EditProduct(c, p, f) ==
  /\ call[c] = Idle /\ p \in Rows
  /\ Spend("edit")
  /\ call' = [call EXCEPT ![c] = [at |-> "update", of |-> p, new |-> f,
                                  old |-> picture[p]]]
  /\ Begins(p, f)
  /\ UNCHANGED <<tables, variety, generation, walk, plain, runs>>

IsNew(c) == call[c].old # call[c].new

\* ... and writes it, which fails without the row.
UpdateProduct(c) ==
  /\ call[c].at = "update" /\ call[c].of \in Rows
  /\ picture' = [picture EXCEPT ![call[c].of] = call[c].new]
  /\ IF IsNew(c) THEN Goto(c, "move") ELSE Ends(c)
  /\ UNCHANGED <<rows, place, variety, generation, walk, left, tidy, plain,
                 runs>>

\* updateUser writes the row, and moves the picture the row then has, also
\* when the request names none or the one it had.
UpdateUser(c, u, f) ==
  /\ call[c] = Idle /\ Spend("user")
  /\ LET g == IF f = None THEN picture[u] ELSE f IN
     /\ picture' = [picture EXCEPT ![u] = g]
     /\ IF g = None THEN UNCHANGED <<call, tidy>>
        ELSE /\ call' = [call EXCEPT ![c] = [Idle EXCEPT !.at = "move",
                                                         !.of = u, !.new = g]]
             /\ Begins(u, g)
  /\ UNCHANGED <<rows, place, variety, generation, walk, plain, runs>>

\* moveFile from temp to image, which fails unless the picture is there, and
\* so for a link.
MoveIn(c) ==
  /\ call[c].at = "move" /\ place[call[c].new] = "temp"
  /\ place' = [place EXCEPT ![call[c].new] = "image"]
  /\ IF call[c].old = None THEN Ends(c) ELSE Goto(c, "out")
  /\ UNCHANGED <<rows, picture, variety, generation, walk, left, tidy, plain,
                 runs>>

\* The edit moves the replaced picture out.
NewInstead(c) == call[c].new \* Mutant: the wrong one of the two.
Replaced(c) == call[c].old
MoveOut(c) ==
  /\ call[c].at = "out" /\ place[Replaced(c)] = "image"
  /\ place' = [place EXCEPT ![Replaced(c)] = "temp"]
  /\ Ends(c)
  /\ UNCHANGED <<rows, picture, variety, generation, walk, left, tidy, plain,
                 runs>>

\* A step throws; what the request did before stays.
RequestFails(c) ==
  /\ call[c].at \in {"update", "move", "out"}
  /\ tidy' = IF Unmoved(c) THEN tidy \ {call[c].of} ELSE tidy
  /\ Ends(c)
  /\ UNCHANGED <<tables, variety, generation, walk, left, plain, runs>>

-----------------------------------------------------------------------------
(* Variants                                                                *)

OptionsOf(p) == {o \in Options : productOf[o] = p}
ValuesOf(o) == {x \in values : OptionOf(x) = o}
InUse(x) == \E c \in Calls : \E s \in plan[c] \cup {m[2] : m \in made[c]} : x \in s
Generated(p) == runs[p] > 0
Disturbs(p) == plain' = IF Generated(p) THEN plain \ {p} ELSE plain

AddOption(o, p) ==
  /\ productOf[o] = None /\ p \in Rows /\ Spend("option")
  /\ productOf' = [productOf EXCEPT ![o] = p]
  /\ Disturbs(p)
  /\ UNCHANGED <<tables, values, variantOf, links, call, generation, walk,
                 tidy, runs>>

AddValue(x) ==
  /\ x \notin values /\ ~InUse(x) /\ productOf[OptionOf(x)] # None
  /\ Spend("value")
  /\ values' = values \cup {x}
  /\ Disturbs(productOf[OptionOf(x)])
  /\ UNCHANGED <<tables, productOf, variantOf, links, call, generation, walk,
                 tidy, runs>>

\* What the tables keep when values X go: foreign keys cascade.
Unlinked(X) == [v \in Variants |-> links[v] \ X]

DeleteValue(x) ==
  /\ x \in values /\ Spend("drop")
  /\ values' = values \ {x} /\ links' = Unlinked({x})
  /\ Disturbs(productOf[OptionOf(x)])
  /\ UNCHANGED <<tables, productOf, variantOf, call, generation, walk, tidy,
                 runs>>

\* Its values go with it.
DeleteOption(o) ==
  /\ productOf[o] # None /\ Spend("drop")
  /\ productOf' = [productOf EXCEPT ![o] = None]
  /\ values' = values \ ValuesOf(o) /\ links' = Unlinked(ValuesOf(o))
  /\ Disturbs(productOf[o])
  /\ UNCHANGED <<tables, variantOf, call, generation, walk, tidy, runs>>

DeleteVariant(v) ==
  /\ variantOf[v] # None /\ Spend("drop")
  /\ variantOf' = [variantOf EXCEPT ![v] = None]
  /\ links' = [links EXCEPT ![v] = {}]
  /\ plain' = plain \ {variantOf[v]}
  /\ UNCHANGED <<tables, productOf, values, call, generation, walk, tidy,
                 runs>>

\* cartesian: one value of every option; nothing for an option without any.
SomeOfEach(p) == \* Mutant: any values.
  {s \in SUBSET UNION {ValuesOf(o) : o \in OptionsOf(p)} : s # {}}
Combinations(p) ==
  {{pick[o] : o \in OptionsOf(p)} :
     pick \in {g \in [OptionsOf(p) -> values] :
                 \A o \in OptionsOf(p) : g[o] \in ValuesOf(o)}}

\* generateProductVariant reads the options and their values.
Generate(c, p) ==
  /\ call[c] = Idle /\ OptionsOf(p) # {} /\ Spend("generate")
  /\ plan' = [plan EXCEPT ![c] = Combinations(p)]
  /\ call' = [call EXCEPT ![c] = [Idle EXCEPT !.at = "generate", !.of = p]]
  /\ runs' = [runs EXCEPT ![p] = @ + 1]
  /\ UNCHANGED <<tables, variety, made, walk, tidy, plain>>

\* Each branch creates a variant without values...
CreateVariant(c, s) ==
  /\ s \in plan[c] /\ call[c].of \in Rows
  /\ \E v \in Variants :
       /\ variantOf[v] = None
       /\ \A d \in Calls : \A m \in made[d] : m[1] # v
       /\ variantOf' = [variantOf EXCEPT ![v] = call[c].of]
       /\ made' = [made EXCEPT ![c] = @ \cup {<<v, s>>}]
  /\ plan' = [plan EXCEPT ![c] = @ \ {s}]
  /\ UNCHANGED <<tables, productOf, values, links, call, walk, left, tidy,
                 plain, runs>>

\* ... and then gives it its values, all or, if one is gone, none.
FirstOnly(m) == [links EXCEPT ![m[1]] = {CHOOSE x \in m[2] : TRUE}] \* Mutant: one.
Linked(m) == [links EXCEPT ![m[1]] = m[2]]
CreateValues(c, m) ==
  /\ m \in made[c] /\ variantOf[m[1]] # None /\ m[2] \subseteq values
  /\ links' = Linked(m)
  /\ made' = [made EXCEPT ![c] = @ \ {m}]
  /\ UNCHANGED <<tables, productOf, values, variantOf, call, plan, walk, left,
                 tidy, plain, runs>>

\* A branch throws: the request fails, the other branches go on.
BranchFails(c) ==
  /\ \/ \E s \in plan[c] : plan' = [plan EXCEPT ![c] = @ \ {s}] /\ UNCHANGED made
     \/ \E m \in made[c] : made' = [made EXCEPT ![c] = @ \ {m}] /\ UNCHANGED plan
  /\ plain' = plain \ {call[c].of}
  /\ UNCHANGED <<tables, variety, call, walk, left, tidy, runs>>

Generates(c) ==
  /\ call[c].at = "generate" /\ plan[c] = {} /\ made[c] = {}
  /\ Ends(c)
  /\ UNCHANGED <<tables, variety, generation, walk, left, tidy, plain, runs>>

\* deleteProduct: options, values and variants go too, the picture stays.
DeleteProduct(p) ==
  /\ \E i \in DOMAIN rows : rows[i] = p /\ rows' = RemoveAt(rows, i)
  /\ Spend("delete")
  /\ picture' = [picture EXCEPT ![p] = None]
  /\ productOf' = [o \in Options |-> IF productOf[o] = p THEN None ELSE productOf[o]]
  /\ values' = {x \in values : productOf[OptionOf(x)] # p}
  /\ variantOf' = [v \in Variants |-> IF variantOf[v] = p THEN None ELSE variantOf[v]]
  /\ links' = [v \in Variants |-> IF variantOf[v] = p THEN {} ELSE links[v]]
  /\ tidy' = tidy \ {p} /\ plain' = plain \ {p}
  /\ walk' = [walk EXCEPT !.there = @ \ {p}, !.at = IF @ = "none" THEN @ ELSE "off"]
  /\ UNCHANGED <<place, call, generation, runs>>

\* The process ends: pictures that were about to be moved stay where they are.
Crash ==
  /\ \E c \in Calls : call[c] # Idle
  /\ tidy' = tidy \ {call[c].of : c \in {d \in Calls : Unmoved(d)}}
  /\ plain' = plain \ {call[c].of : c \in {d \in Calls :
                         plan[d] # {} \/ made[d] # {}}}
  /\ call' = [c \in Calls |-> Idle]
  /\ plan' = [c \in Calls |-> {}] /\ made' = [c \in Calls |-> {}]
  /\ UNCHANGED <<tables, variety, walk, left, runs>>

-----------------------------------------------------------------------------
(* Lists                                                                   *)

\* The newest first, Limit rows a page.
SkippedTooMany(page) == page * Limit \* Mutant: pages counted from 0.
Skipped(page) == (page - 1) * Limit
Page(page) ==
  LET newest == Reverse(rows) IN
  SubSeq(newest, Skipped(page) + 1,
         IF Skipped(page) + Limit < Len(rows) THEN Skipped(page) + Limit
         ELSE Len(rows))

\* getProduct finds the rows of a page...
ReadPage ==
  /\ \/ /\ walk.at = "none" /\ Spend("walk")
        /\ walk' = [at |-> "count", page |-> 1, there |-> Rows,
                    seen |-> Range(Page(1))]
     \/ /\ walk.at = "find"
        /\ walk' = [walk EXCEPT !.at = "count", !.seen = @ \cup Range(Page(walk.page))]
        /\ UNCHANGED left
  /\ UNCHANGED <<tables, variety, call, generation, tidy, plain, runs>>

\* ... then counts them all, and the client goes on while there are pages:
\* totalPages is the quotient, not rounded.
ReadCount ==
  /\ walk.at = "count"
  /\ walk' = IF walk.page * Limit < Len(rows)
             THEN [walk EXCEPT !.at = "find", !.page = @ + 1]
             ELSE [walk EXCEPT !.at = "over"]
  /\ UNCHANGED <<tables, variety, call, generation, left, tidy, plain, runs>>

-----------------------------------------------------------------------------
Next ==
  \/ \E f \in Pictures : Upload(f) \/ CleanUp(f)
  \/ \E c \in Calls :
       \/ \E p \in Products, f \in Pictures \ Links :
            AddNewProduct(c, p, f) \/ EditProduct(c, p, f)
       \/ \E u \in Users, f \in Pictures \cup {None} : UpdateUser(c, u, f)
       \/ UpdateProduct(c) \/ MoveIn(c) \/ MoveOut(c) \/ RequestFails(c)
       \/ \E p \in Products : Generate(c, p)
       \/ \E s \in plan[c] : CreateVariant(c, s)
       \/ \E m \in made[c] : CreateValues(c, m)
       \/ BranchFails(c) \/ Generates(c)
  \/ \E p \in Products : DeleteProduct(p) \/ \E o \in Options : AddOption(o, p)
  \/ \E x \in Values : AddValue(x) \/ DeleteValue(x)
  \/ \E o \in Options : DeleteOption(o)
  \/ \E v \in Variants : DeleteVariant(v)
  \/ Crash \/ ReadPage \/ ReadCount

Spec == Init /\ [][Next]_vars

-----------------------------------------------------------------------------
\* Every variable holds a value of its kind, and no product is listed twice.
TypeOK ==
  /\ rows \in Seq(Products) /\ IsInjective(rows)
  /\ picture \in [Owners -> Pictures \cup {None}]
  /\ place \in [Pictures -> {"none", "temp", "image"}]
  /\ productOf \in [Options -> Products \cup {None}]
  /\ values \subseteq Values
  /\ \A x \in values : productOf[OptionOf(x)] # None
  /\ variantOf \in [Variants -> Products \cup {None}]
  /\ links \in [Variants -> SUBSET Values]
  /\ \A c \in Calls :
       /\ call[c].at \in {"idle", "update", "move", "out", "generate"}
       /\ call[c].of \in Owners \cup {None}
       /\ {call[c].new, call[c].old} \subseteq Pictures \cup {None}
       /\ plan[c] \subseteq SUBSET Values
       /\ made[c] \subseteq Variants \X SUBSET Values
  /\ walk.at \in {"none", "find", "count", "over", "off"}
  /\ walk.there \cup walk.seen \subseteq Products
  /\ tidy \subseteq Owners /\ plain \subseteq Products

\* Whatever is uploaded, cleaned up and edited around it, the picture of an
\* owner whose requests come one by one, and get as far as moving it, is in
\* the directory its row says; also when he had a link before.
TidyOwnerHasPicture ==
  \A o \in tidy :
    picture[o] \notin Links \cup {None} /\ ~Busy(o) => place[picture[o]] = "image"

\* A variant never has two values of one option, nor a value its product has
\* no more, whatever is deleted while it is being generated.
VariantIsAChoice ==
  \A v \in Variants : \A x, y \in links[v] :
    /\ x \in values /\ productOf[OptionOf(x)] = variantOf[v]
    /\ OptionOf(x) = OptionOf(y) => x = y

\* Generating is not idempotent, but it is even: while the options of a
\* product stay as they are, and nothing fails, every combination has as many
\* variants as there were generations, and there are no others.
EveryCombinationAsOften ==
  \A p \in plain :
    Generated(p) /\ ~Busy(p) =>
      /\ \A v \in Variants : variantOf[v] = p => links[v] \in Combinations(p)
      /\ \A s \in Combinations(p) :
           Cardinality({v \in Variants : variantOf[v] = p /\ links[v] = s}) = runs[p]

\* A client that reads the list page by page until the last total says there
\* is no more has seen every product that was there when it began, whatever
\* was created meanwhile, unless one was deleted.
WalkMissesNothing == walk.at = "over" => walk.there \subseteq walk.seen
=============================================================================
