------------------------------ MODULE ModuleTree ------------------------------
(***************************************************************************)
(* The module tree of verytb/model/core: Module<T> registers with the      *)
(* module under construction when it is declared, its T is constructed     *)
(* later, and at the end of a T's constructor the children that have not   *)
(* been constructed are, and siblings of one name get an index.            *)
(*                                                                         *)
(* The constructors of the T's, and main, are any code that declares       *)
(* modules, renames, constructs and destroys them, and constructors may    *)
(* throw.  A module that is a member belongs to the T whose constructor    *)
(* declares it, and ends with it; others (on the heap, or in main) end     *)
(* when user code says.  calls is the C++ stack: the calls of              *)
(* NamedConstruct that have not returned, each in the constructor of T or, *)
(* later, in the loop of EndInitModule.                                    *)
(*                                                                         *)
(* User code never constructs or destroys a module that is under           *)
(* construction, and memory a module stood alone in is not used again.     *)
(* module_list_ is left out: every construction appends to it, and nothing *)
(* reads it.                                                               *)
(***************************************************************************)
EXTENDS Integers, Sequences, FiniteSets

CONSTANTS
    Mods,            \* the Module<T> objects
    Names,           \* base names
    Unnamed,         \* the empty string
    WithIndex(_, _), \* a name with an index in brackets after it, a name too
    DefaultName,     \* kDefaultName of the type of each
    CanAccessCtor,   \* those whose T can be constructed without arguments
    Members,         \* those that are members of some T
    Renamed,         \* those user code chooses names for
    MaxMishaps       \* bound: constructors that throw and second constructions

kNotIndexed == -1
Nullptr     == "nullptr"

ASSUME ModuleTreeAssumption ==
    /\ IsFiniteSet(Mods) /\ Nullptr \notin Mods
    /\ Unnamed \notin Names
    /\ \A n, o \in Names \cup {Unnamed}, i, j \in 0 .. Cardinality(Mods) :
          WithIndex(n, i) = WithIndex(o, j) => n = o /\ i = j
    /\ DefaultName \in [Mods -> Names]
    /\ CanAccessCtor \subseteq Mods /\ Members \subseteq Mods
    /\ Renamed \subseteq Mods
    /\ MaxMishaps \in Nat

VARIABLES
    declared,    \* modules that exist
    gone,        \* those that stood alone and do not any more
    home,        \* the module whose T each of Members is in
    built,       \* those in which a T lives
    basename_, parent_, children_, index_, initialized_,
    build_stack_,
    calls,       \* [mod, parent, at, names]: mod is constructed; at is 0 in its
                 \* T's constructor, else the child of parent that
                 \* EndInitModule looks at; names of those looked at
    returned,    \* DefaultConstructIfPossible of that child has returned
    complained,  \* SPDLOG_CRITICAL has been called
    throws, unwound,  \* constructors that threw, NamedConstructs this ended
    rebuilds,    \* T's constructed over a living one
    broken,      \* what user code did that the tree does not provide for
    faults       \* undefined behaviour met; nothing is said of what follows

lifeVars == <<declared, gone, home, built>>
treeVars == <<parent_, children_, build_stack_>>
nameVars == <<basename_, index_, initialized_>>
history  == <<complained, throws, unwound, rebuilds, broken, faults>>
vars == <<lifeVars, treeVars, nameVars, calls, returned, history>>

Init ==
    /\ declared = {} /\ gone = {} /\ built = {}
    /\ home = [m \in Mods |-> Nullptr]
    /\ basename_ = [m \in Mods |-> Unnamed]
    /\ parent_ = [m \in Mods |-> Nullptr]
    /\ children_ = [m \in Mods |-> << >>]
    /\ index_ = [m \in Mods |-> kNotIndexed]
    /\ initialized_ = [m \in Mods |-> FALSE]
    /\ build_stack_ = << >>
    /\ calls = << >> /\ returned = FALSE /\ complained = FALSE
    /\ throws = 0 /\ unwound = 0 /\ rebuilds = 0 /\ broken = {} /\ faults = {}

Last(s)  == s[Len(s)]
Front(s) == SubSeq(s, 1, Len(s) - 1)

Caller == Last(calls)
Callers == {calls[i].mod : i \in 1 .. Len(calls)}

MayGoWrong == throws + rebuilds < MaxMishaps

(* main or a constructor of a T is running. *)
InUserCode == calls # << >> => Caller.at = 0

(* m, what up gives for it, and so on. *)
Chain(up, m) ==
    LET c[n \in 0 .. Cardinality(Mods)] ==
            IF n = 0 THEN m ELSE IF c[n - 1] = Nullptr THEN Nullptr ELSE up[c[n - 1]]
    IN {c[n] : n \in DOMAIN c}

(* Members of m's T, of theirs, and so on. *)
Inside(m) == {x \in declared \ {m} : m \in Chain(home, x)}

(* HierarchicalName finds its way up. *)
HasHierarchicalName(m) ==
    LET up == Chain(parent_, m) IN up \subseteq declared \cup {Nullptr} /\ Nullptr \in up

-----------------------------------------------------------------------------
(* Module(): AppendChild.  A T has the members it had when constructed       *)
(* before, at their old addresses.                                           *)
Adoptable == build_stack_ # << >> =>
                 /\ Last(build_stack_) \in declared
                 /\ ~ \E i \in 1 .. Len(calls) :
                        calls[i].at > 0 /\ calls[i].parent = Last(build_stack_)

MayDeclare(m) ==
    /\ InUserCode /\ m \notin declared \cup gone
    /\ m \in Members =>
           /\ calls # << >>
           /\ \/ home[m] = Caller.mod
              \/ home[m] = Nullptr /\ ~initialized_[Caller.mod]

Declare(m) ==
    /\ MayDeclare(m) /\ Adoptable
    /\ declared' = declared \cup {m}
    /\ home' = IF m \in Members THEN [home EXCEPT ![m] = Caller.mod] ELSE home
    /\ basename_' = [basename_ EXCEPT ![m] = Unnamed]
    /\ index_' = [index_ EXCEPT ![m] = kNotIndexed]
    /\ initialized_' = [initialized_ EXCEPT ![m] = FALSE]
    /\ IF build_stack_ = << >>
       THEN /\ parent_' = [parent_ EXCEPT ![m] = Nullptr]
            /\ children_' = [children_ EXCEPT ![m] = << >>]
       ELSE /\ parent_' = [parent_ EXCEPT ![m] = Last(build_stack_)]
            /\ children_' = [children_ EXCEPT ![m] = << >>,
                                              ![Last(build_stack_)] = Append(@, m)]
    /\ UNCHANGED <<gone, built, build_stack_, calls, returned, history>>

(* BaseName(basename), reported and carried out when it is too late. *)
BaseName(m, basename) ==
    /\ InUserCode /\ m \in declared \cap Renamed
    /\ initialized_[m] => HasHierarchicalName(m)
    /\ complained' = (complained \/ initialized_[m])
    /\ basename_' = [basename_ EXCEPT ![m] = basename]
    /\ UNCHANGED <<lifeVars, treeVars, index_, initialized_, calls, returned,
                   throws, unwound, rebuilds, broken, faults>>

AlreadyConstructed(m) == initialized_[m]

(* BeginInitModule, and the call of T's constructor.  A T that lives in m is *)
(* built over: its members are gone without a destructor.                    *)
BeginInitModule(m, basename) ==
    /\ AlreadyConstructed(m) => HasHierarchicalName(m)
    /\ complained' = (complained \/ AlreadyConstructed(m))
    /\ basename_' = [basename_ EXCEPT ![m] = IF @ = Unnamed THEN basename ELSE @]
    /\ build_stack_' = Append(build_stack_, m)
    /\ calls' = Append(calls, [mod |-> m, parent |-> Nullptr, at |-> 0, names |-> << >>])
    /\ rebuilds' = IF m \in built THEN rebuilds + 1 ELSE rebuilds
    /\ declared' = declared \ Inside(m)
    /\ built' = built \ ({m} \cup Inside(m))
    /\ UNCHANGED <<gone, home, parent_, children_, index_, initialized_, returned,
                   throws, unwound, broken, faults>>

(* By user code; Construct passes the default name. *)
NamedConstruct(m, basename) ==
    /\ InUserCode /\ m \in declared
    /\ m \in Renamed \/ basename = DefaultName[m]
    /\ ({m} \cup Inside(m)) \cap Callers = {}
    /\ m \in built => MayGoWrong
    /\ BeginInitModule(m, basename)

(* T's constructor returns, and EndInitModule begins. *)
EndConstructor ==
    /\ calls # << >> /\ Caller.at = 0
    /\ Last(build_stack_) \in declared
    /\ \A x \in Mods : home[x] = Caller.mod => x \in declared
    /\ built' = built \cup {Caller.mod}
    /\ initialized_' = [initialized_ EXCEPT ![Last(build_stack_)] = TRUE]
    /\ calls' = Append(Front(calls),
                       [Caller EXCEPT !.parent = Last(build_stack_), !.at = 1])
    /\ UNCHANGED <<declared, gone, home, treeVars, basename_, index_, returned,
                   history>>

(* T's constructor throws: its members are destroyed, built or not, and the  *)
(* exception leaves every NamedConstruct down to the next user code, none of *)
(* which reaches the end of EndInitModule.                                   *)
Throw ==
    /\ calls # << >> /\ Caller.at = 0 /\ MayGoWrong
    /\ LET handler == CHOOSE i \in 0 .. Len(calls) - 1 :
                          /\ i > 0 => calls[i].at = 0
                          /\ \A j \in i + 1 .. Len(calls) - 1 : calls[j].at > 0
       IN /\ calls' = SubSeq(calls, 1, handler)
          /\ unwound' = unwound + Len(calls) - handler
    /\ throws' = throws + 1
    /\ faults' = IF Inside(Caller.mod) \subseteq built THEN {} ELSE {"garbage"}
    /\ declared' = declared \ Inside(Caller.mod)
    /\ built' = built \ Inside(Caller.mod)
    /\ UNCHANGED <<gone, home, treeVars, nameVars, returned, complained, rebuilds,
                   broken>>

(* What a program has to do for its modules, besides not throwing and not    *)
(* constructing twice: construct those outside a tree, and let the children  *)
(* live until their parent's construction ends, and no longer than it.       *)
Breaks(m) ==
    LET ends == {m} \cup Inside(m)
    IN {rule \in {"unbuilt", "early", "outlived"} :
            \/ rule = "unbuilt" /\ parent_[m] = Nullptr /\ m \notin built
            \/ rule = "early" /\ parent_[m] \in Callers
            \/ rule = "outlived" /\ \E x \in declared \ ends : parent_[x] \in ends}

(* ~Module of a module that stands alone: its T is destroyed, built or not,  *)
(* with its members.  Only impl_ goes with it, no pointer to it.             *)
Destroy(m) ==
    /\ InUserCode /\ m \in declared \ Members
    /\ ({m} \cup Inside(m)) \cap Callers = {}
    /\ faults' = IF {m} \cup Inside(m) \subseteq built THEN {} ELSE {"garbage"}
    /\ declared' = declared \ ({m} \cup Inside(m))
    /\ built' = built \ ({m} \cup Inside(m))
    /\ gone' = gone \cup {m}
    /\ broken' = broken \cup Breaks(m)
    /\ UNCHANGED <<home, treeVars, nameVars, calls, returned, complained, throws,
                   unwound, rebuilds>>

-----------------------------------------------------------------------------
(* The loop of EndInitModule over the children of Caller.parent. *)
InLoop   == /\ calls # << >> /\ Caller.at > 0 /\ Caller.parent \in declared
            /\ Caller.at <= Len(children_[Caller.parent])
Child    == children_[Caller.parent][Caller.at]
HasChild == InLoop /\ Child \in declared

(* Children that have been given a name taken for constructed. *)
BugNamedIsBuilt(child) == ~initialized_[child] /\ basename_[child] = Unnamed

ToConstruct(child) == ~initialized_[child]

(* Asked once: a child is counted when it has been, whatever came of it.     *)
Pending == HasChild /\ ~returned /\ ToConstruct(Child)

(* The name of the type counted, whatever the child has been named. *)
BugCountsType(child) == DefaultName[child]

Counted(child) == basename_[child]

NextChild ==
    /\ calls' = Append(Front(calls),
                       [Caller EXCEPT !.at = @ + 1, !.names = Append(@, Counted(Child))])
    /\ returned' = FALSE

DefaultConstruct ==
    /\ Pending /\ Child \in CanAccessCtor
    /\ BeginInitModule(Child, DefaultName[Child])

CannotConstruct ==
    /\ Pending /\ Child \notin CanAccessCtor
    /\ HasHierarchicalName(Child)
    /\ complained' = TRUE
    /\ NextChild
    /\ UNCHANGED <<lifeVars, treeVars, nameVars, throws, unwound, rebuilds, broken, faults>>

Constructed ==
    /\ HasChild /\ (returned \/ ~ToConstruct(Child))
    /\ NextChild
    /\ UNCHANGED <<lifeVars, treeVars, nameVars, history>>

IndexAmong(names, i) == Cardinality({j \in 1 .. i - 1 : names[j] = names[i]})

(* The places of those that share their name. *)
Sharing(names) == {i \in 1 .. Len(names) : \E j \in 1 .. Len(names) :
                                               i # j /\ names[i] = names[j]}

(* A module that is there twice keeps the last. *)
Indices(children, names) ==
    [m \in Mods |->
        LET at == {i \in Sharing(names) : children[i] = m}
        IN IF at = {} THEN index_[m]
           ELSE IndexAmong(names, CHOOSE i \in at : \A j \in at : j <= i)]

(* The ended module left on the stack. *)
BugNoPop(stack) == stack

Popped(stack) == Front(stack)

AtEnd == /\ calls # << >> /\ Caller.at > 0 /\ Caller.parent \in declared
         /\ Caller.at = Len(children_[Caller.parent]) + 1

(* Those whose index is assigned. *)
Indexed == {children_[Caller.parent][i] : i \in Sharing(Caller.names)}

(* The indices are given, the stack popped, and NamedConstruct returns, to   *)
(* user code or to the loop that called DefaultConstructIfPossible.          *)
EndInitModule ==
    /\ AtEnd /\ Indexed \subseteq declared
    /\ index_' = Indices(children_[Caller.parent], Caller.names)
    /\ build_stack_' = Popped(build_stack_)
    /\ calls' = Front(calls)
    /\ returned' = (calls' # << >> /\ Last(calls').at > 0)
    /\ UNCHANGED <<lifeVars, parent_, children_, basename_, initialized_,
                   history>>

(* A step would touch a module that does not exist: the innermost one under  *)
(* construction, one up from a module whose name is asked for, the one       *)
(* EndInitModule works on or one of its children; or lengthen the list it    *)
(* goes through.                                                             *)
TouchGone ==
    /\ \/ ~Adoptable /\ \E m \in Mods : MayDeclare(m)
       \/ InUserCode /\ \E m \in declared : ~HasHierarchicalName(m)
       \/ calls # << >> /\ Caller.at = 0 /\ Last(build_stack_) \notin declared
       \/ calls # << >> /\ Caller.at > 0 /\ Caller.parent \notin declared
       \/ InLoop /\ Child \notin declared
       \/ Pending /\ Child \notin CanAccessCtor /\ ~HasHierarchicalName(Child)
       \/ AtEnd /\ ~ Indexed \subseteq declared
    /\ faults' = {"dangling"}
    /\ UNCHANGED <<lifeVars, treeVars, nameVars, calls, returned, complained, throws,
                   unwound, rebuilds, broken>>

Next ==
    /\ faults = {}
    /\ \/ \E m \in Mods : \/ Declare(m)
                          \/ \E n \in Names : BaseName(m, n) \/ NamedConstruct(m, n)
                          \/ Destroy(m)
       \/ EndConstructor \/ Throw
       \/ DefaultConstruct \/ CannotConstruct \/ Constructed \/ EndInitModule
       \/ TouchGone

Spec == Init /\ [][Next]_vars

-----------------------------------------------------------------------------
(* NamedConstruct of m has returned. *)
Ended(m) == initialized_[m] /\ m \notin Callers

Name(m) == IF index_[m] = kNotIndexed THEN basename_[m]
           ELSE WithIndex(basename_[m], index_[m])

(* No constructor has thrown, nothing has been reported and no child was     *)
(* destroyed during its parent's construction.                               *)
WellBehaved == throws = 0 /\ ~complained /\ broken = {} /\ faults = {}

(* The name of an indexed module, with this base name, as another's whole.   *)
Imitates(name, basename) ==
    \E k \in 0 .. Cardinality(Mods) : name = WithIndex(basename, k)

(* Unless the code has complained, children of a module whose construction   *)
(* has ended that share a base name have different names: an index is only   *)
(* there to tell these apart, and they count from 0 in the order they were   *)
(* declared in (Module.test.cpp:67-73).  Two children have one name, and     *)
(* HierarchicalName tells them apart no more, only if user code itself has   *)
(* named one as another and an index, which the code does not look for.      *)
SiblingNames ==
    WellBehaved =>
        \A p \in declared : Ended(p) =>
            \A i, j \in 1 .. Len(children_[p]) :
                LET c == children_[p][i]
                    d == children_[p][j]
                IN /\ i # j /\ Name(c) = Name(d) =>
                          Imitates(basename_[c], basename_[d])
                              \/ Imitates(basename_[d], basename_[c])
                   /\ i < j /\ basename_[c] = basename_[d]
                          => /\ index_[c] \in 0 .. index_[d] - 1
                             /\ \A k \in 0 .. index_[d] :
                                   \E e \in Mods :
                                       /\ parent_[e] = p /\ index_[e] = k
                                       /\ basename_[e] = basename_[c]
                   /\ index_[c] # kNotIndexed =>
                          \E e \in Mods \ {c} : /\ parent_[e] = p
                                                /\ basename_[e] = basename_[c]

(* Unless the code has complained or a constructor thrown, no part of a tree *)
(* whose construction has ended is left unconstructed: explicitly, by        *)
(* default, at any depth.                                                    *)
AllConstructed ==
    throws = 0 /\ ~complained =>
        \A m \in declared : parent_[m] # Nullptr /\ Ended(parent_[m])
                               => m \in built /\ Ended(m)

(* As long as no constructor throws, a module is declared a child only of    *)
(* the innermost module under construction, and the children of a module     *)
(* whose construction has ended change only when it is constructed again     *)
(* (Module.cpp:33-40).                                                       *)
NoLateAdoption ==
    [][throws = 0 =>
           \A m \in declared : children_'[m] # children_[m] =>
               calls # << >> /\ Caller.mod = m /\ (initialized_[m] => complained)]_vars

(* A module under construction is on the build stack until its construction  *)
(* ends, those begun later above it, also when constructors have thrown:     *)
(* these leave one entry each for every NamedConstruct they end, for good,   *)
(* between the others and above them.  As long as none has, the stack is the *)
(* calls, so that EndInitModule works on its own module and pops it; after   *)
(* that it may take a leftover for it (Module.h:96-100, Module.cpp:58).      *)
StackIsCalls ==
    /\ Len(build_stack_) = Len(calls) + unwound
    /\ \E place \in [1 .. Len(calls) -> 1 .. Len(build_stack_)] :
          /\ \A i \in 1 .. Len(calls) : build_stack_[place[i]] = calls[i].mod
          /\ \A i, j \in 1 .. Len(calls) : i < j => place[i] < place[j]
    /\ throws = 0 => build_stack_ = [i \in 1 .. Len(calls) |-> calls[i].mod]

(* As long as no constructor throws, a T is constructed over a living one    *)
(* only with a message (Module.cpp:42-46); and a program that constructs its *)
(* roots, constructs nothing twice, and lets children live until their       *)
(* parent's construction ends and no longer than it, never has the code      *)
(* touch a module that is gone, nor, if every child can be constructed,      *)
(* destroy a T that was not constructed (Module.h:111-114).                  *)
RulesSuffice ==
    throws = 0 =>
        /\ rebuilds > 0 => complained
        /\ rebuilds = 0 /\ broken = {} =>
               /\ "dangling" \notin faults
               /\ "garbage" \in faults => complained
=============================================================================
