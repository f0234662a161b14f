---------------------------- MODULE ClassDispatch ----------------------------
(***************************************************************************)
(* Which class dispatchers are active in each execution context, and which  *)
(* chain parameters are selected: bitcointx/util.py                         *)
(* (activate_class_dispatcher, the method wrapper that                      *)
(* ClassMappingDispatcher.__init__ installs, ContextVarsCompat) and         *)
(* bitcointx/__init__.py (select_chain_params, ChainParams).                *)
(*                                                                          *)
(* A context is what a ContextVar is local to: the main thread, in which    *)
(* the package was imported; a thread started later, which sees the         *)
(* defaults; an asyncio task, which starts with a copy of its creator's     *)
(* variables.  A dispatcher belongs to an identity ('core', 'wallet',       *)
(* 'script', 'psbt'), and depends on dispatchers of other identities.       *)
(*                                                                          *)
(* The stack of a context holds what will be undone on the way out: the     *)
(* calls to wrapped methods, and the `with ChainParams(...)` blocks.  The   *)
(* library itself never selects chain parameters inside a wrapped method,   *)
(* and the model leaves that to code outside of it.                         *)
(***************************************************************************)
EXTENDS Naturals, Sequences, FiniteSets, SequencesExt

CONSTANTS
    Contexts,       \* execution contexts
    Main,           \* the one that imported the package
    Identities,     \* _known_identities
    Dispatchers,    \* dispatcher classes that can be activated
    Bases,          \* base dispatchers (no_direct_use)
    Identity,       \* _class_dispatcher__identity
    Depends,        \* _class_dispatcher__depends of a dispatcher
    ParamSets,      \* chain params
    Default,        \* BitcoinMainnetParams
    Wallet, Psbt,   \* WALLET_DISPATCHER and PSBT_DISPATCHER of chain params
    None,
    MaxTogether     \* bound: the contexts and the frames of all of them together

\* get_class_dispatcher_depends: the dependencies of d, of these, and so on
\* (four identities: a chain of dependencies has at most three links).
AllDepends(d) ==
    LET one == Depends[d]
        two == one \cup UNION {Depends[e] : e \in one}
    IN  two \cup UNION {Depends[e] : e \in two}

ASSUME GraphAssumption ==
    /\ Main \in Contexts
    /\ None \notin Dispatchers \cup Bases
    /\ Dispatchers \cap Bases = {}
    /\ Identity \in [Dispatchers \cup Bases -> Identities]
    /\ Depends \in [Dispatchers -> SUBSET Dispatchers]
    /\ Default \in ParamSets
    /\ Wallet \in [ParamSets -> Dispatchers \cup Bases]
    /\ Psbt \in [ParamSets -> Dispatchers \cup Bases]
    /\ Wallet[Default] \in Dispatchers /\ Psbt[Default] \in Dispatchers
    /\ MaxTogether \in Nat

\* The assertion in get_class_dispatcher_depends, for d and its dependencies.
ASSUME DependsAssumption ==
    \A d \in Dispatchers :
        /\ \A e \in AllDepends(d) : AllDepends(e) \subseteq AllDepends(d)
        /\ \A e, f \in AllDepends(d) \cup {d} : Identity[e] = Identity[f] => e = f

\* __init_subclass__: the dispatchers of an identity derive from its base
\* dispatcher, and what is given as `depends` only replaces dependencies by
\* subclasses of them, which have the same identities.
IdentitiesOf(D) == {Identity[e] : e \in D}
ASSUME InheritanceAssumption ==
    \A d, x \in Dispatchers :
        Identity[d] = Identity[x] =>
            IdentitiesOf(AllDepends(d)) = IdentitiesOf(AllDepends(x))

VARIABLES
    alive,      \* the contexts that have started
    disp,       \* ContextLocalClassDispatchers: the active dispatchers
    params,     \* _chain_params_context.params
    stack,      \* the frames each context has entered
    known,      \* history: contexts that go back to a selection that succeeded
    broken      \* history: contexts in which leaving a method raised TypeError

vars == <<alive, disp, params, stack, known, broken>>

Tables == [Identities -> Dispatchers \cup {None}]

\* What is in effect in a context; the history field `before` of a frame is
\* what was in effect when it was entered.
InEffect(c) == <<disp[c], params[c], c \in known>>

CallFrame(d, prev, c) ==
    [kind |-> "call", class |-> d, prev |-> prev, before |-> InEffect(c)]
WithFrame(prev, c) ==
    [kind |-> "with", class |-> None, prev |-> prev, before |-> InEffect(c)]

Frames == [kind : {"call", "with"}, class : Dispatchers \cup Bases \cup {None},
           prev : Dispatchers \cup ParamSets \cup {None}, before : Tables \X ParamSets \X BOOLEAN]

TypeOK ==
    /\ alive \subseteq Contexts
    /\ disp \in [Contexts -> Tables]
    /\ params \in [Contexts -> ParamSets]
    /\ stack \in [Contexts -> Seq(Frames)]
    /\ known \subseteq Contexts
    /\ broken \subseteq Contexts

InCall(c) == \E i \in DOMAIN stack[c] : stack[c][i].kind = "call"

-----------------------------------------------------------------------------
(* activate_class_dispatcher and select_chain_params                        *)

\* Mutant of Activate: the dependencies are left alone.
ActivateOnly(m, d) == [m EXCEPT ![Identity[d]] = d]

\* The table after activating dispatcher d in table m.  Nothing at all is done
\* when d is already the active dispatcher of its identity.
Activate(m, d) ==
    IF m[Identity[d]] = d THEN m
    ELSE [i \in Identities |->
            IF \E e \in AllDepends(d) \cup {d} : Identity[e] = i
            THEN CHOOSE e \in AllDepends(d) \cup {d} : Identity[e] = i
            ELSE m[i]]

\* select_chain_params(p) activates the wallet dispatcher, then the psbt one.
Selectable(p) == Wallet[p] \in Dispatchers /\ Psbt[p] \in Dispatchers

SelectTable(m, p) == Activate(Activate(m, Wallet[p]), Psbt[p])

\* It raises ValueError when it comes to a base dispatcher; what was activated
\* before stays.
FailedTable(m, p) == IF Wallet[p] \in Bases THEN m ELSE Activate(m, Wallet[p])

Select(c, p) ==
    /\ params' = [params EXCEPT ![c] = p]
    /\ IF Selectable(p)
       THEN /\ disp' = [disp EXCEPT ![c] = SelectTable(@, p)]
            /\ known' = known \cup {c}
       ELSE /\ disp' = [disp EXCEPT ![c] = FailedTable(@, p)]
            /\ known' = known \ {c}

-----------------------------------------------------------------------------
\* Importing the package leaves the main thread with the default chain's
\* dispatchers active.  Every other context starts later.
NoTable == [i \in Identities |-> None]

Init ==
    /\ alive = {Main}
    /\ disp = [c \in Contexts |-> IF c = Main THEN SelectTable(NoTable, Default) ELSE NoTable]
    /\ params = [c \in Contexts |-> Default]
    /\ stack = [c \in Contexts |-> <<>>]
    /\ known = {Main}
    /\ broken = {}

\* threading.Thread: the new context has only the variables' defaults.
StartThread(c) ==
    /\ c \notin alive
    /\ alive' = alive \cup {c}
    /\ UNCHANGED <<disp, params, stack, known, broken>>

\* asyncio.create_task: the new context is a copy of the creator's.
CreateTask(c, t) ==
    /\ c \in alive
    /\ t \notin alive
    /\ ~InCall(c)
    /\ alive' = alive \cup {t}
    /\ disp' = [disp EXCEPT ![t] = disp[c]]
    /\ params' = [params EXCEPT ![t] = params[c]]
    /\ known' = IF c \in known THEN known \cup {t} ELSE known
    /\ UNCHANGED <<stack, broken>>

SelectParams(c, p) ==
    /\ c \in alive
    /\ ~InCall(c)
    /\ Select(c, p)
    /\ UNCHANGED <<alive, stack, broken>>

\* Contexts share nothing; the fewer there are the deeper the calls may nest.
Together == FoldFunction(LAMBDA x, y : x + y, Cardinality(alive),
                         [c \in Contexts |-> Len(stack[c])])
CanPush == Together < MaxTogether
Push(c, frame) == stack' = [stack EXCEPT ![c] = Append(@, frame)]
Pop(c) == stack' = [stack EXCEPT ![c] = Front(@)]

\* with ChainParams(p): the selection comes before the try, so that if it
\* fails the block is not entered and nothing will undo it.
EnterWith(c, p) ==
    /\ c \in alive
    /\ ~InCall(c)
    /\ CanPush
    /\ Select(c, p)
    /\ IF Selectable(p) THEN Push(c, WithFrame(params[c], c)) ELSE UNCHANGED stack
    /\ UNCHANGED <<alive, broken>>

\* Mutant of ExitWith: the parameters are put back, the dispatchers are not.
ExitWithParamsOnly(c) ==
    /\ stack[c] # <<>>
    /\ Last(stack[c]).kind = "with"
    /\ params' = [params EXCEPT ![c] = Last(stack[c]).prev]
    /\ Pop(c)
    /\ UNCHANGED <<alive, disp, known, broken>>

ExitWith(c) ==
    /\ stack[c] # <<>>
    /\ Last(stack[c]).kind = "with"
    /\ Select(c, Last(stack[c]).prev)
    /\ Pop(c)
    /\ UNCHANGED <<alive, broken>>

\* Mutant of CallMethod: base dispatchers are activated like the others.
CallMethodAnyBase(c, d) ==
    /\ c \in alive
    /\ CanPush
    /\ disp' = IF d \in Bases THEN [disp EXCEPT ![c][Identity[d]] = d]
               ELSE [disp EXCEPT ![c] = Activate(@, d)]
    /\ Push(c, CallFrame(d, disp[c][Identity[d]], c))
    /\ UNCHANGED <<alive, params, known, broken>>

\* A method of a class whose dispatcher is d is called.
CallMethod(c, d) ==
    /\ c \in alive
    /\ CanPush
    /\ disp' = IF d \in Bases THEN disp ELSE [disp EXCEPT ![c] = Activate(@, d)]
    /\ Push(c, CallFrame(d, IF d \in Bases THEN None ELSE disp[c][Identity[d]], c))
    /\ UNCHANGED <<alive, params, known, broken>>

\* Mutant of LeaveMethod: without the finally, a method that raises leaves its
\* dispatcher behind.
LeaveMethodNoFinally(c) ==
    /\ stack[c] # <<>>
    /\ Last(stack[c]).kind = "call"
    /\ Pop(c)
    /\ UNCHANGED <<alive, disp, params, known, broken>>

\* Mutant of LeaveMethod: only the identity itself is put back, not the
\* dispatchers that the previous one depends on.
LeaveMethodShallow(c) ==
    /\ stack[c] # <<>>
    /\ LET f == Last(stack[c]) IN
       /\ f.kind = "call"
       /\ disp' = IF f.class \in Bases \/ f.prev = None THEN disp
                  ELSE [disp EXCEPT ![c][Identity[f.prev]] = f.prev]
    /\ Pop(c)
    /\ UNCHANGED <<alive, params, known, broken>>

\* It returns or raises: the finally block activates the previous dispatcher
\* (there is none to activate, and issubclass(None, ...) raises, if the
\* identity had no dispatcher when the method was called).
LeaveMethod(c) ==
    /\ stack[c] # <<>>
    /\ LET f == Last(stack[c]) IN
       /\ f.kind = "call"
       /\ IF f.class \in Bases THEN UNCHANGED <<disp, broken>>
          ELSE IF f.prev = None
          THEN /\ broken' = broken \cup {c}
               /\ UNCHANGED disp
          ELSE /\ disp' = [disp EXCEPT ![c] = Activate(@, f.prev)]
               /\ UNCHANGED broken
    /\ Pop(c)
    /\ UNCHANGED <<alive, params, known>>

Next ==
    \E c \in Contexts :
        \/ StartThread(c)
        \/ \E t \in Contexts : CreateTask(c, t)
        \/ \E p \in ParamSets : SelectParams(c, p)
        \/ \E p \in ParamSets : EnterWith(c, p)
        \/ ExitWith(c)
        \/ \E d \in Dispatchers \cup Bases : CallMethod(c, d)
        \/ LeaveMethod(c)

Spec == Init /\ [][Next]_vars

-----------------------------------------------------------------------------
(* Several coins.                                                            *)

\* Another dispatcher may take the place of this one.
Rivalled(d) == \E x \in Dispatchers \ {d} : Identity[x] = Identity[d]

\* Whatever activates a dispatcher of the identity as a dependency activates
\* the only one there is.
Settled(id) ==
    \A d, x \in Dispatchers : \A e \in AllDepends(d) :
        Identity[e] = id /\ Identity[x] = id => e = x

\* Every identity has an active dispatcher, and those that were chosen among
\* several have what they depend on active with them.
FitTogether(m) ==
    \A i \in Identities :
        /\ m[i] # None
        /\ Rivalled(m[i]) => \A e \in AllDepends(m[i]) : m[Identity[e]] = e

\* The wallet and PSBT dispatchers of chains, which no other depends on.
ChainsApart ==
    \A p \in ParamSets : Selectable(p) =>
        /\ Identity[Wallet[p]] # Identity[Psbt[p]]
        /\ Settled(Identity[Wallet[p]]) /\ Settled(Identity[Psbt[p]])

\* The coins differ in their wallet dispatchers and in one identity that these
\* depend on, and have the rest in common: bitcointx by itself, or with the
\* second coin of tests/test_core.py.
CoinsShare ==
    /\ ChainsApart
    /\ \A i, j \in Identities : ~Settled(i) /\ ~Settled(j) => i = j
    /\ \A d \in Dispatchers, p \in ParamSets :
          Rivalled(d) /\ Identity[d] # Identity[Wallet[p]] =>
              \A e \in AllDepends(d) : Settled(Identity[e])
    /\ \A p \in ParamSets : Psbt[p] \in Dispatchers => ~Rivalled(Psbt[p])
    /\ \A p \in ParamSets, id \in Identities : Selectable(p) =>
          \/ id = Identity[Wallet[p]]
          \/ Rivalled(Wallet[p]) /\ id \in IdentitiesOf(AllDepends(Wallet[p]))
          \/ \A x, y \in Dispatchers : Identity[x] = id /\ Identity[y] = id => x = y

-----------------------------------------------------------------------------
(* Properties                                                               *)

\* Inside a method the dispatcher of its class is active, also after the
\* methods it calls have returned (the comment above `wrap`, util.py:314:
\* inside CBitcoinTransaction.deserialize(), CTxOut() should produce
\* CBitcoinTxOut).  For a dispatcher that another coin replaces, like the core
\* one, this is so if the active dispatchers fit together when the body of the
\* method begins: in a method of a coin that is not selected a call may put
\* back a wallet dispatcher, and with it another core dispatcher.
OwnDispatcher ==
    \A c \in alive :
        LET f == Last(stack[c]) IN
        /\ stack[c] # <<>> /\ f.kind = "call" /\ f.class \in Dispatchers
        /\ Settled(Identity[f.class]) \/ FitTogether(Activate(f.before[1], f.class))
        => disp[c][Identity[f.class]] = f.class

\* The comment as it stands: "inside CBitcoinTransaction.deserialize(), CTxOut()
\* should produce CBitcoinTxOut, regardless of the current globally chosen
\* chain parameters" (util.py:314-316).
OwnDispatcherAlways ==
    \A c \in alive :
        LET f == Last(stack[c]) IN
        stack[c] # <<>> /\ f.kind = "call" /\ f.class \in Dispatchers =>
            disp[c][Identity[f.class]] = f.class

\* Once the dispatchers of a context fit together, as they do in the one that
\* imported the package, they do so whenever the context is outside of methods,
\* whatever was called, raised or selected (__init_subclass__, util.py: when
\* activated, a dispatcher implies that those it depends on "should also be
\* activated ... for the class dispatching situation to be consistent").
StaysTogether ==
    \A c \in Contexts :
        [](c \in alive /\ ~InCall(c) /\ FitTogether(disp[c])
           => [](~InCall(c) => FitTogether(disp[c])))

\* Outside of any method the active dispatchers are those of the chain that
\* get_current_chain_params reports, in every context that has selected one.
ParamsInEffect ==
    \A c \in alive \cap known :
        ~InCall(c) => /\ disp[c][Identity[Wallet[params[c]]]] = Wallet[params[c]]
                      /\ disp[c][Identity[Psbt[params[c]]]] = Psbt[params[c]]

\* When a method returns, or a with block ends, everything in effect is as it
\* was before, whatever was called or selected in between, if the dispatchers
\* fitted together then, and for a with block the chain had been selected
\* (README.md: "change the parameters temporary").
Restored ==
    [][\A c \in alive :
          LET f == Last(stack[c]) IN
          /\ Len(stack'[c]) < Len(stack[c])
          /\ FitTogether(f.before[1])
          /\ f.kind = "with" => f.before[3]
          => InEffect(c)' = f.before]_vars

\* Selecting a chain activates the dispatchers that its wallet classes depend
\* on, in any context (select_chain_params, __init__.py: "changing chain
\* parameters is thread-safe").
SelectionActivatesDepends ==
    [][\A c \in alive, p \in ParamSets :
          SelectParams(c, p) /\ Selectable(p) =>
              \A e \in AllDepends(Wallet[p]) : disp'[c][Identity[e]] = e]_vars

\* No method ends in the TypeError of its wrapper: the library can be used in
\* any thread (release-notes.md: "Threading is actually supported now").
UsableInThreads == broken = {}

=============================================================================
