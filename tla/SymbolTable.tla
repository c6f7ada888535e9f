----------------------------- MODULE SymbolTable -----------------------------
(***************************************************************************)
(* What the interning pool of the cstring library promises its callers: a  *)
(* table that binds a name to a symbol on the first request, in one step,  *)
(* never rebinds it, and never gives two names the same symbol.            *)
(***************************************************************************)
CONSTANTS Threads, Names, Symbols, NoName, NoSymbol

VARIABLES
    sym,   \* the symbol a name is bound to
    want,  \* the name a thread has asked for
    ans    \* the symbol the table has answered

vars == <<sym, want, ans>>

Init ==
    /\ sym = [n \in Names |-> NoSymbol]
    /\ want = [t \in Threads |-> NoName]
    /\ ans = [t \in Threads |-> NoSymbol]

Request(t) ==
    /\ want[t] = NoName
    /\ \E n \in Names : want' = [want EXCEPT ![t] = n]
    /\ UNCHANGED <<sym, ans>>

\* The name is bound already: the answer is the symbol it has.
Find(t) ==
    /\ want[t] # NoName /\ ans[t] = NoSymbol
    /\ sym[want[t]] # NoSymbol
    /\ ans' = [ans EXCEPT ![t] = sym[want[t]]]
    /\ UNCHANGED <<sym, want>>

\* The first request for a name binds it to a symbol no other name has.
Bind(t) ==
    /\ want[t] # NoName /\ ans[t] = NoSymbol
    /\ sym[want[t]] = NoSymbol
    /\ \E s \in Symbols :
        /\ \A n \in Names : sym[n] # s
        /\ sym' = [sym EXCEPT ![want[t]] = s]
        /\ ans' = [ans EXCEPT ![t] = s]
    /\ UNCHANGED want

Reply(t) ==
    /\ ans[t] # NoSymbol
    /\ want' = [want EXCEPT ![t] = NoName]
    /\ ans' = [ans EXCEPT ![t] = NoSymbol]
    /\ UNCHANGED sym

Next == \E t \in Threads : Request(t) \/ Find(t) \/ Bind(t) \/ Reply(t)

Spec == Init /\ [][Next]_vars
=============================================================================
