----------------------------- MODULE Middleware -----------------------------
(***************************************************************************)
(* The middleware chain of the Gee web framework: RouterGroup.Group and    *)
(* Use, and Engine.ServeHTTP selecting the middlewares of every group      *)
(* whose prefix the path starts with (WebFramework/day7-panic/gee/gee.go), *)
(* run by Context.Next and cut short by Context.Fail                      *)
(* (day6-templates/gee/context.go).                                       *)
(*                                                                         *)
(* A string is a sequence of characters, so strings.HasPrefix is IsPrefix *)
(* and prefix + comp is \o.  A handler is a model value whose body is the  *)
(* program Prog[h], a sequence of the calls it makes on the Context:      *)
(* "next" (c.Next()) and "fail" (c.Fail(...)); writing the response is     *)
(* left out.  The nested calls of Next and of the handlers are a stack of *)
(* frames.  Requests are served one at a time: each has its own Context,  *)
(* and the engine's groups are only read while serving.                   *)
(***************************************************************************)
EXTENDS Naturals, Integers, Sequences, SequencesExt

CONSTANTS
    Handlers,       \* the middleware functions
    Prog,           \* Prog[h]: the Context calls h makes, in order
    Comps,          \* the prefixes Group is called with
    Paths,          \* the request paths
    MaxGroups,      \* bound on len(e.groups)
    MaxUses         \* bound on the middlewares added by Use

VARIABLES
    groups,         \* e.groups: <<[prefix, middlewares]>>, the engine's group first
    uses,           \* the middlewares added so far
    req,            \* "idle", "serving" or "done"
    handlers,       \* c.handlers
    index,          \* c.index
    stack,          \* the frames of Next and of the handlers, innermost last
    ran,            \* history: the positions of the handlers started, in order
    failed          \* history: c.Fail was called during the request

vars == <<groups, uses, req, handlers, index, stack, ran, failed>>

\* The frame of handler handlers[pos] (c.index pos) with its calls to make.
HandlerFrame(pos) == [kind |-> "handler", pos |-> pos, prog |-> Prog[handlers[pos + 1]]]

Top == stack[Len(stack)]

\* ServeHTTP, lines 79-84: the middlewares of every group whose prefix the
\* path starts with, in the order of e.groups.
Middlewares(path) ==
    FlattenSeq([i \in 1 .. Len(groups) |->
                  IF IsPrefix(groups[i].prefix, path) THEN groups[i].middlewares ELSE <<>>])

\* New, lines 35-40: the engine is the group with the empty prefix.
Init ==
    /\ groups = <<[prefix |-> <<>>, middlewares |-> <<>>]>>
    /\ uses = 0
    /\ req = "idle"
    /\ handlers = <<>>
    /\ index = -1
    /\ stack = <<>>
    /\ ran = <<>>
    /\ failed = FALSE

\* RouterGroup.Group, lines 43-52: a group under group gi, appended to
\* e.groups.
Group(gi, comp) ==
    /\ req = "idle"
    /\ Len(groups) < MaxGroups
    /\ groups' = Append(groups, [prefix |-> groups[gi].prefix \o comp, middlewares |-> <<>>])
    /\ UNCHANGED <<uses, req, handlers, index, stack, ran, failed>>

\* RouterGroup.Use, lines 69-71.
Use(gi, h) ==
    /\ req = "idle"
    /\ uses < MaxUses
    /\ groups' = [groups EXCEPT ![gi].middlewares = Append(@, h)]
    /\ uses' = uses + 1
    /\ UNCHANGED <<req, handlers, index, stack, ran, failed>>

\* Next, context.go lines 36-37, called with c.index i on the stack st:
\* c.index++, s := len(c.handlers) (n), and the loop starts.
CallNext(st, n, i) ==
    /\ index' = i + 1
    /\ stack' = Append(st, [kind |-> "next", s |-> n])

\* ServeHTTP, lines 85-89, and newContext (index -1).  The router of this
\* engine is not in the repository (day 4's router.handle never calls
\* Next); the chain is started with c.Next(), and the route handler that
\* router appends to c.handlers is left out.
ServeHTTP(path) ==
    /\ req = "idle"
    /\ req' = "serving"
    /\ handlers' = Middlewares(path)
    /\ CallNext(<<>>, Len(Middlewares(path)), -1)
    /\ ran' = <<>>
    /\ failed' = FALSE
    /\ UNCHANGED <<groups, uses>>

\* Mutant: the loop stops one handler early.
LoopGuardEarly(f) == index < f.s - 1

\* Next, line 38: the loop condition.
LoopGuard(f) == index < f.s

\* Next, lines 38-39: the loop calls c.handlers[c.index](c).
Invoke ==
    /\ req = "serving"
    /\ stack # <<>> /\ Top.kind = "next"
    /\ LoopGuard(Top)
    /\ stack' = Append(stack, HandlerFrame(index))
    /\ ran' = Append(ran, index)
    /\ UNCHANGED <<groups, uses, req, handlers, index, failed>>

\* Next returns when the loop condition fails; the request is done when
\* the outermost Next returns.
NextReturn ==
    /\ req = "serving"
    /\ stack # <<>> /\ Top.kind = "next"
    /\ ~LoopGuard(Top)
    /\ stack' = Front(stack)
    /\ req' = IF Len(stack) = 1 THEN "done" ELSE req
    /\ UNCHANGED <<groups, uses, handlers, index, ran, failed>>

\* Mutant: Fail answers but leaves c.index where it is.
FailNoAbort == index' = index

\* Fail, lines 93-96: c.index = len(c.handlers), then the JSON answer.
Fail == index' = Len(handlers)

\* A handler makes its next call on the Context.
HandlerCall ==
    /\ req = "serving"
    /\ stack # <<>> /\ Top.kind = "handler" /\ Top.prog # <<>>
    /\ LET rest == [stack EXCEPT ![Len(stack)].prog = Tail(@)] IN
       IF Head(Top.prog) = "next"
       THEN /\ CallNext(rest, Len(handlers), index)
            /\ UNCHANGED failed
       ELSE /\ Fail
            /\ stack' = rest
            /\ failed' = TRUE
    /\ UNCHANGED <<groups, uses, req, handlers, ran>>

\* Mutant: the loop's c.index++ is skipped after a handler returns.
HandlerReturnNoIncrement ==
    /\ req = "serving"
    /\ stack # <<>> /\ Top.kind = "handler" /\ Top.prog = <<>>
    /\ stack' = Front(stack)
    /\ UNCHANGED <<groups, uses, req, handlers, index, ran, failed>>

\* A handler returns to the loop of Next, which runs c.index++ (line 38).
HandlerReturn ==
    /\ req = "serving"
    /\ stack # <<>> /\ Top.kind = "handler" /\ Top.prog = <<>>
    /\ stack' = Front(stack)
    /\ index' = index + 1
    /\ UNCHANGED <<groups, uses, req, handlers, ran, failed>>

\* ServeHTTP returns; the next request gets a new Context.
Finish ==
    /\ req = "done"
    /\ req' = "idle"
    /\ UNCHANGED <<groups, uses, handlers, index, stack, ran, failed>>

Next ==
    \/ \E gi \in 1 .. Len(groups), comp \in Comps : Group(gi, comp)
    \/ \E gi \in 1 .. Len(groups), h \in Handlers : Use(gi, h)
    \/ \E path \in Paths : ServeHTTP(path)
    \/ Invoke
    \/ NextReturn
    \/ HandlerCall
    \/ HandlerReturn
    \/ Finish

\* A request being served runs on its goroutine until ServeHTTP returns.
Spec == Init /\ [][Next]_vars /\ WF_vars(Invoke \/ NextReturn \/ HandlerCall \/ HandlerReturn)

-----------------------------------------------------------------------------

\* Next shares c.index with every nested Next: whatever the middlewares
\* do (call Next, call it twice, not call it, Fail before or after it),
\* the handlers start in the order of c.handlers, each at most once.
ChainInOrder == ran = [k \in 1 .. Len(ran) |-> k - 1]

\* Fail stops the chain: once a handler has called c.Fail, no handler of
\* the request starts, in this Next or in any Next it is nested in.
NoHandlerAfterFail == [][failed /\ failed' => Len(ran') = Len(ran)]_vars

\* Every request's chain returns, and every handler selected for it has
\* run unless one called Fail.
ChainCompletes ==
    req = "serving" ~> (req = "done" /\ (failed \/ Len(ran) = Len(handlers)))

====
