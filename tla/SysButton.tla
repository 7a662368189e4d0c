----------------------------- MODULE SysButton -----------------------------
(***************************************************************************)
(* src/common/sys_button.c: the platform reports a change of a button on   *)
(* another thread, the flag takes it to the loop, and the handler reads    *)
(* the button again, so several changes may be reported as one.  The loop  *)
(* is what LoopPromise promises: a flag is owed until its handler is       *)
(* called.                                                                 *)
(***************************************************************************)
EXTENDS Naturals, Sequences

CONSTANTS
    Button,         \* platform_button_t
    Object,         \* sys_button_t objects
    NULL

ASSUME NullDistinct == NULL \notin Button \cup Object

VARIABLES
    pressed,        \* the hardware's state of each button
    changed,        \* changes the platform has still to report
    button_used,    \* the table of objects, by button
    button,         \* s->button
    event_list,     \* the objects whose evt_node is linked, in the order of the list
    button_owed,    \* objects whose flag is set and not yet dispatched
    running,        \* the object whose handler the loop has called
    read,           \* the state that handler has read, if it has
    told            \* the state fn was called with last, if it was

hardwareVars == <<pressed, changed>>
initVars == <<button_used, button, event_list>>
handlerVars == <<running, read, told>>
buttonVars == <<hardwareVars, initVars, button_owed, handlerVars>>

ButtonInit ==
    /\ pressed \in [Button -> BOOLEAN]
    /\ changed = {}
    /\ button_used = [id \in Button |-> NULL]
    /\ button = [s \in Object |-> NULL]
    /\ event_list = <<>>
    /\ button_owed = {}
    /\ running = NULL /\ read = NULL
    /\ told = [s \in Object |-> NULL]

Linked(s) == \E i \in DOMAIN event_list : event_list[i] = s

\* memset clears the node of the object, which may be linked already: then the
\* list ends with it, and whoever stood behind it is in no list any more.  A node
\* that is found in the list is not linked again.
Relinked(s) ==
    IF Linked(s)
    THEN SubSeq(event_list, 1, CHOOSE i \in DOMAIN event_list : event_list[i] = s)
    ELSE <<s>> \o event_list

\* Before the application is told anything of an object, the object may be
\* initialised again, for another button as in example/main.c:307, or the same.
a_sys_button_init(s, id) ==
    /\ told[s] = NULL /\ running # s
    /\ button_used[id] \in {NULL, s}
    /\ button' = [button EXCEPT ![s] = id]
    /\ button_used' = [button_used EXCEPT ![id] = s]
    /\ event_list' = Relinked(s)
    /\ UNCHANGED <<hardwareVars, button_owed, handlerVars>>

\* The platform reports changes of enabled buttons only.
press_or_release(id) ==
    /\ pressed' = [pressed EXCEPT ![id] = ~pressed[id]]
    /\ changed' = IF button_used[id] = NULL THEN changed ELSE changed \cup {id}
    /\ UNCHANGED <<initVars, button_owed, handlerVars>>

button_callback(id) ==
    /\ id \in changed
    /\ changed' = changed \ {id}
    /\ button_owed' = button_owed \cup ({button_used[id]} \ {NULL})
    /\ UNCHANGED <<pressed, initVars, handlerVars>>

\* a_eventloop clears the flag before the call, and calls whose node is linked.
dispatch(s) ==
    /\ running = NULL
    /\ s \in button_owed /\ Linked(s)
    /\ button_owed' = button_owed \ {s}
    /\ running' = s
    /\ UNCHANGED <<hardwareVars, initVars, read, told>>

\* recv_callback reads the button,
read_button(s) ==
    /\ running = s /\ read = NULL
    /\ read' = pressed[button[s]]
    /\ UNCHANGED <<hardwareVars, initVars, button_owed, running, told>>

clear_after_reading(s) ==
    /\ running = s /\ read # NULL
    /\ told' = [told EXCEPT ![s] = read]
    /\ button_owed' = button_owed \ {s}
    /\ running' = NULL /\ read' = NULL
    /\ UNCHANGED <<hardwareVars, initVars>>

\* and fn is told what it read.
button_recv_callback(s) ==
    /\ running = s /\ read # NULL
    /\ told' = [told EXCEPT ![s] = read]
    /\ running' = NULL /\ read' = NULL
    /\ UNCHANGED <<hardwareVars, initVars, button_owed>>

ButtonNext ==
    \/ \E s \in Object, id \in Button : a_sys_button_init(s, id)
    \/ \E id \in Button : press_or_release(id) \/ button_callback(id)
    \/ \E s \in Object : dispatch(s) \/ read_button(s) \/ button_recv_callback(s)

\* The platform reports what changed, the loop calls whom it owes a call, and
\* the handler returns.
ButtonSpec ==
    /\ ButtonInit /\ [][ButtonNext]_buttonVars
    /\ \A id \in Button : WF_buttonVars(button_callback(id))
    /\ \A s \in Object :
          /\ SF_buttonVars(dispatch(s))
          /\ WF_buttonVars(read_button(s) \/ button_recv_callback(s))

-----------------------------------------------------------------------------
\* The table knows the object of every object's button, and every variable has
\* its type.
ButtonTypeOK ==
    /\ pressed \in [Button -> BOOLEAN]
    /\ changed \subseteq Button
    /\ \A s \in Object : button[s] # NULL => button_used[button[s]] = s
    /\ event_list \in Seq(Object)
    /\ button_owed \subseteq Object
    /\ running \in Object \cup {NULL}
    /\ read \in BOOLEAN \cup {NULL}
    /\ told \in [Object -> BOOLEAN \cup {NULL}]

\* The application's picture of a button is out of date only while a report of a
\* change is still on its way, or its handler is and has not read an older state:
\* changes may be reported as one, or not at all when the button is back in its
\* old state, but the last state is never missed.
LastStateOnItsWay ==
    \A s \in Object : told[s] # NULL =>
        \/ told[s] = pressed[button[s]]
        \/ button[s] \in changed
        \/ s \in button_owed
        \/ running = s /\ read \in {NULL, pressed[button[s]]}

\* When a button is left alone, the application gets to know its state, unless it
\* was never told anything, or the initialisation of another object has cut this
\* one off the list.
StateIsTold ==
    \A s \in Object, state \in BOOLEAN :
        <>[](Linked(s) /\ pressed[button[s]] = state)
            => <>[](told[s] \in {NULL, state})
=============================================================================
