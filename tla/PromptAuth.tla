----------------------------- MODULE PromptAuth -----------------------------
(* Credentials that are asked for (internal/promptauth): a command resolves  *)
(* them from what it resolved before, from the session file of the shell,    *)
(* from the environment, or by asking the user; what may be kept is written  *)
(* to the session file, which "context clean" and the exit of a shell with   *)
(* the session hook remove.                                                  *)
EXTENDS Naturals, Sequences, FiniteSets

CONSTANTS
    Commands,       \* commands, each run once
    Tasks,          \* goroutines of a command that resolve credentials
    Credentials,    \* names of credentials
    Prompted,       \* the fields of each that are asked for
    Persistent,     \* the credentials with persistInSession
    Segment,        \* sanitizeEnvSegment of each name
    Exported,       \* values exported in the environment, by key
    Together,       \* whether commands run at the same time
    MaxShells,      \* shells that share the session, one in the other
    MaxCleans,
    MaxResolves     \* resolutions of one command

VARIABLES
    sessionFile,    \* the session file: values by key
    commands,       \* the state of each command
    shells,         \* open shells; the first opened the others
    cleans,         \* how often the session was cleaned, and by whom
    kept            \* keys saved since the last cleaning

\* What is exported comes from no command and is stored under the key of its field.
ASSUME PromptAssumption ==
    /\ Prompted \in [Credentials -> SUBSET {"username", "password"}]
    /\ Commands \cap {"literal", "environment"} = {}
    /\ \A key \in DOMAIN Exported :
         Exported[key] \in [of : Credentials, field : {key[2]}, by : {"environment"}, at : {0}]
    /\ MaxShells \in Nat \ {0} /\ MaxCleans \in Nat /\ MaxResolves \in Nat
    /\ IsFiniteSet(Tasks)

promptVars == <<sessionFile, commands, shells, cleans, kept>>

Fields == <<"username", "password">>

\* credentialEnvKey
Key(c, f) == <<Segment[c], f>>

\* A value remembers for whom it was entered, and when.
Literal(c, f) == [of |-> c, field |-> f, by |-> "literal", at |-> 0]
NoMap == [k \in {} |-> Literal("", "")]
Put(map, key, value) == [k \in DOMAIN map \cup {key} |-> IF k = key THEN value ELSE map[k]]

NoTask == [at |-> "idle"]
NewCommand == [stage |-> "new", session |-> NoMap, resolved |-> {}, owners |-> <<>>,
               tasks |-> [t \in Tasks |-> NoTask],
               asked |-> [cf \in Credentials \X {"username", "password"} |-> 0],
               failed |-> 0, count |-> 0, since |-> 0, results |-> {}]
Running(p) == commands[p].stage = "running"
Task(p, t) == commands[p].tasks[t]
At(p, t, at) == Running(p) /\ Task(p, t) # NoTask /\ Task(p, t).at = at
Field(p, t) == Fields[Len(Task(p, t).values) + 1]
Becomes(p, command) == commands' = [commands EXCEPT ![p] = command]
WithTask(p, t, task) == [commands[p].tasks EXCEPT ![t] = task]
Moved(p, t, at) == [Task(p, t) EXCEPT !.at = at]
Took(p, t, value) == [Task(p, t) EXCEPT !.values = Append(@, value)]
AskedAgain(p, c, f) == [commands[p].asked EXCEPT ![<<c, f>>] = @ + 1]

(***************************************************************************)
(* The runtime (runtime.go).                                               *)
(***************************************************************************)

\* New, ensureSessionLoaded
Start(p) ==
    /\ commands[p].stage = "new" /\ shells > 0
    /\ Together \/ \A q \in Commands : ~Running(q)
    /\ Becomes(p, [commands[p] EXCEPT !.stage = "running", !.session = sessionFile,
                                           !.since = cleans.count])
    /\ UNCHANGED <<sessionFile, shells, cleans, kept>>

\* Mutant of OwnsKeys: names are not compared.
OwnsAnyKeys(p, c) == TRUE

\* registerEnvKeyOwner: a key belongs to the first name that maps to it.
OwnsKeys(p, c) ==
    \A i \in DOMAIN Fields : Key(c, Fields[i]) \in DOMAIN commands[p].owners =>
        commands[p].owners[Key(c, Fields[i])] = c

Registered(p, c) == Put(Put(commands[p].owners, Key(c, "username"), c), Key(c, "password"), c)

Begin(c) == [at |-> "field", cred |-> c, values |-> <<>>, saving |-> NoMap]

\* Resolve, up to the first field: a credential that was resolved before, or whose
\* keys are another's, is answered at once.
Resolve(p, t) ==
    /\ Running(p) /\ Task(p, t) = NoTask /\ commands[p].count < MaxResolves
    /\ \E c \in Credentials :
         \/ /\ c \in commands[p].resolved \/ ~OwnsKeys(p, c)
            /\ Becomes(p, [commands[p] EXCEPT !.count = @ + 1])
         \/ /\ c \notin commands[p].resolved /\ OwnsKeys(p, c)
            /\ Becomes(p, [commands[p] EXCEPT !.count = @ + 1,
                 !.owners = Registered(p, c), !.tasks = WithTask(p, t, Begin(c))])
    /\ UNCHANGED <<sessionFile, shells, cleans, kept>>

\* sessionValueFromMemory, then sessionValue.
Known(p, key) == key \in DOMAIN commands[p].session \/ key \in DOMAIN Exported
KnownValue(p, key) ==
    IF key \in DOMAIN commands[p].session THEN commands[p].session[key] ELSE Exported[key]

\* resolveField of a literal or of a known value.
TakeField(p, t) ==
    /\ At(p, t, "field") /\ Len(Task(p, t).values) < 2
    /\ LET c == Task(p, t).cred
           key == Key(c, Field(p, t))
           asks == Field(p, t) \in Prompted[c]
       IN /\ asks => Known(p, key)
          /\ Becomes(p, [commands[p] EXCEPT !.tasks = WithTask(p, t,
                Took(p, t, IF asks THEN KnownValue(p, key) ELSE Literal(c, Field(p, t))))])
    /\ UNCHANGED <<sessionFile, shells, cleans, kept>>

\* PromptValue: the user is asked.
Ask(p, t) ==
    /\ At(p, t, "field") /\ Len(Task(p, t).values) < 2
    /\ Field(p, t) \in Prompted[Task(p, t).cred]
    /\ ~Known(p, Key(Task(p, t).cred, Field(p, t)))
    /\ Becomes(p, [commands[p] EXCEPT !.tasks = WithTask(p, t, Moved(p, t, "answer"))])
    /\ UNCHANGED <<sessionFile, shells, cleans, kept>>

\* persistField: memory at once, the file with the values of this moment.
Answer(p, t) ==
    /\ At(p, t, "answer")
    /\ LET c == Task(p, t).cred
           f == Field(p, t)
           value == [of |-> c, field |-> f, by |-> p, at |-> commands[p].since]
           session == IF c \in Persistent THEN Put(commands[p].session, Key(c, f), value)
                      ELSE commands[p].session
           next == [Task(p, t) EXCEPT !.at = IF c \in Persistent THEN "save" ELSE "field",
                                      !.saving = session, !.values = Append(@, value)]
       IN Becomes(p, [commands[p] EXCEPT !.session = session,
             !.asked = AskedAgain(p, c, f), !.tasks = WithTask(p, t, next)])
    /\ UNCHANGED <<sessionFile, shells, cleans, kept>>

\* The prompt is interrupted or the file cannot be written: the resolution fails.
Interrupted(p, t) ==
    /\ At(p, t, "answer") \/ At(p, t, "save")
    /\ Becomes(p, [commands[p] EXCEPT !.tasks = WithTask(p, t, NoTask), !.failed = @ + 1])
    /\ UNCHANGED <<sessionFile, shells, cleans, kept>>

\* Mutant of SavedFile: only what is new is written.
SavedFileNew(p, t) ==
    LET key == Key(Task(p, t).cred, Fields[Len(Task(p, t).values)])
    IN [k \in {key} |-> Task(p, t).saving[key]]

SavedFile(p, t) == Task(p, t).saving

\* Save: the file is replaced by the values of the moment of the answer.
SaveSession(p, t) ==
    /\ At(p, t, "save")
    /\ sessionFile' = SavedFile(p, t)
    /\ kept' = kept \cup {Key(Task(p, t).cred, Fields[Len(Task(p, t).values)])}
    /\ Becomes(p, [commands[p] EXCEPT !.tasks = WithTask(p, t, Moved(p, t, "field"))])
    /\ UNCHANGED <<shells, cleans>>

\* Mutant of Remembered: nothing is remembered within the command.
RememberedNever(p, c) == commands[p].resolved

Remembered(p, c) == commands[p].resolved \cup {c}

\* Resolve, the end: the credentials are returned and remembered.
Return(p, t) ==
    /\ At(p, t, "field") /\ Len(Task(p, t).values) = 2
    /\ LET c == Task(p, t).cred
       IN Becomes(p, [commands[p] EXCEPT !.tasks = WithTask(p, t, NoTask),
             !.resolved = Remembered(p, c),
             !.results = @ \cup {[cred |-> c, values |-> Task(p, t).values]}])
    /\ UNCHANGED <<sessionFile, shells, cleans, kept>>

\* The command ends, by itself or by a kill.
End(p) ==
    /\ Running(p)
    /\ Becomes(p, [commands[p] EXCEPT !.stage = "ended", !.tasks = [t \in Tasks |-> NoTask]])
    /\ UNCHANGED <<sessionFile, shells, cleans, kept>>

(***************************************************************************)
(* The session (session_store.go, shell_hook.go).                          *)
(***************************************************************************)

\* Mutant of ClearSessionCredentials: the files stay.
ClearLegacyOnly(by) ==
    /\ cleans' = [count |-> cleans.count + 1, by |-> by] /\ kept' = {}
    /\ UNCHANGED sessionFile

\* ClearSessionCredentials
ClearSessionCredentials(by) ==
    /\ cleans' = [count |-> cleans.count + 1, by |-> by] /\ kept' = {}
    /\ sessionFile' = NoMap

\* context clean --credentials-in-session
Clean ==
    /\ cleans.count < MaxCleans /\ shells > 0
    /\ Together \/ \A q \in Commands : ~Running(q)
    /\ ClearSessionCredentials("user")
    /\ UNCHANGED <<commands, shells>>

\* A shell started from the first inherits the session.
OpenShell ==
    /\ shells \in 1..(MaxShells - 1)
    /\ shells' = shells + 1
    /\ UNCHANGED <<sessionFile, commands, cleans, kept>>

\* The hook's trap cleans the session when a shell exits.
ExitShell ==
    /\ shells > 0 /\ \A q \in Commands : ~Running(q)
    /\ cleans.count < MaxCleans
    /\ ClearSessionCredentials(IF shells = 1 THEN "shell" ELSE "inner shell")
    /\ shells' = shells - 1
    /\ UNCHANGED commands

PromptInit ==
    /\ sessionFile = NoMap
    /\ commands = [p \in Commands |-> NewCommand]
    /\ shells = 1
    /\ cleans = [count |-> 0, by |-> "nobody"]
    /\ kept = {}

PromptNext ==
    \/ \E p \in Commands : Start(p) \/ End(p)
    \/ \E p \in Commands, t \in Tasks :
         \/ Resolve(p, t) \/ TakeField(p, t) \/ Ask(p, t) \/ Answer(p, t)
         \/ Interrupted(p, t) \/ SaveSession(p, t) \/ Return(p, t)
    \/ Clean \/ OpenShell \/ ExitShell

PromptSpec == PromptInit /\ [][PromptNext]_promptVars

(***************************************************************************)
(* Properties.                                                             *)
(***************************************************************************)

\* Every variable is of its type, and no resolution has more than its fields.
PromptTypeOK ==
    /\ DOMAIN sessionFile \subseteq {Key(c, Fields[i]) : c \in Credentials, i \in DOMAIN Fields}
    /\ \A p \in Commands :
         /\ commands[p].count \in 0..MaxResolves
         /\ \A r \in commands[p].results : Len(r.values) = 2 /\ r.values[1].field = "username"
                                              /\ r.values[2].field = "password"
    /\ shells \in 0..MaxShells

\* What was entered in a command for one credential is not returned by it for
\* another: names with one session key are told apart.
NoMixingInCommand ==
    \A p \in Commands : \A r \in commands[p].results : \A i \in 1..2 :
        r.values[i].of = r.cred \/ r.values[i].by # p

\* No credential is ever returned for another.
NoMixing ==
    \A p \in Commands : \A r \in commands[p].results : \A i \in 1..2 :
        r.values[i].of = r.cred

\* In a command the user enters a field at most once for each of the tasks
\* that race for it, and once more for each resolution that failed later.
AskedOnce ==
    \A p \in Commands, c \in Credentials : \A f \in {"username", "password"} :
        commands[p].asked[<<c, f>>] <= Cardinality(Tasks) + commands[p].failed

\* What was saved is there for the next command of the session until it is
\* cleaned (agents/reference/context-config.md, rule 21).
SavedIsThere == kept \subseteq DOMAIN sessionFile

\* A command started after a cleaning takes no value from before it
\* (agents/reference/context-config.md, rule 22).
CleanedIsGone ==
    \A p \in Commands : \A r \in commands[p].results : \A i \in 1..2 :
        (r.values[i].by \in Commands /\ r.values[i].by # p) => r.values[i].at = commands[p].since

\* A command never answers for one credential with what was entered for another,
\* asks for a field once, finds what an earlier command of the session saved, and
\* nothing from before a cleaning (package promptauth).
SessionFaithful == NoMixingInCommand /\ AskedOnce /\ SavedIsThere /\ CleanedIsGone

\* A session ends with a cleaning the user asked for or with its shell
\* (sessionReuseScope tells the user so).
SessionIsShells == cleans.by \in {"nobody", "user", "shell"}
=============================================================================
