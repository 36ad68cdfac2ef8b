------------------------------ MODULE Redirector ------------------------------
(***************************************************************************)
(* The redirector (src/bin/redirector.py): connections that the captive    *)
(* portal intercepts are elements of an nft set.  Each packet that nflog   *)
(* hands over adds or removes its connection, through the standard input   *)
(* of an interactive nft process, and then removes the connections that    *)
(* are live for too long.  The nft process may die; the elements are in    *)
(* the kernel and outlive it and the redirector.                           *)
(***************************************************************************)
EXTENDS Naturals

CONSTANTS
    Conn,           \* connections: source and destination, with ports
    RedirExpiry,    \* REDIRECTION_EXPIRY
    MaxCommands,    \* commands an nft process is given, 100 in the code
    MaxRdTime,      \* bound: ticks of the clock
    MaxDeaths,      \* bound: deaths of nft processes
    MaxRdRestarts   \* bound: restarts of the redirector by systemd

ASSUME RedirectorAssumption ==
    RedirExpiry \in Nat /\ MaxCommands \in Nat \ {0} /\ MaxRdTime \in Nat

VARIABLES
    live,           \* live_redirections: when each was set up, 0 if it is not there
    elements,       \* elements of ip_conn2mark and ip6_conn2mark
    nftAlive,       \* the nft process reads its standard input
    cmdCount,       \* cmd_count
    rdClock,
    rdTodo,         \* connections do_cleanup has still to remove
    handledAt,      \* when a packet was last handled to its end
    lost,           \* history: elements that are in no table of the redirector:
                    \* it restarted, or nft was dead when they were removed
    deaths, rdRestarts

rdVars == <<live, elements, nftAlive, cmdCount, rdClock, rdTodo, handledAt, lost, deaths, rdRestarts>>

RedirectorInit ==
    /\ live = [c \in Conn |-> 0] /\ elements = {}
    /\ nftAlive = TRUE /\ cmdCount = 0 /\ rdClock = 1
    /\ rdTodo = {} /\ handledAt = 0 /\ lost = {}
    /\ deaths = 0 /\ rdRestarts = 0

Live == {c \in Conn : live[c] # 0}

\* After more than MaxCommands commands the process is replaced.
CountCommand == cmdCount' = IF cmdCount + 1 > MaxCommands THEN 0 ELSE cmdCount + 1

\* do_redirect; done is whether it returns.  The table changes first.  When the
\* process is dead the command is an IOError, restart_nft_process writes quit
\* to the same pipe, and that IOError leaves do_redirect: the code never comes
\* to its second try.
do_redirect(c, action, done) ==
    LET told == action = "add" \/ c \in Live IN
    /\ live' = [live EXCEPT ![c] = IF action = "add" THEN rdClock ELSE 0]
    /\ IF told /\ nftAlive
       THEN elements' = (IF action = "add" THEN elements \cup {c} ELSE elements \ {c}) /\ CountCommand
       ELSE UNCHANGED <<elements, cmdCount>>
    /\ lost' = IF action = "add" \/ (told /\ nftAlive) THEN lost \ {c}
               ELSE IF told THEN lost \cup ({c} \cap elements) ELSE lost
    /\ done <=> (nftAlive \/ ~told)
    /\ UNCHANGED <<nftAlive, rdClock, deaths, rdRestarts>>

\* Mutant of Overdue: off by one tick.
OverdueLate(at) == {c \in Conn : at[c] # 0 /\ at[c] + RedirExpiry + 1 < rdClock}

\* The redirections that are live for longer than the expiry.
Overdue(at) == {c \in Conn : at[c] # 0 /\ at[c] + RedirExpiry < rdClock}

\* process_packet: the packet's connection, then do_cleanup.  An exception is
\* reported and ends the handling of the packet.
Handle(c, action, rest) ==
    \E done \in BOOLEAN :
       /\ do_redirect(c, action, done)
       /\ rdTodo' = IF done THEN rest ELSE {}
       /\ handledAt' = IF done /\ rest = {} THEN rdClock ELSE handledAt

process_packet(c, action) ==
    /\ rdTodo = {}
    /\ Handle(c, action, Overdue([live EXCEPT ![c] = IF action = "add" THEN rdClock ELSE 0]))

do_cleanup(c) == c \in rdTodo /\ Handle(c, "remove", rdTodo \ {c})

----------------------------------------------------------------------------
NftDies ==
    /\ nftAlive /\ deaths < MaxDeaths
    /\ nftAlive' = FALSE /\ deaths' = deaths + 1
    /\ UNCHANGED <<live, elements, cmdCount, rdClock, rdTodo, handledAt, lost, rdRestarts>>

RedirectorRestart ==
    /\ rdRestarts < MaxRdRestarts /\ rdRestarts' = rdRestarts + 1
    /\ live' = [c \in Conn |-> 0] /\ lost' = elements
    /\ nftAlive' = TRUE /\ cmdCount' = 0 /\ rdTodo' = {}
    /\ UNCHANGED <<elements, rdClock, handledAt, deaths>>

\* A packet is handled at once.
RdTick ==
    /\ rdTodo = {} /\ rdClock < MaxRdTime
    /\ rdClock' = rdClock + 1
    /\ UNCHANGED <<live, elements, nftAlive, cmdCount, rdTodo, handledAt, lost, deaths, rdRestarts>>

RedirectorNext ==
    \/ \E c \in Conn, action \in {"add", "remove"} : process_packet(c, action)
    \/ \E c \in Conn : do_cleanup(c)
    \/ NftDies \/ RedirectorRestart \/ RdTick

RedirectorSpec == RedirectorInit /\ [][RedirectorNext]_rdVars

----------------------------------------------------------------------------
(* Properties *)

\* A connection is redirected no longer than the expiry once a later packet was
\* handled, whatever nft process its commands went to: the table has every
\* element of the kernel's set, with a date that is recent.  Not the elements
\* whose removal met a dead process, nor those of before a restart: nothing
\* removes these.
RedirectionsExpire ==
    rdTodo = {} =>
       \A c \in elements \ lost : c \in Live /\ live[c] + RedirExpiry >= handledAt
=============================================================================
