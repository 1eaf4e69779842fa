---------------------------- MODULE RdkatAtspi2 ----------------------------
(***************************************************************************)
(* RDKAT_Initialize and RDKAT_Uninitialize, the objects CFactory makes for *)
(* them, and the applications that connect to the address returned.        *)
(*                                                                         *)
(* One thread calls them.  What initialize and uninitialize of the screen  *)
(* reader do on the worker is one step here, as are the accepting and the  *)
(* closing of a connection; ScreenReader and RegistryService have the       *)
(* steps between, and what goes wrong in them.  The table of clients is     *)
(* DBusClientRegistry's: it and its counter are static and outlive the     *)
(* service.                                                                *)
(***************************************************************************)
EXTENDS DBusClientRegistry

CONSTANTS
    Given,              \* the values AT_SPI_BUS_ADDRESS may have
    NoAddress,          \* it is not set; NULL
    DirBound,           \* mkdtemp makes at most so many directories
    MadeBound           \* connections accepted at most

ASSUME AddressesAssumption ==
    /\ NoAddress \notin Given
    /\ DirBound \in Nat
    /\ \A d \in 1 .. DirBound : d \notin Given /\ d # NoAddress

VARIABLES
    environment,        \* AT_SPI_BUS_ADDRESS
    dirs,               \* the directories mkdtemp made, each an address
    service,            \* the address of g_service, NoAddress for nullptr
    initialized,        \* CScreenReader::m_initialized
    listening,          \* the D-Bus server runs
    returned,           \* the static address in RDKAT_Initialize
    known,              \* the address each application was started with
    \* history
    isFirst,            \* there was no service before this one
    isFixed             \* AT_SPI_BUS_ADDRESS was not changed since the first

historyVars == <<isFirst, isFixed>>
hostVars == <<environment, dirs, service, initialized, listening, returned, historyVars>>
vars == <<registryVars, hostVars, known>>

Addresses == Given \cup 1 .. DirBound \cup {NoAddress}

TypeOK ==
    /\ RegistryTypeOK
    /\ environment \in Given \cup {NoAddress}
    /\ dirs \in 0 .. DirBound
    /\ {service, returned} \subseteq Addresses
    /\ initialized \in BOOLEAN
    /\ listening \in BOOLEAN
    /\ known \in [Connections -> Addresses]
    /\ isFirst \in BOOLEAN
    /\ isFixed \in BOOLEAN

Init ==
    /\ RegistryInit
    /\ environment \in Given \cup {NoAddress}
    /\ dirs = 0
    /\ service = NoAddress
    /\ initialized = FALSE
    /\ listening = FALSE
    /\ returned = NoAddress
    /\ known = [c \in Connections |-> NoAddress]
    /\ isFirst = TRUE
    /\ isFixed = TRUE

----------------------------------------------------------------------------
(* The host.                                                               *)

\* Mutant: the address that was given is not looked at.
CreateAtspiRegistryService_AlwaysNew ==
    /\ dirs < DirBound
    /\ dirs' = dirs + 1
    /\ service' = dirs'

\* The address given, or that of a new directory.
CreateAtspiRegistryService ==
    \/ /\ environment # NoAddress
       /\ service' = environment
       /\ UNCHANGED dirs
    \/ /\ environment = NoAddress
       /\ dirs < DirBound
       /\ dirs' = dirs + 1
       /\ service' = dirs'

\* The static variable keeps the address of the first service.
Address == IF returned = NoAddress THEN service' ELSE returned

\* Without a TTS client the reader does not start the service; with one, the
\* listeners are registered before it starts, if TTS is enabled.
InitializeReader ==
    \/ /\ initialized' = FALSE
       /\ listening' = FALSE
       /\ UNCHANGED eventListeners
    \/ /\ initialized' = TRUE
       /\ listening' \in BOOLEAN
       /\ eventListeners' \in {{}, Events}

\* With a screen reader there is nothing to do.
RDKAT_Initialize ==
    /\ service = NoAddress
    /\ CreateAtspiRegistryService
    /\ InitializeReader
    /\ returned' = Address
    /\ isFirst' = (returned = NoAddress)
    /\ UNCHANGED <<tableVars, knowledgeVars, environment, known, isFixed>>

\* Stopping the service clears the table and drops the connections.
RDKAT_Uninitialize ==
    /\ service # NoAddress
    /\ Clear
    /\ eventListeners' = {}
    /\ service' = NoAddress
    /\ initialized' = FALSE
    /\ listening' = FALSE
    /\ UNCHANGED <<environment, dirs, returned, known, historyVars>>

SetEnvironment ==
    /\ environment' \in Given \cup {NoAddress}
    /\ isFixed' = (isFixed /\ (returned = NoAddress \/ environment' = environment))
    /\ UNCHANGED <<registryVars, dirs, service, initialized, listening, returned, known,
                   isFirst>>

\* The address is passed on to an application that is started.
Launch(c) ==
    /\ service # NoAddress
    /\ c \notin clients
    /\ known' = [known EXCEPT ![c] = returned]
    /\ UNCHANGED <<registryVars, hostVars>>

----------------------------------------------------------------------------
(* The worker.                                                             *)

TTSEnabled ==
    /\ initialized
    /\ \E e \in Events : RegisterEventListener(e)
    /\ UNCHANGED <<hostVars, known>>

TTSDisabled ==
    /\ initialized
    /\ \E e \in Events : UnregisterEventListener(e)
    /\ UNCHANGED <<hostVars, known>>

OnNewConnection(c) ==
    /\ listening
    /\ known[c] = service
    /\ made < MadeBound
    /\ Add(c)
    /\ UNCHANGED <<hostVars, known>>

OnClosedConnection(c) ==
    /\ Remove(c)
    /\ UNCHANGED <<hostVars, known>>

HandleRequestName(c) ==
    /\ \E n \in Names : RequestName(c, n)
    /\ UNCHANGED <<hostVars, known>>

HandleGetRegisteredEvents(c) ==
    /\ GetRegisteredEvents(c)
    /\ UNCHANGED <<hostVars, known>>

Next ==
    \/ RDKAT_Initialize
    \/ RDKAT_Uninitialize
    \/ SetEnvironment
    \/ TTSEnabled
    \/ TTSDisabled
    \/ \E c \in Connections :
          \/ Launch(c)
          \/ OnNewConnection(c)
          \/ OnClosedConnection(c)
          \/ HandleRequestName(c)
          \/ HandleGetRegisteredEvents(c)

Spec == Init /\ [][Next]_vars

----------------------------------------------------------------------------
(* Properties.                                                             *)

\* The address RDKAT_Initialize returned is the one the service it made is
\* running on (rdkat-atspi2.h:36).
ReturnsItsAddress == listening => returned = service

\* It is for the first service, and for all of them if AT_SPI_BUS_ADDRESS is set
\* and left alone from the first on.
AddressIsServed ==
    service # NoAddress /\ (isFirst \/ (isFixed /\ environment # NoAddress)) =>
       returned = service
=============================================================================
