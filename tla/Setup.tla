------------------------------- MODULE Setup -------------------------------
(***************************************************************************)
(* Setting the server up: the questions and statements of --init           *)
(* (InitIface), the two console options that change a setting, and the     *)
(* start of the server (main, reloadSettings, SSNFSServer).  --init may be *)
(* run again on a database in use, and may end anywhere: each statement    *)
(* commits on its own.  While it runs nobody else changes the database.    *)
(* What fails stops it only where the code looks: not for the certificate, *)
(* the settings, the log categories, the user and the role.                *)
(*                                                                         *)
(* A file is what it holds and, for a key and its certificate, the pair it *)
(* belongs to.  The script config.sql leaves foreign keys on, so replacing *)
(* a user takes the user's roles and shares along, and fails when the user *)
(* has a computer, registered or pending (Clients and Pending_Clients      *)
(* refer to Users without a cascade).                                      *)
(***************************************************************************)
EXTENDS Integers, FiniteSets

CONSTANTS KeyPaths,   \* files for keys and certificates
          Emails, Passwords, Logs,
          Ports,      \* ports that the wizard accepts, 0 among them
          None,
          MaxRuns,    \* bound on the runs of --init
          MaxConsole  \* bound on the console options and on what the panel does

ASSUME SetupAssumption ==
  /\ Ports \subseteq 0..65535 /\ MaxRuns \in Nat /\ MaxConsole \in Nat
  /\ None \notin KeyPaths \cup Emails \cup Logs \cup ({"pkey", "cert"} \X KeyPaths)
  /\ "file" \notin KeyPaths

VARIABLES
  files,           \* what each path holds
  settings,        \* PrivateKeySource, PrivateKeyFilePath, CertificatePath, ListenPort
  dbMade,          \* the script has run
  log, logCats,    \* location of the log "Default"; it has its categories
  users,           \* e-mail address to key and password
  admins, seq,     \* keys with the role Administrator; the sequence of Users
  hasShare, hasClient,   \* keys that User_Shares and Clients refer to
  ini, pc, said,   \* answers and progress of --init, and what it printed
  passed,          \* what failed in this run of --init and was passed over (history)
  srv,             \* what the running server loaded
  set,             \* the last console option
  runs, uses       \* counters for the bounds

db   == <<settings, dbMade, log, logCats, users, admins, seq, hasShare, hasClient>>
setupVars == <<files, db, ini, pc, said, passed, srv, set, runs, uses>>

NoUser == [key |-> 0, pw |-> None]
Down   == [up |-> FALSE, key |-> None, cert |-> None, port |-> 0]
KeyOf(g)  == <<"key", g>>
CertOf(g) == <<"cert", g>>

SetupInit ==
  /\ files \in [KeyPaths -> {<<"none", 0>>, <<"other", 0>>, KeyOf(0), CertOf(0)}]
  /\ settings = [src |-> "file", key |-> None, cert |-> None, port |-> 2050]
  /\ dbMade = FALSE /\ log = None /\ logCats = FALSE
  /\ users = [e \in Emails |-> NoUser] /\ admins = {} /\ seq = 0
  /\ hasShare = {} /\ hasClient = {}
  /\ ini = None /\ pc = "off" /\ said = {} /\ passed = {} /\ srv = Down /\ set = None
  /\ runs = 0 /\ uses = 0

-----------------------------------------------------------------------------
(* --init                                                                  *)
Step(from, to) == pc = from /\ pc' = to
Asked == UNCHANGED <<ini, srv, set, runs, uses>>

\* An existing file need only exist; a new one may replace any other.
Answers == [new : BOOLEAN, cert : KeyPaths, key : KeyPaths, port : Ports,
            email : Emails, pw : Passwords, log : Logs]
Answer(a) ==
  /\ pc = "off" /\ runs < MaxRuns
  /\ a.new \/ (files[a.cert][1] # "none" /\ files[a.key][1] # "none")
  /\ ini' = a /\ pc' = (IF a.new THEN "writeKey" ELSE "ask")
  /\ said' = {} /\ passed' = {} /\ runs' = runs + 1 /\ set' = None
  /\ UNCHANGED <<files, db, srv, uses>>

\* A file that could not be opened for writing, or not be written to its end.
Spoilt(p) == files' \in {files, [files EXCEPT ![p] = <<"other", 0>>]}

\* The new pair is written before the wizard asks whether to go on.  When no key
\* is generated nothing is written; when the key is not written the certificate
\* still is, and then the program ends.
WriteKey ==
  /\ pc = "writeKey"
  /\ \/ pc' = "writeCert" /\ files' = [files EXCEPT ![ini.key] = KeyOf(runs)]
     \/ pc' = "writeCertBad" /\ Spoilt(ini.key)
     \/ pc' = "off" /\ UNCHANGED files
  /\ UNCHANGED <<db, said, passed>> /\ Asked
\* `ret` holds what came of the key only
WriteCert ==
  /\ Step("writeCert", "ask") \/ Step("writeCertBad", "off")
  /\ \/ files' = [files EXCEPT ![ini.cert] = CertOf(runs)] /\ UNCHANGED passed
     \/ Spoilt(ini.cert) /\ passed' = passed \cup {"cert"}
  /\ UNCHANGED <<db, said>> /\ Asked

\* The answer is no, the database or the log cannot be made, or the program is
\* stopped.
Quit ==
  /\ pc # "off" /\ pc' = "off"
  /\ UNCHANGED <<files, db, ini, said, passed, srv, set, runs, uses>>

\* config.sql makes and fills the tables that are not there yet
RunScript ==
  /\ Step("ask", "addLog") /\ dbMade' = TRUE
  /\ UNCHANGED <<files, settings, log, logCats, users, admins, seq, hasShare, hasClient, said, passed>> /\ Asked

\* INSERT OR IGNORE: both the name "Default" and the location are unique
AddLog ==
  /\ Step("addLog", "addLogCat")
  /\ log' = (IF log = None THEN ini.log ELSE log)
  /\ said' = (IF log = None THEN said ELSE said \cup {"notice"})
  /\ UNCHANGED <<files, settings, dbMade, logCats, users, admins, seq, hasShare, hasClient, passed>>
  /\ Asked
\* the categories go to the log with the location that was entered
Categorised == logCats \/ log = ini.log
AddLogCat ==
  /\ Step("addLogCat", "setPort")
  /\ \/ logCats' = Categorised /\ UNCHANGED said
     \/ UNCHANGED logCats /\ said' = said \cup {"catsFailed"}
  /\ UNCHANGED <<files, settings, dbMade, log, users, admins, seq, hasShare, hasClient, passed>>
  /\ Asked

\* ServerSettings::set, once for each; what it returns is not looked at
Setting(from, to, s) ==
  /\ Step(from, to)
  /\ \/ settings' = s /\ UNCHANGED passed
     \/ UNCHANGED settings /\ passed' = passed \cup {from}
  /\ UNCHANGED <<files, dbMade, log, logCats, users, admins, seq, hasShare, hasClient, said>> /\ Asked
SetPort == Setting("setPort", "setCert", [settings EXCEPT !.port = ini.port])
SetCert == Setting("setCert", "setSource", [settings EXCEPT !.cert = ini.cert])
\* mutant: the source is left as it is
MutSetSource == Setting("setSource", "setKey", settings)
SetSource == Setting("setSource", "setKey", [settings EXCEPT !.src = "file"])
SetKey == Setting("setKey", "addUser", [settings EXCEPT !.key = ini.key])

Cascade(rows, k) == rows \ {k}
\* INSERT OR REPLACE INTO Users
AddUser ==
  /\ Step("addUser", "addRole")
  /\ LET old == users[ini.email].key
     IN  \/ said' = said \cup {"userFailed"} /\ UNCHANGED <<users, admins, seq, hasShare>>
         \/ /\ old \notin hasClient
            /\ users' = [users EXCEPT ![ini.email] = [key |-> seq + 1, pw |-> ini.pw]]
            /\ seq' = seq + 1
            /\ admins' = Cascade(admins, old) /\ hasShare' = hasShare \ {old}
            /\ UNCHANGED said
  /\ UNCHANGED <<files, settings, dbMade, log, logCats, hasClient, passed>> /\ Asked
\* mutant: the key that the user had before
MutNewAdmin == IF seq > 1 THEN seq - 1 ELSE seq
\* the key is taken from sqlite_sequence
NewAdmin == seq
\* Before the first user is added sqlite_sequence has no row and the key would be
\* NULL, which the table does not take.
AddRole ==
  /\ Step("addRole", "off")
  /\ \/ /\ NewAdmin # 0 /\ admins' = admins \cup {NewAdmin}
        /\ said' = said \cup {"ready"}
     \/ UNCHANGED admins /\ said' = said \cup {"roleFailed", "ready"}
  /\ UNCHANGED <<files, settings, dbMade, log, logCats, users, seq, hasShare, hasClient, passed>>
  /\ Asked

-----------------------------------------------------------------------------
(* Other uses of the program, and of the web panel.                        *)
Use == pc = "off" /\ uses < MaxConsole /\ uses' = uses + 1
Else == UNCHANGED <<files, dbMade, log, logCats, users, admins, seq, ini, pc, said, passed, runs>>

\* --set-pkey-file and --set-cert-file report success whatever `set` returns,
\* which changes nothing without a database.
SetTo(sources, keys) ==
  /\ \E src \in sources \cup {settings.src}, key \in keys \cup {settings.key} :
       settings' = [settings EXCEPT !.src = src, !.key = key]
  /\ dbMade \/ UNCHANGED settings
SetPkeyFile(p) ==
  /\ Use /\ files[p][1] = "key" /\ set' = <<"pkey", p>>
  /\ SetTo({"file"}, {p})
  /\ UNCHANGED <<hasShare, hasClient, srv>> /\ Else
SetCertFile(p) ==
  /\ Use /\ files[p][1] = "cert" /\ set' = <<"cert", p>>
  /\ SetTo({p}, {})
  /\ UNCHANGED <<hasShare, hasClient, srv>> /\ Else
\* a user gets a share or a computer (Shares, Registration)
GiveShare(e) ==
  /\ Use /\ users[e].key # 0 /\ hasShare' = hasShare \cup {users[e].key}
  /\ UNCHANGED <<settings, hasClient, srv, set>> /\ Else
AddClient(e) ==
  /\ Use /\ users[e].key # 0 /\ hasClient' = hasClient \cup {users[e].key}
  /\ UNCHANGED <<settings, hasShare, srv, set>> /\ Else

Holds(p, kind) == p # None /\ files[p][1] = kind
\* what SSNFSServer checks before it serves; the port is not checked, since the
\* condition in main asks for a number that is none and is in range
StartOK ==
  /\ dbMade
  /\ settings.src = "file" => Holds(settings.key, "key")
  /\ Holds(settings.cert, "cert")
Start ==
  /\ Use /\ ~ srv.up /\ StartOK
  /\ srv' = [up |-> TRUE, port |-> settings.port, cert |-> files[settings.cert],
             key |-> IF settings.src = "file" THEN files[settings.key] ELSE None]
  /\ UNCHANGED <<settings, hasShare, hasClient, set>> /\ Else
StartRefused ==
  /\ Use /\ ~ srv.up /\ ~ StartOK
  /\ UNCHANGED <<settings, hasShare, hasClient, srv, set>> /\ Else
Stop ==
  /\ Use /\ srv.up /\ srv' = Down
  /\ UNCHANGED <<settings, hasShare, hasClient, set>> /\ Else

SetupNext ==
  \/ \E a \in Answers : Answer(a)
  \/ WriteKey \/ WriteCert \/ Quit \/ RunScript \/ AddLog \/ AddLogCat
  \/ SetPort \/ SetCert \/ SetSource \/ SetKey \/ AddUser \/ AddRole
  \/ \E p \in KeyPaths : SetPkeyFile(p) \/ SetCertFile(p)
  \/ \E e \in Emails : GiveShare(e) \/ AddClient(e)
  \/ Start \/ StartRefused \/ Stop
SetupSpec == SetupInit /\ [][SetupNext]_setupVars

-----------------------------------------------------------------------------
Ready == pc = "off" /\ "ready" \in said

SetupTypeOK ==
  /\ files \in [KeyPaths -> {<<"none", 0>>, <<"other", 0>>}
                           \cup {KeyOf(g) : g \in 0..MaxRuns} \cup {CertOf(g) : g \in 0..MaxRuns}]
  /\ settings.src \in KeyPaths \cup {"file"} /\ settings.port \in Ports \cup {2050}
  /\ settings.key \in KeyPaths \cup {None} /\ settings.cert \in KeyPaths \cup {None}
  /\ \A e \in Emails : users[e].key \in 0..seq
  /\ admins \cup hasShare \cup hasClient \subseteq 1..seq
  /\ said \subseteq {"notice", "catsFailed", "userFailed", "roleFailed", "ready"}
  /\ passed \subseteq {"cert", "setPort", "setCert", "setSource", "setKey"} /\ log \in Logs \cup {None}

\* After --init has made a new pair under two names and come to its end, the new
\* key is in its file; and if neither the certificate nor one of the three
\* settings failed and was passed over, the server starts with that pair,
\* whatever earlier runs left in the files and settings, until a console option
\* changes the settings.
NewPairServed ==
  Ready /\ ini.new /\ ini.cert # ini.key =>
    /\ files[ini.key] = KeyOf(runs)
    /\ passed \subseteq {"setPort"} =>
         /\ StartOK
         /\ set = None => /\ settings.src = "file"
                          /\ files[settings.key] = KeyOf(runs)
                          /\ files[settings.cert] = CertOf(runs)

\* After --init the user that was entered exists with that password, unless the
\* statement failed, and is administrator, unless that failed; the program said
\* so then.  No role is left to a user that is gone, though each run gives the
\* role to the last key of the sequence whether or not it could add its user.
AdminAsEntered ==
  /\ Ready /\ "userFailed" \notin said =>
       /\ users[ini.email] = [key |-> seq, pw |-> ini.pw]
       /\ "roleFailed" \notin said => seq \in admins
  /\ admins \subseteq {users[e].key : e \in Emails}

\* "Your SSNFS server is now ready for use."  Not so when the certificate or a
\* setting failed and was passed over, with files that exist and are no key pair,
\* or with one path for both.
ReadyServerStarts == Ready /\ set = None => StartOK

\* The key and the certificate that the server loads belong together.  Not so:
\* files that exist are not compared, and in a new pair the certificate is
\* written also when the key could not be, over one that the server still uses.
ServesAPair == srv.up /\ srv.key # None => srv.key[2] = srv.cert[2]

\* "Notice: Did not add new log output, since one to this location already
\* exists."  Not so for a new location of the same name.
NoticeIsTrue == "notice" \in said => log = ini.log

\* "--set-cert-file=<path>      Set server certificate to the specified file."
\* Not so: the option sets the source of the private key.
CertFileIsSet == \A p \in KeyPaths : dbMade /\ set = <<"cert", p>> => settings.cert = p

\* "Listen port in config DB is not a valid port number.": the server does not
\* run on port 0.  Not so: the condition is never true.
RunsOnValidPort == srv.up => srv.port > 0
=============================================================================
