------------------------------- MODULE Accounts -------------------------------
(***************************************************************************)
(* The table users: sign-up and wallet sign-in (auth.service), changes of  *)
(* the profile, the wallet and the social links, and the uploaded avatars  *)
(* (profiles.service).                                                     *)
(*                                                                         *)
(* One action is one awaited call with the synchronous code behind it.  A  *)
(* row is a function from columns to values, a request names the columns   *)
(* it sets.  No account is ever deleted.                                   *)
(***************************************************************************)
EXTENDS Naturals

CONSTANTS
    Handlers,   \* request slots
    Ids,        \* primary keys
    Values,     \* what a column may hold
    Signups,    \* bodies of POST /auth/signup
    Wallets,    \* Stellar addresses
    Nickname,   \* per wallet: stellar_ and its last eight characters
    Edits,      \* changes of an account: operation and columns set
    Files,      \* new avatars: the name of the file and the path to it
    Basename,   \* the file name an avatar's address ends in
    Empty,      \* the empty string
    Null        \* also a property that is absent from a sign-up

Columns == {"email", "username", "walletAddress", "displayName", "bio",
            "avatarUrl", "socialLinks"}

\* The columns with a unique constraint.
Unique == {"email", "username", "walletAddress"}

Cell == Values \cup {Null}
Row == {r \in [Columns -> Cell] : r["username"] # Null}

\* The columns a request or an UPDATE names, with their values.
IsPatch(set) == DOMAIN set \subseteq Columns /\ set \in [DOMAIN set -> Cell]

\* A client's avatar is an https address, which may end in any name; only an
\* upload makes it a path.
ASSUME AccountsAssumption ==
    /\ Null \notin Values \cup Ids \cup Row
    /\ Wallets \cup Files \subseteq Values
    /\ Nickname \in [Wallets -> Values]
    /\ Basename \in [Cell -> Cell]
    /\ Basename[Null] = Null
    /\ \A f \in Files : Basename[f] = f
    /\ Signups \subseteq [email : Values, username : Values,
                          displayName : Cell]
    /\ \A e \in Edits :
          /\ IsPatch(e.set)
          /\ e.op = "profile" => DOMAIN e.set \subseteq
                                  {"displayName", "bio", "avatarUrl"}
          /\ e.op = "wallet" => /\ DOMAIN e.set = {"walletAddress"}
                                /\ e.set["walletAddress"] \in Wallets
          /\ e.op = "links" => DOMAIN e.set = {"socialLinks"}
          /\ e.op \in {"profile", "wallet", "links"}
          /\ \A c \in DOMAIN e.set : e.set[c] \notin Files

VARIABLES
    users,      \* the table
    files,      \* uploads/avatars
    pc,         \* per handler: the call it is suspended in
    arg,        \* per handler: the request
    user,       \* per handler: the account it changes
    held,       \* per handler: the object it modified, then its changes
    uploader,   \* history, per file name: the account it was given to
    crossed,    \* history, per handler: cells others wrote after it saw them
    apart       \* history: accounts whose file and row were let go apart

locals == <<pc, arg, user, held>>
history == <<uploader, crossed, apart>>
vars == <<users, files, locals, history>>

Label == {"idle", "email?", "username?", "wallet?", "free?", "find", "load",
          "insert", "update"}

Op == {"signup", "signin", "profile", "wallet", "links", "avatar"}

-----------------------------------------------------------------------------
(* Rows.                                                                   *)

Taken(column, value) ==
    \E u \in Ids : users[u] # Null /\ users[u][column] = value

\* Mutant of Clash: walletAddress is not unique.
ClashButWallet(row, id) ==
    \E u \in Ids \ {id}, c \in Unique \ {"walletAddress"} :
        users[u] # Null /\ row[c] # Null /\ users[u][c] = row[c]

\* A unique constraint refuses the row, as a new one (id = Null) or in place
\* of the account's.
Clash(row, id) ==
    \E u \in Ids \ {id}, c \in Unique :
        users[u] # Null /\ row[c] # Null /\ users[u][c] = row[c]

\* The row with the columns of the patch set.
Edit(row, set) ==
    [c \in Columns |-> IF c \in DOMAIN set THEN set[c] ELSE row[c]]

Truthy(value) == value \notin {Null, Empty}

\* The columns a request sets of those it names: a display name has to be
\* truthy, any other column only has to be there.
Given(set) ==
    [c \in {d \in DOMAIN set : d = "displayName" => Truthy(set[d])} |-> set[c]]

\* Mutant of NewAccount: an account gets no name of its own.
NewAccountNameless(set) ==
    Edit([c \in Columns |-> Null], [set EXCEPT !["username"] = Null])

NewAccount(set) == Edit([c \in Columns |-> Null], set)

\* What save() puts in its UPDATE: the columns in which the object differs
\* from the row it has just read.
Changes(object, row) ==
    [c \in {d \in Columns : object[d] # row[d]} |-> object[c]]

-----------------------------------------------------------------------------
(* How a handler moves.                                                    *)

Enter(p, label, request, u) ==
    /\ pc[p] = "idle"
    /\ pc' = [pc EXCEPT ![p] = label]
    /\ arg' = [arg EXCEPT ![p] = request]
    /\ user' = [user EXCEPT ![p] = u]
    /\ UNCHANGED <<users, files, held, crossed, apart>>

Goto(p, label) ==
    /\ pc' = [pc EXCEPT ![p] = label]
    /\ UNCHANGED <<arg, user>>

\* The handler answers, with a result or an exception.
Leave(p) ==
    /\ pc' = [pc EXCEPT ![p] = "idle"]
    /\ arg' = [arg EXCEPT ![p] = Null]
    /\ user' = [user EXCEPT ![p] = Null]
    /\ held' = [held EXCEPT ![p] = Null]

\* History: the columns of account u that q relies on as it saw them, in a
\* look-up or in the row it changes.
Seen(q, u) ==
    (IF \/ pc[q] \in {"username?", "insert"}
        \/ pc[q] \in {"find", "load", "update"} /\ arg[q].op = "wallet"
     THEN Unique ELSE {})
    \cup
    (IF pc[q] \in {"load", "update"} /\ user[q] = u THEN Columns ELSE {})

\* History: p ends, and has written the columns C of account u.
Note(p, u, C) ==
    crossed' = [q \in Handlers |->
                  IF q = p THEN {} ELSE crossed[q] \cup ({u} \X (C \cap Seen(q, u)))]

Forget(p) == crossed' = [crossed EXCEPT ![p] = {}]

\* An upload that has replaced the file and not yet saved the row.
Uploading(p) == pc[p] \in {"load", "update"} /\ arg[p].op = "avatar"

\* The handler ends without saving what it holds.
Abandon(p) ==
    /\ Leave(p)
    /\ Forget(p)
    /\ apart' = IF Uploading(p) THEN apart \cup {user[p]} ELSE apart
    /\ UNCHANGED <<users, files, uploader>>

-----------------------------------------------------------------------------
(* Sign-up and wallet sign-in.                                             *)

Signup(p, s) ==
    LET name == IF Truthy(s.displayName) THEN s.displayName ELSE s.username IN
    /\ Enter(p, "email?", [op |-> "signup",
                           set |-> [s EXCEPT !.displayName = name]], Null)
    /\ UNCHANGED uploader

SignupFindEmail(p) ==
    /\ pc[p] = "email?"
    /\ \/ Taken("email", arg[p].set["email"]) /\ Abandon(p)
       \/ /\ ~Taken("email", arg[p].set["email"])
          /\ Goto(p, "username?")
          /\ UNCHANGED <<users, files, held, history>>

\* Mutant of SignupFindUsername: the name is not looked up.
SignupSkipUsername(p) ==
    /\ pc[p] = "username?"
    /\ Goto(p, "insert")
    /\ UNCHANGED <<users, files, held, history>>

SignupFindUsername(p) ==
    /\ pc[p] = "username?"
    /\ \/ Taken("username", arg[p].set["username"]) /\ Abandon(p)
       \/ /\ ~Taken("username", arg[p].set["username"])
          /\ Goto(p, "insert")
          /\ UNCHANGED <<users, files, held, history>>

\* Both names are made of the end of the address.
ValidateStellarUser(p, w) ==
    /\ Enter(p, "wallet?", [op |-> "signin",
                            set |-> [walletAddress |-> w,
                                     username |-> Nickname[w],
                                     displayName |-> Nickname[w]]], Null)
    /\ UNCHANGED uploader

\* A wallet that has an account is signed in, another gets one.
FindWallet(p) ==
    /\ pc[p] = "wallet?"
    /\ \/ Taken("walletAddress", arg[p].set["walletAddress"]) /\ Abandon(p)
       \/ /\ ~Taken("walletAddress", arg[p].set["walletAddress"])
          /\ Goto(p, "insert")
          /\ UNCHANGED <<users, files, held, history>>

\* The password has been hashed; a violated constraint is an exception.
InsertUser(p) ==
    /\ pc[p] = "insert"
    /\ LET row == NewAccount(arg[p].set) IN
       \/ Clash(row, Null) /\ Abandon(p)
       \/ /\ ~Clash(row, Null)
          /\ \E u \in Ids :
                /\ users[u] = Null
                /\ users' = [users EXCEPT ![u] = row]
                /\ Note(p, u, Columns)
          /\ Leave(p)
          /\ UNCHANGED <<files, uploader, apart>>

-----------------------------------------------------------------------------
(* Changes of an account.                                                  *)

UpdateProfile(p, u, e) ==
    /\ users[u] # Null
    /\ e.op = "profile"
    /\ Enter(p, "find", e, u)
    /\ UNCHANGED uploader

UpdateSocialLinks(p, u, e) ==
    /\ users[u] # Null
    /\ e.op = "links"
    /\ Enter(p, "find", e, u)
    /\ UNCHANGED uploader

UpdateWalletAddress(p, u, e) ==
    /\ users[u] # Null
    /\ e.op = "wallet"
    /\ Enter(p, "free?", e, u)
    /\ UNCHANGED uploader

FindWalletOwner(p) ==
    /\ pc[p] = "free?"
    /\ LET linked == \E u \in Ids \ {user[p]} :
                        /\ users[u] # Null
                        /\ users[u]["walletAddress"]
                              = arg[p].set["walletAddress"] IN
       \/ linked /\ Abandon(p)
       \/ /\ ~linked
          /\ Goto(p, "find")
          /\ UNCHANGED <<users, files, held, history>>

\* f is the name the new file will be given.
UploadAvatar(p, u, f) ==
    /\ users[u] # Null
    /\ uploader[f] = Null
    /\ Enter(p, "find", [op |-> "avatar", set |-> [avatarUrl |-> f]], u)
    /\ uploader' = [uploader EXCEPT ![f] = u]

\* Mutant of Replace: the old avatar is left where it is.
ReplaceKeepingOld(old, new) == files \cup {new}

\* The file the old address ends in is deleted, if there is one of that name,
\* and the new one is written.
Replace(old, new) == (files \ {Basename[old]}) \cup {new}

\* History: the account that loses its file because an address that is not
\* the file's own path ends in its name.
Robbed(old) ==
    {uploader[f] : f \in {g \in files : g = Basename[old] /\ g # old}}

\* Mutant of FindUser: a display name only has to be there, like a bio.
FindUserUntested(p) ==
    /\ pc[p] = "find"
    /\ LET row == users[user[p]]  set == arg[p].set IN
       /\ held' = [held EXCEPT ![p] = Edit(row, set)]
       /\ files' = IF arg[p].op = "avatar"
                   THEN Replace(row["avatarUrl"], set["avatarUrl"])
                   ELSE files
       /\ apart' = IF arg[p].op = "avatar"
                   THEN apart \cup Robbed(row["avatarUrl"])
                   ELSE apart
    /\ Goto(p, "load")
    /\ UNCHANGED <<users, uploader, crossed>>

\* The account is read and modified; an upload replaces the file first.
FindUser(p) ==
    /\ pc[p] = "find"
    /\ LET row == users[user[p]]  set == arg[p].set IN
       /\ held' = [held EXCEPT ![p] = Edit(row, Given(set))]
       /\ files' = IF arg[p].op = "avatar"
                   THEN Replace(row["avatarUrl"], set["avatarUrl"])
                   ELSE files
       /\ apart' = IF arg[p].op = "avatar"
                   THEN apart \cup Robbed(row["avatarUrl"])
                   ELSE apart
    /\ Goto(p, "load")
    /\ UNCHANGED <<users, uploader, crossed>>

\* The old file is deleted and the new one cannot be written.
WriteFileFails(p) ==
    /\ pc[p] = "find"
    /\ arg[p].op = "avatar"
    /\ LET old == users[user[p]]["avatarUrl"] IN
       /\ files' = files \ {Basename[old]}
       /\ apart' = apart \cup {user[p]} \cup Robbed(old)
    /\ Leave(p)
    /\ Forget(p)
    /\ UNCHANGED <<users, uploader>>

\* save() reads the row again; it is done when nothing differs.
SaveLoad(p) ==
    /\ pc[p] = "load"
    /\ LET changes == Changes(held[p], users[user[p]]) IN
       IF DOMAIN changes = {}
       THEN Leave(p) /\ Forget(p)
       ELSE /\ held' = [held EXCEPT ![p] = changes]
            /\ Goto(p, "update")
            /\ UNCHANGED crossed
    /\ UNCHANGED <<users, files, uploader, apart>>

\* History: p writes an avatar that somebody else has written meanwhile, or
\* an address in place of an uploaded file.
LetApart(p) ==
    /\ "avatarUrl" \in DOMAIN held[p]
    /\ \/ <<user[p], "avatarUrl">> \in crossed[p]
       \/ arg[p].op # "avatar" /\ users[user[p]]["avatarUrl"] \in Files

SaveUpdate(p) ==
    /\ pc[p] = "update"
    /\ LET u == user[p]  row == Edit(users[user[p]], held[p]) IN
       \/ Clash(row, u) /\ Abandon(p)
       \/ /\ ~Clash(row, u)
          /\ users' = [users EXCEPT ![u] = row]
          /\ Note(p, u, DOMAIN held[p])
          /\ apart' = IF LetApart(p) THEN apart \cup {u} ELSE apart
          /\ Leave(p)
          /\ UNCHANGED <<files, uploader>>

\* A call to the database throws, the client goes away, or the process stops.
Fail(p) == pc[p] # "idle" /\ Abandon(p)

-----------------------------------------------------------------------------
Init ==
    /\ users = [u \in Ids |-> Null]
    /\ files = {}
    /\ pc = [p \in Handlers |-> "idle"]
    /\ arg = [p \in Handlers |-> Null]
    /\ user = [p \in Handlers |-> Null]
    /\ held = [p \in Handlers |-> Null]
    /\ uploader = [f \in Files |-> Null]
    /\ crossed = [p \in Handlers |-> {}]
    /\ apart = {}

Handle(p) ==
    \/ \E s \in Signups : Signup(p, s)
    \/ SignupFindEmail(p)
    \/ SignupFindUsername(p)
    \/ \E w \in Wallets : ValidateStellarUser(p, w)
    \/ FindWallet(p)
    \/ InsertUser(p)
    \/ \E u \in Ids, e \in Edits : \/ UpdateProfile(p, u, e)
                                   \/ UpdateSocialLinks(p, u, e)
                                   \/ UpdateWalletAddress(p, u, e)
    \/ FindWalletOwner(p)
    \/ \E u \in Ids, f \in Files : UploadAvatar(p, u, f)
    \/ FindUser(p)
    \/ WriteFileFails(p)
    \/ SaveLoad(p)
    \/ SaveUpdate(p)
    \/ Fail(p)

Next == \E p \in Handlers : Handle(p)

Spec == Init /\ [][Next]_vars

-----------------------------------------------------------------------------
TypeOK ==
    /\ users \in [Ids -> Row \cup {Null}]
    /\ files \subseteq Files
    /\ pc \in [Handlers -> Label]
    /\ DOMAIN arg = Handlers
    /\ DOMAIN held = Handlers
    /\ \A p \in Handlers :
          /\ arg[p] # Null => arg[p].op \in Op /\ IsPatch(arg[p].set)
          /\ held[p] # Null => IsPatch(held[p])
    /\ user \in [Handlers -> Ids \cup {Null}]
    /\ uploader \in [Files -> Ids \cup {Null}]
    /\ crossed \in [Handlers -> SUBSET (Ids \X Columns)]
    /\ apart \subseteq Ids

\* One account per e-mail address, user name and wallet, also when sign-ups,
\* sign-ins, links and stale saves overlap.
OneAccountPerKey ==
    \A u, v \in Ids, c \in Unique :
        /\ u # v
        /\ users[u] # Null
        /\ users[v] # Null
        /\ users[u][c] # Null
        => users[u][c] # users[v][c]

\* The account has the user name a wallet account would get.
Namesake(p) == arg[p].op = "signin" /\ Taken("username", arg[p].set["username"])

\* The look-ups are enough by themselves: a request that nobody crossed in a
\* unique column is answered as they say and meets no constraint (which would
\* answer 500 and not 409), unless it signs in a wallet whose ending another
\* account has for its name.
ConflictIsForeseen ==
    \A p \in Handlers :
        (\A cell \in crossed[p] : cell[2] \notin Unique) =>
            /\ pc[p] = "insert" =>
                  ~Clash(NewAccount(arg[p].set), Null) \/ Namesake(p)
            /\ pc[p] = "update" =>
                  ~Clash(Edit(users[user[p]], held[p]), user[p])

\* An update changes what it was asked to change and nothing else, column by
\* column, except for the columns that another request has written since.  An
\* empty display name asks for nothing: the code cannot clear that column, as
\* it can the others with null.
ChangesAsAsked ==
    [][\A p \in Handlers :
          pc[p] = "update" /\ pc'[p] = "idle" /\ users' # users =>
              \A c \in Columns :
                  <<user[p], c>> \notin crossed[p] =>
                      users'[user[p]][c] =
                          Edit(users[user[p]], Given(arg[p].set))[c]]_vars

\* issues.md, 'Old avatar is deleted when a new one is uploaded': a profile
\* shows a picture that is there, and a picture that is there is shown, unless
\* an upload is under way, one has failed half way, two writes of the avatar
\* have crossed, an address replaced an uploaded picture, or an account whose
\* address ends in the picture's name has uploaded another.
AvatarsMatchFiles ==
    /\ \A u \in Ids \ apart :
          users[u] # Null /\ users[u]["avatarUrl"] \in Files \ files =>
              \E p \in Handlers : user[p] = u /\ Uploading(p)
    /\ \A f \in files :
          LET u == uploader[f] IN
          /\ u # Null
          /\ users[u] # Null
          /\ \/ u \in apart
             \/ users[u]["avatarUrl"] = f
             \/ \E p \in Handlers :
                   Uploading(p) /\ arg[p].set["avatarUrl"] = f
=============================================================================
