---------------------------- MODULE AccountsProofs ----------------------------
(***************************************************************************)
(* Proofs about Accounts, for any number of handlers, accounts, names,     *)
(* wallets and files.                                                      *)
(***************************************************************************)
EXTENDS Accounts, TLAPS

Changing == {"find", "load", "update"}
Saving == {"load", "update"}

\* What is known of a handler by the call it is suspended in.
ReadyAt(p) ==
    /\ pc[p] = "idle" => crossed[p] = {}
    /\ pc[p] # "idle" => arg[p].op \in Op /\ IsPatch(arg[p].set)
    /\ pc[p] \in {"email?", "username?"} =>
          /\ arg[p].op = "signup"
          /\ DOMAIN arg[p].set = {"email", "username", "displayName"}
    /\ pc[p] = "wallet?" =>
          /\ arg[p].op = "signin"
          /\ DOMAIN arg[p].set = {"walletAddress", "username", "displayName"}
    /\ pc[p] = "insert" =>
          \/ /\ arg[p].op = "signup"
             /\ DOMAIN arg[p].set = {"email", "username", "displayName"}
          \/ /\ arg[p].op = "signin"
             /\ DOMAIN arg[p].set = {"walletAddress", "username", "displayName"}
    /\ pc[p] \in {"email?", "username?", "wallet?", "insert"} =>
          \A c \in DOMAIN arg[p].set : arg[p].set[c] \in Values
    /\ pc[p] \in Changing \cup {"free?"} =>
          /\ user[p] \in Ids
          /\ users[user[p]] # Null
          /\ DOMAIN arg[p].set
                \subseteq {"walletAddress", "displayName", "bio", "avatarUrl",
                           "socialLinks"}
          /\ "walletAddress" \in DOMAIN arg[p].set => arg[p].op = "wallet"
          /\ arg[p].op = "avatar" =>
                /\ DOMAIN arg[p].set = {"avatarUrl"}
                /\ arg[p].set["avatarUrl"] \in Files
                /\ uploader[arg[p].set["avatarUrl"]] = user[p]
          /\ arg[p].op # "avatar" =>
                \A c \in DOMAIN arg[p].set : arg[p].set[c] \notin Files
    /\ pc[p] = "free?" => "walletAddress" \in DOMAIN arg[p].set
    /\ pc[p] = "load" => held[p] \in Row
    /\ pc[p] = "update" =>
          /\ IsPatch(held[p])
          /\ "username" \in DOMAIN held[p] => held[p]["username"] # Null

Ready == \A p \in Handlers : ReadyAt(p)

\* Nobody has crossed p in a unique column.
Uncrossed(p) == \A cell \in crossed[p] : cell[2] \notin Unique

\* What the look-ups have established, unless somebody has crossed p.
LookedAt(p) ==
    LET set == arg[p].set IN
    Uncrossed(p) =>
        /\ pc[p] = "username?" => ~Taken("email", set["email"])
        /\ pc[p] = "insert" /\ arg[p].op = "signup" =>
              ~Taken("email", set["email"]) /\ ~Taken("username", set["username"])
        /\ pc[p] = "insert" /\ arg[p].op = "signin" =>
              ~Taken("walletAddress", set["walletAddress"])
        /\ pc[p] \in Changing /\ "walletAddress" \in DOMAIN set =>
              \A v \in Ids \ {user[p]} :
                  users[v] # Null =>
                      users[v]["walletAddress"] # set["walletAddress"]

Looked == \A p \in Handlers : LookedAt(p)

\* The calls in which a handler relies on a look-up.
Looking(p) ==
    \/ pc[p] \in {"username?", "insert"}
    \/ pc[p] \in {"find", "load", "update"} /\ arg[p].op = "wallet"

\* In a column that nobody has crossed, a save sets what was asked.
FaithfulAt(p) ==
    \A c \in Columns :
        <<user[p], c>> \notin crossed[p] =>
            /\ pc[p] = "load" =>
                  held[p][c] = Edit(users[user[p]], Given(arg[p].set))[c]
            /\ pc[p] = "update" =>
                  Edit(users[user[p]], held[p])[c]
                      = Edit(users[user[p]], Given(arg[p].set))[c]

Faithful == \A p \in Handlers : FaithfulAt(p)

\* A file belongs to the account it was given to, wherever it is named.
Owned ==
    /\ \A u \in Ids :
          users[u] # Null /\ users[u]["avatarUrl"] \in Files =>
              uploader[users[u]["avatarUrl"]] = u
    /\ \A p \in Handlers :
          /\ pc[p] \in Saving
          /\ "avatarUrl" \in DOMAIN held[p]
          /\ held[p]["avatarUrl"] \in Files
          => uploader[held[p]["avatarUrl"]] = user[p]

\* The file of an upload under way is named by that upload alone.
Carrying(p) == pc[p] \in Changing /\ arg[p].op = "avatar"

CarriesAt(p) ==
    LET f == arg[p].set["avatarUrl"] IN
    Carrying(p) =>
        /\ \A u \in Ids : users[u] # Null => users[u]["avatarUrl"] # f
        /\ \A q \in Handlers \ {p} :
              /\ Carrying(q) => arg[q].set["avatarUrl"] # f
              /\ pc[q] \in Saving /\ "avatarUrl" \in DOMAIN held[q] =>
                    held[q]["avatarUrl"] # f
        /\ pc[p] = "find" => f \notin files
        /\ pc[p] \in Saving =>
              /\ user[p] \notin apart => f \in files
              /\ "avatarUrl" \in DOMAIN held[p]
              /\ held[p]["avatarUrl"] = f
              /\ <<user[p], "avatarUrl">> \notin crossed[p] =>
                    users[user[p]]["avatarUrl"] \notin files

Carries == \A p \in Handlers : CarriesAt(p)

IInv ==
    /\ TypeOK
    /\ Ready
    /\ OneAccountPerKey
    /\ Looked
    /\ Faithful
    /\ Owned
    /\ Carries
    /\ AvatarsMatchFiles

-----------------------------------------------------------------------------
(* Rows and patches.                                                       *)

LEMMA EditCells ==
    ASSUME NEW row \in [Columns -> Cell], NEW set, IsPatch(set)
    PROVE  /\ Edit(row, set) \in [Columns -> Cell]
           /\ \A c \in DOMAIN set : c \in Columns /\ set[c] \in Cell
           /\ \A c \in Columns :
                 Edit(row, set)[c] = IF c \in DOMAIN set THEN set[c] ELSE row[c]
BY DEF Edit, IsPatch

LEMMA GivenCells ==
    ASSUME NEW set, IsPatch(set)
    PROVE  /\ IsPatch(Given(set))
           /\ DOMAIN Given(set) \subseteq DOMAIN set
           /\ \A c \in DOMAIN set \ {"displayName"} : c \in DOMAIN Given(set)
           /\ \A c \in DOMAIN Given(set) : Given(set)[c] = set[c]
BY DEF Given, IsPatch

LEMMA ChangesCells ==
    ASSUME NEW object \in [Columns -> Cell], NEW row \in [Columns -> Cell]
    PROVE  /\ IsPatch(Changes(object, row))
           /\ \A c \in Columns :
                 c \in DOMAIN Changes(object, row) <=> object[c] # row[c]
           /\ \A c \in DOMAIN Changes(object, row) :
                 c \in Columns /\ Changes(object, row)[c] = object[c]
<1> DEFINE D == {d \in Columns : object[d] # row[d]}
<1>1. Changes(object, row) \in [D -> Cell] /\ D \in SUBSET Columns
  BY DEF Changes
<1>2. DOMAIN Changes(object, row) = D
  BY DEF Changes
<1>3. \A c \in D : Changes(object, row)[c] = object[c]
  BY DEF Changes
<1> QED BY <1>1, <1>2, <1>3 DEF IsPatch

-----------------------------------------------------------------------------
LEMMA InitIInv == Init => IInv
<1> SUFFICES ASSUME Init PROVE IInv
  OBVIOUS
<1> USE DEF Init
<1>1. TypeOK
  BY DEF TypeOK, Label
<1>2. Ready
  BY DEF Ready, ReadyAt, Changing
<1>3. Looked /\ Faithful
  BY DEF Looked, LookedAt, Faithful, FaithfulAt, Changing
<1>4. Owned /\ Carries
  BY DEF Owned, Carries, CarriesAt, Carrying, Changing, Saving
<1>5. OneAccountPerKey /\ AvatarsMatchFiles
  BY DEF OneAccountPerKey, AvatarsMatchFiles
<1> QED BY <1>1, <1>2, <1>3, <1>4, <1>5 DEF IInv

\* What is known of the other handlers stays true when a step of p leaves the
\* table alone.
LEMMA OthersStay ==
    ASSUME IInv, NEW p \in Handlers, UNCHANGED users,
           \A q \in Handlers \ {p} :
              /\ pc'[q] = pc[q]
              /\ arg'[q] = arg[q]
              /\ user'[q] = user[q]
              /\ held'[q] = held[q]
              /\ crossed'[q] = crossed[q],
           \A f \in Files : uploader[f] # Null => uploader'[f] = uploader[f],
           NEW q \in Handlers \ {p}
    PROVE  ReadyAt(q)' /\ LookedAt(q)' /\ FaithfulAt(q)'
<1>1. ReadyAt(q)'
  <2>1. ReadyAt(q)
    BY DEF IInv, Ready
  <2>2. pc[q] \in Changing \cup {"free?"} => user[q] # Null
    BY <2>1, AccountsAssumption DEF ReadyAt
  <2> QED BY <2>1, <2>2 DEF ReadyAt, IsPatch
<1>2. LookedAt(q)'
  BY DEF IInv, Looked, LookedAt, Uncrossed, Taken
<1>3. FaithfulAt(q)'
  BY DEF IInv, Faithful, FaithfulAt, Edit
<1> QED BY <1>1, <1>2, <1>3

\* A handler that answers or fails disturbs nothing; an upload that does not
\* save what it wrote lets the file and the row of its account apart.
LEMMA AbandonIInv ==
    ASSUME IInv, NEW p \in Handlers, Abandon(p)
    PROVE  IInv'
<1> USE DEF IInv, Abandon, Leave, Forget
<1>1. TypeOK'
  <2>1. Uploading(p) => user[p] \in Ids
    BY DEF Uploading, Ready, ReadyAt, Changing
  <2> QED BY <2>1 DEF TypeOK, Label, IsPatch
<1>2. pc'[p] = "idle" /\ crossed'[p] = {}
  BY DEF TypeOK
<1>3. \A q \in Handlers \ {p} :
         /\ pc'[q] = pc[q]
         /\ arg'[q] = arg[q]
         /\ user'[q] = user[q]
         /\ held'[q] = held[q]
         /\ crossed'[q] = crossed[q]
  BY DEF TypeOK
<1>4. ReadyAt(p)' /\ LookedAt(p)' /\ FaithfulAt(p)'
  BY <1>2 DEF ReadyAt, LookedAt, FaithfulAt, Changing
<1>5. Ready' /\ Looked' /\ Faithful'
  BY <1>3, <1>4, OthersStay DEF Ready, Looked, Faithful
<1>6. Owned'
  BY <1>2, <1>3 DEF Owned, Saving
<1>7. OneAccountPerKey'
  BY DEF OneAccountPerKey
<1>8. Carries'
  <2> SUFFICES ASSUME NEW q \in Handlers PROVE CarriesAt(q)'
    BY DEF Carries
  <2>1. CASE q = p
    BY <1>2, <2>1 DEF CarriesAt, Carrying, Changing
  <2>2. CASE q # p
    <3>1. CarriesAt(q)
      BY DEF Carries
    <3>2. \A r \in Handlers \ {q} : r = p \/ r \in Handlers \ {p}
      OBVIOUS
    <3>3. ~Carrying(p)' /\ pc'[p] \notin Saving
      BY <1>2 DEF Carrying, Changing, Saving
    <3>4. \A r \in Handlers \ {p} : Carrying(r)' <=> Carrying(r)
      BY <1>3 DEF Carrying
    <3> QED BY <1>3, <2>2, <3>1, <3>2, <3>3, <3>4 DEF CarriesAt
  <2> QED BY <2>1, <2>2
<1>9. AvatarsMatchFiles'
  <2>1. \A q \in Handlers \ {p} : Uploading(q)' <=> Uploading(q)
    BY <1>3 DEF Uploading
  <2>2. apart \subseteq apart' /\ (Uploading(p) => user[p] \in apart')
    OBVIOUS
  <2>3. Uploading(p) => uploader[arg[p].set["avatarUrl"]] = user[p]
    BY DEF Uploading, Ready, ReadyAt, Changing
  <2> QED BY <1>3, <2>1, <2>2, <2>3 DEF AvatarsMatchFiles
<1> QED BY <1>1, <1>5, <1>6, <1>7, <1>8, <1>9

\* A step before the first change: p enters or has looked something up.
LEMMA QuietIInv ==
    ASSUME IInv, NEW p \in Handlers,
           UNCHANGED <<users, files, held, history>>,
           \A q \in Handlers \ {p} :
              pc'[q] = pc[q] /\ arg'[q] = arg[q] /\ user'[q] = user[q],
           pc[p] \notin Changing,
           pc'[p] \notin Saving,
           ~Carrying(p)',
           TypeOK', ReadyAt(p)', LookedAt(p)'
    PROVE  IInv'
<1> USE DEF IInv, history
<1>1. FaithfulAt(p)'
  BY DEF FaithfulAt, Saving
<1>2. Ready' /\ Looked' /\ Faithful'
  BY <1>1, OthersStay DEF Ready, Looked, Faithful
<1>3. Owned'
  BY DEF Owned, Saving
<1>4. OneAccountPerKey'
  BY DEF OneAccountPerKey
<1>5. \A r \in Handlers \ {p} : Carrying(r)' <=> Carrying(r)
  BY DEF Carrying
<1>6. Carries'
  <2> SUFFICES ASSUME NEW q \in Handlers, q # p PROVE CarriesAt(q)'
    BY DEF Carries, CarriesAt
  <2>1. CarriesAt(q)
    BY DEF Carries
  <2>2. \A r \in Handlers \ {q} : r = p \/ r \in Handlers \ {p}
    OBVIOUS
  <2> QED BY <1>5, <2>1, <2>2 DEF CarriesAt
<1>7. AvatarsMatchFiles'
  <2>1. ~Uploading(p)
    BY DEF Uploading, Changing
  <2>2. \A q \in Handlers \ {p} : Uploading(q)' <=> Uploading(q)
    BY DEF Uploading
  <2> QED BY <2>1, <2>2 DEF AvatarsMatchFiles
<1> QED BY <1>2, <1>3, <1>4, <1>6, <1>7

\* A request comes in; an upload's comes with a file name of its own, and is
\* in EnterUploadIInv.
LEMMA EnterIInv ==
    ASSUME IInv, NEW p \in Handlers,
           NEW label \in {"email?", "wallet?", "free?", "find"}, NEW r,
           NEW u \in Ids \cup {Null},
           Enter(p, label, r, u), UNCHANGED uploader,
           r.op \in Op \ {"avatar"}, IsPatch(r.set),
           label = "find" => "walletAddress" \notin DOMAIN r.set,
           ReadyAt(p)'
    PROVE  IInv'
<1> USE DEF Enter
<1>1. TypeOK'
  BY DEF IInv, TypeOK, Label, IsPatch
<1>2. pc'[p] = label /\ arg'[p] = r
  BY DEF IInv, TypeOK
<1>3. pc[p] \notin Changing /\ pc'[p] \notin Saving /\ ~Carrying(p)'
  BY <1>2 DEF Changing, Saving, Carrying
<1>4. LookedAt(p)'
  BY <1>2 DEF LookedAt, Changing
<1>5. \A q \in Handlers \ {p} :
         pc'[q] = pc[q] /\ arg'[q] = arg[q] /\ user'[q] = user[q]
  BY DEF IInv, TypeOK
<1> QED BY <1>1, <1>3, <1>4, <1>5, QuietIInv DEF history

LEMMA SignupIInv ==
    ASSUME IInv, NEW p \in Handlers, NEW s \in Signups, Signup(p, s)
    PROVE  IInv'
<1> DEFINE name == IF Truthy(s.displayName) THEN s.displayName ELSE s.username
           set == [s EXCEPT !.displayName = name]
           r == [op |-> "signup", set |-> set]
<1>1. Enter(p, "email?", r, Null) /\ UNCHANGED uploader
  BY DEF Signup
<1>2. /\ IsPatch(set)
      /\ DOMAIN set = {"email", "username", "displayName"}
      /\ \A c \in DOMAIN set : set[c] \in Values
  <2>1. s \in [email : Values, username : Values, displayName : Cell]
    BY AccountsAssumption
  <2>2. name \in Values
    BY <2>1 DEF Truthy, Cell
  <2>3. set \in [email : Values, username : Values, displayName : Values]
    BY <2>1, <2>2
  <2> QED BY <2>3 DEF IsPatch, Cell, Columns
<1> HIDE DEF set
<1>3. pc'[p] = "email?" /\ arg'[p] = r
  BY <1>1 DEF IInv, TypeOK, Enter
<1>4. ReadyAt(p)'
  BY <1>2, <1>3 DEF ReadyAt, Changing, Op
<1> QED BY <1>1, <1>2, <1>4, EnterIInv DEF Op

LEMMA ValidateStellarUserIInv ==
    ASSUME IInv, NEW p \in Handlers, NEW w \in Wallets,
           ValidateStellarUser(p, w)
    PROVE  IInv'
<1> DEFINE s == [walletAddress |-> w, username |-> Nickname[w],
                 displayName |-> Nickname[w]]
           r == [op |-> "signin", set |-> s]
<1>1. Enter(p, "wallet?", r, Null) /\ UNCHANGED uploader
  BY DEF ValidateStellarUser
<1>2. /\ IsPatch(s)
      /\ DOMAIN s = {"walletAddress", "username", "displayName"}
      /\ \A c \in DOMAIN s : s[c] \in Values
  <2>1. w \in Values /\ Nickname[w] \in Values
    BY AccountsAssumption
  <2> QED BY <2>1 DEF IsPatch, Cell, Columns
<1> HIDE DEF s
<1>3. pc'[p] = "wallet?" /\ arg'[p] = r
  BY <1>1 DEF IInv, TypeOK, Enter
<1>4. ReadyAt(p)'
  BY <1>2, <1>3 DEF ReadyAt, Changing, Op
<1> QED BY <1>1, <1>2, <1>4, EnterIInv DEF Op

\* The requests that change an account, but for uploads.
LEMMA EditIInv ==
    ASSUME IInv, NEW p \in Handlers, NEW u \in Ids, NEW e \in Edits,
           \/ UpdateProfile(p, u, e)
           \/ UpdateSocialLinks(p, u, e)
           \/ UpdateWalletAddress(p, u, e)
    PROVE  IInv'
<1> DEFINE label == IF e.op = "wallet" THEN "free?" ELSE "find"
<1>1. /\ users[u] # Null
      /\ e.op \in {"profile", "links", "wallet"}
      /\ Enter(p, label, e, u)
      /\ UNCHANGED uploader
  BY DEF UpdateProfile, UpdateSocialLinks, UpdateWalletAddress
<1>2. /\ IsPatch(e.set)
      /\ \A c \in DOMAIN e.set : e.set[c] \notin Files
      /\ e.op = "profile" =>
            DOMAIN e.set \subseteq {"displayName", "bio", "avatarUrl"}
      /\ e.op = "links" => DOMAIN e.set = {"socialLinks"}
      /\ e.op = "wallet" => DOMAIN e.set = {"walletAddress"}
  BY AccountsAssumption
<1>3. /\ pc'[p] = label /\ arg'[p] = e /\ user'[p] = u
      /\ UNCHANGED users
  BY <1>1 DEF IInv, TypeOK, Enter
<1>4. /\ label \in {"free?", "find"}
      /\ label = "find" => "walletAddress" \notin DOMAIN e.set
      /\ label = "free?" => "walletAddress" \in DOMAIN e.set
  BY <1>1, <1>2
<1>5. ReadyAt(p)'
  <2> HIDE DEF label
  <2>1. /\ DOMAIN e.set \subseteq {"walletAddress", "displayName", "bio",
                                   "avatarUrl", "socialLinks"}
        /\ "walletAddress" \in DOMAIN e.set => e.op = "wallet"
    BY <1>1, <1>2
  <2> QED BY <1>1, <1>2, <1>3, <1>4, <2>1 DEF ReadyAt, Changing, Op
<1> HIDE DEF label
<1> QED BY <1>1, <1>2, <1>4, <1>5, EnterIInv DEF Op

LEMMA UploadAvatarIInv ==
    ASSUME IInv, NEW p \in Handlers, NEW u \in Ids, NEW f \in Files,
           UploadAvatar(p, u, f)
    PROVE  IInv'
<1> DEFINE s == [avatarUrl |-> f]
           r == [op |-> "avatar", set |-> s]
<1> USE DEF IInv
<1>1. /\ users[u] # Null /\ uploader[f] = Null
      /\ Enter(p, "find", r, u)
      /\ uploader' = [uploader EXCEPT ![f] = u]
  BY DEF UploadAvatar
<1>2. /\ IsPatch(s)
      /\ DOMAIN s = {"avatarUrl"}
      /\ s["avatarUrl"] = f
  <2>1. s \in [{"avatarUrl"} -> Cell] /\ {"avatarUrl"} \in SUBSET Columns
    BY AccountsAssumption DEF Cell, Columns
  <2> QED BY <2>1 DEF IsPatch
<1>3. /\ pc[p] = "idle" /\ pc'[p] = "find" /\ arg'[p] = r /\ user'[p] = u
      /\ UNCHANGED <<users, files, held, crossed, apart>>
      /\ \A q \in Handlers \ {p} :
            pc'[q] = pc[q] /\ arg'[q] = arg[q] /\ user'[q] = user[q]
  BY <1>1 DEF TypeOK, Enter
<1>4. uploader'[f] = u /\ \A g \in Files \ {f} : uploader'[g] = uploader[g]
  BY <1>1 DEF TypeOK
<1>5. u # Null /\ Null \notin Files
  BY AccountsAssumption
<1>6. TypeOK'
  BY <1>1, <1>2 DEF TypeOK, Enter, Label, Op
<1> HIDE DEF s
<1>7. Ready' /\ Looked' /\ Faithful'
  <2>1. ReadyAt(p)' /\ LookedAt(p)' /\ FaithfulAt(p)'
    BY <1>1, <1>2, <1>3, <1>4 DEF ReadyAt, LookedAt, FaithfulAt, Changing, Op
  <2>2. \A g \in Files : uploader[g] # Null => uploader'[g] = uploader[g]
    BY <1>1, <1>4
  <2> QED BY <1>3, <2>1, <2>2, OthersStay DEF Ready, Looked, Faithful
<1>8. /\ \A v \in Ids : users[v] # Null => users[v]["avatarUrl"] # f
      /\ \A q \in Handlers : pc[q] \in Saving /\ "avatarUrl" \in DOMAIN held[q]
                                => held[q]["avatarUrl"] # f
      /\ \A q \in Handlers : Carrying(q) => /\ arg[q].set["avatarUrl"] \in Files
                                            /\ arg[q].set["avatarUrl"] # f
      /\ f \notin files
  <2>1. \A q \in Handlers : pc[q] \in Changing => user[q] # Null
    BY AccountsAssumption DEF Ready, ReadyAt
  <2>2. \A v \in Ids : users[v] # Null => users[v]["avatarUrl"] # f
    BY <1>1, AccountsAssumption DEF Owned
  <2>3. \A q \in Handlers : pc[q] \in Saving /\ "avatarUrl" \in DOMAIN held[q]
                               => held[q]["avatarUrl"] # f
    BY <1>1, <2>1 DEF Owned, Saving, Changing
  <2>4. ASSUME NEW q \in Handlers, Carrying(q)
        PROVE  /\ arg[q].set["avatarUrl"] \in Files
               /\ arg[q].set["avatarUrl"] # f
    BY <1>1, <2>1, <2>4 DEF Carrying, Ready, ReadyAt
  <2>5. f \notin files
    BY <1>1 DEF AvatarsMatchFiles
  <2> QED BY <2>2, <2>3, <2>4, <2>5
<1>9. Owned'
  BY <1>1, <1>3, <1>4, <1>8 DEF Owned, Saving
<1>10. Carries'
  <2>1. /\ Carrying(p)' /\ arg'[p].set["avatarUrl"] = f
        /\ \A x \in Handlers \ {p} : Carrying(x)' <=> Carrying(x)
    BY <1>2, <1>3 DEF Carrying, Changing
  <2>2. CarriesAt(p)'
    BY <1>3, <1>8, <2>1 DEF CarriesAt, Saving
  <2>3. ASSUME NEW q \in Handlers, q # p
        PROVE  CarriesAt(q)'
    <3>1. CarriesAt(q)
      BY DEF Carries
    <3>2. \A x \in Handlers \ {q} : x = p \/ x \in Handlers \ {p}
      OBVIOUS
    <3>3. Carrying(q) => arg[q].set["avatarUrl"] # f
      BY <1>8
    <3>4. pc'[p] \notin Saving
      BY <1>3 DEF Saving
    <3> QED BY <1>3, <2>1, <2>3, <3>1, <3>2, <3>3, <3>4 DEF CarriesAt
  <2> QED BY <2>2, <2>3 DEF Carries
<1>11. AvatarsMatchFiles' /\ OneAccountPerKey'
  <2>1. OneAccountPerKey'
    BY <1>3 DEF OneAccountPerKey
  <2>2. ~Uploading(p) /\ \A q \in Handlers \ {p} : Uploading(q)' <=> Uploading(q)
    BY <1>3 DEF Uploading
  <2>3. \A g \in files : g # f /\ uploader'[g] = uploader[g]
    BY <1>4, <1>8 DEF TypeOK
  <2> QED BY <1>3, <2>1, <2>2, <2>3 DEF AvatarsMatchFiles
<1> QED BY <1>6, <1>7, <1>9, <1>10, <1>11

-----------------------------------------------------------------------------
(* The look-ups.                                                           *)

\* A look-up after which the request goes on.
LEMMA GotoIInv ==
    ASSUME IInv, NEW p \in Handlers, NEW label \in {"username?", "insert", "find"},
           pc[p] \in {"email?", "username?", "wallet?", "free?"},
           Goto(p, label), UNCHANGED <<users, files, held, history>>,
           label = "find" => pc[p] = "free?",
           ReadyAt(p)', LookedAt(p)'
    PROVE  IInv'
<1> USE DEF Goto
<1>1. TypeOK'
  BY DEF IInv, TypeOK, Label, IsPatch, history
<1>2. pc'[p] = label /\ arg' = arg /\ user' = user
  BY DEF IInv, TypeOK
<1>3. pc[p] \notin Changing /\ pc'[p] \notin Saving
  BY <1>2 DEF Changing, Saving
<1>4. ~Carrying(p)'
  BY <1>2 DEF Carrying, Changing, IInv, Ready, ReadyAt
<1>5. \A q \in Handlers \ {p} :
         pc'[q] = pc[q] /\ arg'[q] = arg[q] /\ user'[q] = user[q]
  BY DEF IInv, TypeOK
<1> QED BY <1>1, <1>3, <1>4, <1>5, QuietIInv

LEMMA NewAccountCells ==
    ASSUME IInv, NEW p \in Handlers,
           pc[p] \in {"email?", "username?", "wallet?", "insert"}
    PROVE  /\ NewAccount(arg[p].set) \in Row
           /\ \A c \in Columns :
                 NewAccount(arg[p].set)[c] =
                    IF c \in DOMAIN arg[p].set THEN arg[p].set[c] ELSE Null
           /\ "username" \in DOMAIN arg[p].set
           /\ "avatarUrl" \notin DOMAIN arg[p].set
<1> DEFINE blank == [c \in Columns |-> Null]
<1>1. ReadyAt(p)
  BY DEF IInv, Ready
<1>2. /\ IsPatch(arg[p].set)
      /\ "username" \in DOMAIN arg[p].set
      /\ "avatarUrl" \notin DOMAIN arg[p].set
      /\ arg[p].set["username"] \in Values
  BY <1>1 DEF ReadyAt
<1>3. blank \in [Columns -> Cell] /\ \A c \in Columns : blank[c] = Null
  BY DEF Cell
<1>4. NewAccount(arg[p].set) = Edit(blank, arg[p].set)
  BY DEF NewAccount
<1> HIDE DEF blank
<1>5. "username" \in Columns
  BY DEF Columns
<1> QED BY <1>2, <1>3, <1>4, <1>5, EditCells, AccountsAssumption DEF Row

LEMMA LookUpIInv ==
    ASSUME IInv, NEW p \in Handlers,
           \/ SignupFindEmail(p)
           \/ SignupFindUsername(p)
           \/ FindWallet(p)
           \/ FindWalletOwner(p)
    PROVE  IInv'
<1>1. CASE Abandon(p)
  BY <1>1, AbandonIInv
<1>2. ReadyAt(p) /\ LookedAt(p)
  BY DEF IInv, Ready, Looked
<1>3. CASE /\ SignupFindEmail(p)
           /\ ~Taken("email", arg[p].set["email"])
           /\ Goto(p, "username?")
           /\ UNCHANGED <<users, files, held, history>>
  <2>1. pc'[p] = "username?" /\ UNCHANGED <<arg, user, users>> /\ pc[p] = "email?"
    BY <1>3 DEF IInv, TypeOK, Goto, SignupFindEmail
  <2>2. ReadyAt(p)' /\ LookedAt(p)'
    BY <1>2, <1>3, <2>1 DEF ReadyAt, LookedAt, Changing, Taken, IsPatch
  <2> QED BY <1>3, <2>1, <2>2, GotoIInv
<1>4. CASE /\ SignupFindUsername(p)
           /\ ~Taken("username", arg[p].set["username"])
           /\ Goto(p, "insert")
           /\ UNCHANGED <<users, files, held, history>>
  <2>1. /\ pc'[p] = "insert" /\ pc[p] = "username?"
        /\ UNCHANGED <<arg, user, users, crossed>>
    BY <1>4 DEF IInv, TypeOK, Goto, SignupFindUsername, history
  <2>2. ReadyAt(p)'
    BY <1>2, <2>1 DEF ReadyAt, Changing, IsPatch
  <2>3. LookedAt(p)'
    BY <1>2, <1>4, <2>1 DEF ReadyAt, LookedAt, Changing, Taken, Uncrossed
  <2> QED BY <1>4, <2>1, <2>2, <2>3, GotoIInv
<1>5. CASE /\ FindWallet(p)
           /\ ~Taken("walletAddress", arg[p].set["walletAddress"])
           /\ Goto(p, "insert")
           /\ UNCHANGED <<users, files, held, history>>
  <2>1. /\ pc'[p] = "insert" /\ pc[p] = "wallet?"
        /\ UNCHANGED <<arg, user, users>>
    BY <1>5 DEF IInv, TypeOK, Goto, FindWallet
  <2>2. ReadyAt(p)' /\ LookedAt(p)'
    BY <1>2, <1>5, <2>1 DEF ReadyAt, LookedAt, Changing, Taken, IsPatch
  <2> QED BY <1>5, <2>1, <2>2, GotoIInv
<1>6. CASE /\ FindWalletOwner(p)
           /\ Goto(p, "find")
           /\ UNCHANGED <<users, files, held, history>>
           /\ ~\E u \in Ids \ {user[p]} :
                 /\ users[u] # Null
                 /\ users[u]["walletAddress"] = arg[p].set["walletAddress"]
  <2>1. /\ pc'[p] = "find" /\ pc[p] = "free?"
        /\ UNCHANGED <<arg, user, users>>
    BY <1>6 DEF IInv, TypeOK, Goto, FindWalletOwner
  <2>2. uploader' = uploader
    BY <1>6 DEF history
  <2>3. ReadyAt(p)'
    BY <1>2, <2>1, <2>2 DEF ReadyAt, Changing, IsPatch
  <2>4. LookedAt(p)'
    BY <1>2, <1>6, <2>1 DEF LookedAt, Changing, Taken
  <2> QED BY <1>6, <2>1, <2>3, <2>4, GotoIInv
<1> QED BY <1>1, <1>3, <1>4, <1>5, <1>6
        DEF SignupFindEmail, SignupFindUsername, FindWallet, FindWalletOwner

-----------------------------------------------------------------------------
(* The steps that write.                                                   *)

LEMMA InsertUserIInv ==
    ASSUME IInv, NEW p \in Handlers, InsertUser(p)
    PROVE  IInv'
<1> DEFINE row == NewAccount(arg[p].set)
<1> USE DEF IInv
<1>1. CASE Abandon(p)
  BY <1>1, AbandonIInv
<1>2. ASSUME ~Clash(row, Null), NEW u \in Ids, users[u] = Null,
             users' = [users EXCEPT ![u] = row],
             Note(p, u, Columns), Leave(p),
             UNCHANGED <<files, uploader, apart>>, pc[p] = "insert"
      PROVE  IInv'
  <2> USE <1>2
  <2>1. /\ row \in Row /\ row # Null /\ row["avatarUrl"] = Null
        /\ Null \notin Files /\ Null \notin Ids
    BY NewAccountCells, AccountsAssumption DEF Columns
  <2> HIDE DEF row
  <2>2. users'[u] = row /\ \A v \in Ids \ {u} : users'[v] = users[v]
    BY DEF TypeOK
  <2>3. /\ pc'[p] = "idle" /\ crossed'[p] = {}
        /\ \A q \in Handlers \ {p} :
              /\ pc'[q] = pc[q] /\ arg'[q] = arg[q]
              /\ user'[q] = user[q] /\ held'[q] = held[q]
              /\ crossed'[q] = crossed[q] \cup ({u} \X (Columns \cap Seen(q, u)))
    BY DEF TypeOK, Leave, Note
  <2>4. TypeOK'
    <3>1. crossed' \in [Handlers -> SUBSET (Ids \X Columns)]
      BY DEF TypeOK, Note
    <3> QED BY <2>1, <3>1 DEF TypeOK, Leave, Label
  <2>5. \A q \in Handlers \ {p} :
           pc[q] \in Changing \cup {"free?"} =>
              users[user[q]] # Null /\ user[q] \in Ids /\ user[q] # u
    BY DEF Ready, ReadyAt
  <2>6. Ready'
    <3>1. ReadyAt(p)'
      BY <2>3 DEF ReadyAt, Changing
    <3>2. ASSUME NEW q \in Handlers, q # p
          PROVE  ReadyAt(q)'
      <4>1. ReadyAt(q)
        BY DEF Ready
      <4>2. /\ pc'[q] = pc[q] /\ arg'[q] = arg[q] /\ user'[q] = user[q]
            /\ held'[q] = held[q] /\ uploader' = uploader
            /\ pc[q] = "idle" => crossed'[q] = {}
        BY <2>3, <3>2, <4>1 DEF ReadyAt, Seen
      <4>3. pc[q] \in Changing \cup {"free?"} =>
               users'[user[q]] = users[user[q]]
        BY <2>2, <2>5, <3>2
      <4> QED BY <4>1, <4>2, <4>3 DEF ReadyAt, IsPatch
    <3> QED BY <3>1, <3>2 DEF Ready
  <2>7. Looked'
    <3> SUFFICES ASSUME NEW q \in Handlers, Uncrossed(q)' PROVE LookedAt(q)'
      BY DEF Looked, LookedAt
    <3>1. ASSUME Looking(q)'
          PROVE  FALSE
      <4>1. q # p /\ Looking(q)
        BY <2>3, <3>1 DEF Looking
      <4>2. "email" \in Columns \cap Seen(q, u)
        BY <4>1 DEF Looking, Seen, Unique, Columns
      <4>3. <<u, "email">> \in crossed'[q]
        BY <2>3, <4>1, <4>2
      <4> QED BY <4>3 DEF Uncrossed, Unique
    <3>2. ReadyAt(q)'
      BY <2>6 DEF Ready
    <3> QED BY <3>1, <3>2 DEF LookedAt, ReadyAt, Looking, Changing
  <2>8. Faithful'
    <3> SUFFICES ASSUME NEW q \in Handlers PROVE FaithfulAt(q)'
      BY DEF Faithful
    <3>1. CASE pc'[q] \notin Saving
      BY <3>1 DEF FaithfulAt, Saving
    <3>2. CASE pc'[q] \in Saving
      <4>1. /\ q # p /\ pc[q] \in Saving /\ users'[user[q]] = users[user[q]]
            /\ crossed[q] \subseteq crossed'[q] /\ FaithfulAt(q)
        BY <2>2, <2>3, <2>5, <3>2 DEF Saving, Changing, Faithful
      <4> QED BY <2>3, <4>1 DEF FaithfulAt, Edit
    <3> QED BY <3>1, <3>2
  <2>9. OneAccountPerKey'
    <3>1. \A v \in Ids, c \in Unique :
             users[v] # Null /\ row[c] # Null => users[v][c] # row[c]
      BY <2>1 DEF Clash, row
    <3> QED BY <2>2, <3>1 DEF OneAccountPerKey
  <2>10. Owned'
    BY <2>1, <2>2, <2>3 DEF Owned, Saving
  <2>11. Carries'
    <3> SUFFICES ASSUME NEW q \in Handlers, Carrying(q)' PROVE CarriesAt(q)'
      BY DEF Carries, CarriesAt
    <3>1. q # p /\ Carrying(q) /\ CarriesAt(q) /\ pc'[p] \notin Changing
      BY <2>3 DEF Carries, Carrying, Changing
    <3>2. arg[q].set["avatarUrl"] \in Files /\ users'[user[q]] = users[user[q]]
      BY <2>2, <2>5, <3>1 DEF Ready, ReadyAt, Carrying
    <3>3. \A x \in Handlers \ {p} : Carrying(x)' <=> Carrying(x)
      BY <2>3 DEF Carrying
    <3>4. ~Carrying(p)' /\ pc'[p] \notin Saving
      BY <3>1 DEF Carrying, Saving, Changing
    <3>5. \A x \in Handlers \ {q} : x = p \/ x \in Handlers \ {p}
      OBVIOUS
    <3>6. pc[q] # "idle"
      BY <3>1 DEF Carrying, Changing
    <3> QED BY <2>1, <2>2, <2>3, <3>1, <3>2, <3>3, <3>4, <3>5, <3>6 DEF CarriesAt
  <2>12. AvatarsMatchFiles'
    <3>1. ~Uploading(p) /\ \A q \in Handlers \ {p} : Uploading(q)' <=> Uploading(q)
      BY <2>3 DEF Uploading
    <3> QED BY <2>1, <2>2, <2>3, <3>1 DEF AvatarsMatchFiles
  <2> QED BY <2>4, <2>6, <2>7, <2>8, <2>9, <2>10, <2>11, <2>12
<1> QED BY <1>1, <1>2 DEF InsertUser

LEMMA FindUserIInv ==
    ASSUME IInv, NEW p \in Handlers, FindUser(p)
    PROVE  IInv'
<1> DEFINE u == user[p]
           set == arg[p].set
           f == set["avatarUrl"]
           old == users[u]["avatarUrl"]
<1> USE DEF IInv
<1>1. ReadyAt(p) /\ LookedAt(p) /\ CarriesAt(p) /\ pc[p] = "find"
  BY DEF Ready, Looked, Carries, FindUser
<1>2. /\ u \in Ids /\ users[u] # Null /\ users[u] \in Row
      /\ IsPatch(set) /\ "username" \notin DOMAIN set
      /\ arg[p].op = "avatar" => /\ Carrying(p)
                                 /\ DOMAIN set = {"avatarUrl"}
                                 /\ f \in Files
                                 /\ uploader[f] = u
                                 /\ old # f
      /\ arg[p].op # "avatar" => \A c \in DOMAIN set : set[c] \notin Files
  BY <1>1 DEF ReadyAt, CarriesAt, Carrying, Changing, TypeOK
<1>3. /\ held'[p] = Edit(users[u], Given(set)) /\ pc'[p] = "load"
      /\ \A q \in Handlers \ {p} : pc'[q] = pc[q] /\ held'[q] = held[q]
      /\ UNCHANGED <<users, arg, user, uploader, crossed>>
      /\ DOMAIN held' = Handlers
  BY DEF FindUser, Goto, TypeOK, history
<1>4. /\ arg[p].op = "avatar" =>
            /\ files' = (files \ {Basename[old]}) \cup {f}
            /\ apart' = apart \cup Robbed(old)
      /\ arg[p].op # "avatar" => files' = files /\ apart' = apart
  BY DEF FindUser, Replace
<1>5. /\ held'[p] \in Row
      /\ \A c \in Columns \ {"displayName"} :
            held'[p][c] = IF c \in DOMAIN set THEN set[c] ELSE users[u][c]
  <2>1. users[u] \in [Columns -> Cell] /\ users[u]["username"] # Null
    BY <1>2 DEF Row
  <2>2. "username" \in Columns
    BY DEF Columns
  <2>3. /\ IsPatch(Given(set)) /\ "username" \notin DOMAIN Given(set)
        /\ \A c \in Columns \ {"displayName"} :
              c \in DOMAIN Given(set) <=> c \in DOMAIN set
        /\ \A c \in DOMAIN Given(set) : Given(set)[c] = set[c]
    BY <1>2, GivenCells
  <2> HIDE DEF set, u
  <2>4. /\ held'[p] \in [Columns -> Cell]
        /\ \A c \in Columns :
              held'[p][c] = IF c \in DOMAIN Given(set) THEN Given(set)[c]
                            ELSE users[u][c]
    BY <1>3, <2>1, <2>3, EditCells
  <2> QED BY <2>1, <2>2, <2>3, <2>4 DEF Row
<1> HIDE DEF u, set, f, old
<1>50. /\ Robbed(old) \subseteq Ids
       /\ old \in Files => Basename[old] = old
       /\ \A g \in files : g = Basename[old] => g = old \/ uploader[g] \in Robbed(old)
  <2>1. Robbed(old) =
           {uploader[g] : g \in {h \in files : h = Basename[old] /\ h # old}}
    BY DEF Robbed
  <2>2. \A g \in files : uploader[g] \in Ids
    BY DEF AvatarsMatchFiles, TypeOK
  <2> QED BY <2>1, <2>2, AccountsAssumption
<1>51. apart \subseteq apart'
  BY <1>4
<1>6. TypeOK'
  <2>1. IsPatch(held'[p])
    <3>1. held'[p] \in [Columns -> Cell] /\ Columns \in SUBSET Columns
      BY <1>5 DEF Row
    <3> QED BY <3>1 DEF IsPatch
  <2>2. pc' \in [Handlers -> Label]
    BY DEF FindUser, Goto, TypeOK, Label
  <2>3. files' \subseteq Files
    BY <1>2, <1>4 DEF TypeOK
  <2>4. \A q \in Handlers : held'[q] # Null => IsPatch(held'[q])
    BY <1>3, <2>1 DEF TypeOK
  <2>5. apart' \subseteq Ids
    BY <1>4, <1>50 DEF TypeOK
  <2> QED BY <1>3, <2>2, <2>3, <2>4, <2>5 DEF TypeOK
<1>7. Ready'
  <2>1. ReadyAt(p)'
    BY <1>1, <1>3, <1>5 DEF ReadyAt, Changing, IsPatch
  <2> QED BY <1>3, <2>1, OthersStay DEF Ready
<1>8. Looked'
  <2>1. LookedAt(p)'
    BY <1>1, <1>3 DEF LookedAt, Changing, Uncrossed
  <2> QED BY <1>3, <2>1, OthersStay DEF Looked
<1>9. Faithful'
  <2>1. FaithfulAt(p)'
    BY <1>3 DEF FaithfulAt, u, set
  <2> QED BY <1>3, <2>1, OthersStay DEF Faithful
<1>10. OneAccountPerKey'
  BY <1>3 DEF OneAccountPerKey
<1>11. "avatarUrl" \in Columns /\ DOMAIN held'[p] = Columns
  BY <1>5 DEF Columns, Row
<1>12. held'[p]["avatarUrl"] \in Files => uploader[held'[p]["avatarUrl"]] = u
  BY <1>2, <1>5, <1>11 DEF Owned, old, f
<1>13. Owned'
  BY <1>3, <1>12 DEF Owned, Saving, u
<1>14. \A q \in Handlers \ {p} : Carrying(q)' <=> Carrying(q)
  BY <1>3 DEF Carrying
<1>15. Carries'
  <2>1. ASSUME Carrying(p)'
        PROVE  CarriesAt(p)'
    <3>1. arg[p].op = "avatar" /\ Carrying(p)
      BY <1>1, <1>3, <2>1 DEF Carrying, Changing
    <3>2. held'[p]["avatarUrl"] = f /\ f \in files' /\ old \notin files'
      <4>1. held'[p]["avatarUrl"] = f /\ f \in files'
        BY <1>2, <1>4, <1>5, <1>11, <3>1 DEF f
      <4>2. old \in files => old = Basename[old]
        BY <1>50 DEF TypeOK
      <4> QED BY <1>2, <1>4, <3>1, <4>1, <4>2
    <3> QED BY <1>1, <1>3, <1>11, <1>14, <3>1, <3>2
            DEF CarriesAt, u, set, f, old, Saving
  <2>2. ASSUME NEW q \in Handlers, q # p, Carrying(q)'
        PROVE  CarriesAt(q)'
    <3> DEFINE g == arg[q].set["avatarUrl"]
    <3>1. Carrying(q) /\ CarriesAt(q) /\ g \in Files
      BY <1>14, <2>2 DEF Carries, Ready, ReadyAt, Carrying
    <3>2. held'[p]["avatarUrl"] # g /\ old # g /\ (Carrying(p) => f # g)
      <4>1. old # g
        BY <1>2, <3>1 DEF CarriesAt, old
      <4>2. Carrying(p) => f # g
        BY <2>2, <3>1 DEF CarriesAt, f, set
      <4>3. arg[p].op # "avatar" => held'[p]["avatarUrl"] # g
        BY <1>2, <1>5, <1>11, <3>1, <4>1 DEF old
      <4>4. arg[p].op = "avatar" => held'[p]["avatarUrl"] # g
        BY <1>2, <1>5, <1>11, <4>2 DEF f
      <4> QED BY <4>1, <4>2, <4>3, <4>4
    <3>3. /\ g \in files /\ user[q] \notin apart' => g \in files'
          /\ g \notin files => g \notin files'
      <4>1. uploader[g] = user[q]
        BY <3>1 DEF Carrying, Ready, ReadyAt
      <4> QED BY <1>2, <1>4, <1>50, <3>2, <4>1 DEF Carrying
    <3>4. users[user[q]]["avatarUrl"] \notin files =>
             users[user[q]]["avatarUrl"] \notin files'
      <4>1. user[q] \in Ids /\ users[user[q]] # Null
        BY <3>1 DEF Carrying, Ready, ReadyAt
      <4>2. arg[p].op = "avatar" => users[user[q]]["avatarUrl"] # f
        BY <1>1, <1>2, <4>1 DEF CarriesAt, f, set
      <4> QED BY <1>4, <4>2
    <3>5. Carrying(p)' => Carrying(p)
      BY <1>1, <1>3 DEF Carrying, Changing
    <3>6. \A x \in Handlers \ {q} : x = p \/ x \in Handlers \ {p}
      OBVIOUS
    <3>7. pc'[q] = pc[q] /\ held'[q] = held[q]
      BY <1>3, <2>2
    <3> HIDE DEF g
    <3>8. \A x \in Handlers \ {q} :
             /\ Carrying(x)' => arg[x].set["avatarUrl"] # g
             /\ pc'[x] \in Saving /\ "avatarUrl" \in DOMAIN held'[x] =>
                   held'[x]["avatarUrl"] # g
      BY <1>3, <1>14, <3>1, <3>2, <3>5, <3>6 DEF CarriesAt, f, set, g
    <3> QED BY <1>3, <1>51, <3>1, <3>3, <3>4, <3>7, <3>8 DEF CarriesAt, g
  <2> QED BY <2>1, <2>2 DEF Carries, CarriesAt
<1>16. AvatarsMatchFiles'
  <2>1. /\ ~Uploading(p)
        /\ arg[p].op = "avatar" => Uploading(p)'
        /\ \A q \in Handlers \ {p} : Uploading(q)' <=> Uploading(q)
    BY <1>1, <1>3 DEF Uploading
  <2>2. ASSUME NEW v \in Ids \ apart', users[v] # Null,
               users[v]["avatarUrl"] \in Files \ files'
        PROVE  \E q \in Handlers : user[q] = v /\ Uploading(q)'
    <3>1. CASE users[v]["avatarUrl"] \notin files
      BY <1>51, <2>1, <2>2, <3>1 DEF AvatarsMatchFiles
    <3>2. CASE users[v]["avatarUrl"] \in files
      <4>1. arg[p].op = "avatar" /\ users[v]["avatarUrl"] = old
        <5>1. arg[p].op = "avatar" /\ users[v]["avatarUrl"] = Basename[old]
          BY <1>4, <2>2, <3>2
        <5>2. uploader[users[v]["avatarUrl"]] = v
          BY <2>2 DEF Owned
        <5> QED BY <1>4, <1>50, <2>2, <3>2, <5>1, <5>2
      <4>2. v = u
        BY <1>2, <2>2, <4>1 DEF Owned, old
      <4> QED BY <2>1, <4>1, <4>2 DEF u
    <3> QED BY <3>1, <3>2
  <2>3. ASSUME NEW g \in files'
        PROVE  /\ uploader[g] # Null /\ users[uploader[g]] # Null
               /\ \/ uploader[g] \in apart'
                  \/ users[uploader[g]]["avatarUrl"] = g
                  \/ \E q \in Handlers :
                        Uploading(q)' /\ arg[q].set["avatarUrl"] = g
    <3>1. CASE g \in files
      BY <1>51, <2>1, <3>1 DEF AvatarsMatchFiles
    <3>2. CASE g \notin files
      <4>1. arg[p].op = "avatar" /\ g = f
        BY <1>4, <2>3, <3>2
      <4>2. u # Null
        BY <1>2, AccountsAssumption
      <4> QED BY <1>2, <2>1, <4>1, <4>2 DEF f, set
    <3> QED BY <3>1, <3>2
  <2> QED BY <1>3, <2>2, <2>3 DEF AvatarsMatchFiles
<1> QED BY <1>6, <1>7, <1>8, <1>9, <1>10, <1>13, <1>15, <1>16

LEMMA WriteFileFailsIInv ==
    ASSUME IInv, NEW p \in Handlers, WriteFileFails(p)
    PROVE  IInv'
<1> DEFINE u == user[p]
           old == users[u]["avatarUrl"]
<1> USE DEF IInv
<1>1. /\ u \in Ids /\ users[u] # Null /\ pc[p] = "find"
      /\ files' = files \ {Basename[old]}
      /\ apart' = apart \cup {u} \cup Robbed(old)
      /\ pc'[p] = "idle" /\ crossed'[p] = {}
      /\ UNCHANGED <<users, uploader>>
  BY DEF WriteFileFails, Leave, Forget, TypeOK, Ready, ReadyAt, Changing
<1>2. \A q \in Handlers \ {p} :
         /\ pc'[q] = pc[q] /\ arg'[q] = arg[q] /\ user'[q] = user[q]
         /\ held'[q] = held[q] /\ crossed'[q] = crossed[q]
  BY DEF WriteFileFails, Leave, Forget, TypeOK
<1>20. /\ Robbed(old) \subseteq Ids
       /\ old \in Files => Basename[old] = old
       /\ \A g \in files : g = Basename[old] => g = old \/ uploader[g] \in apart'
  <2>1. Robbed(old) =
           {uploader[g] : g \in {h \in files : h = Basename[old] /\ h # old}}
    BY DEF Robbed
  <2>2. \A g \in files : uploader[g] \in Ids
    BY DEF AvatarsMatchFiles, TypeOK
  <2> QED BY <1>1, <2>1, <2>2, AccountsAssumption
<1>3. TypeOK'
  BY <1>1, <1>20 DEF WriteFileFails, Leave, Forget, TypeOK, Label, IsPatch
<1> HIDE DEF u, old
<1>4. ReadyAt(p)' /\ LookedAt(p)' /\ FaithfulAt(p)'
  BY <1>1 DEF ReadyAt, LookedAt, FaithfulAt, Changing
<1>5. Ready' /\ Looked' /\ Faithful'
  BY <1>1, <1>2, <1>4, OthersStay DEF Ready, Looked, Faithful
<1>6. Owned' /\ OneAccountPerKey'
  BY <1>1, <1>2 DEF Owned, Saving, OneAccountPerKey
<1>7. Carries'
  <2> SUFFICES ASSUME NEW q \in Handlers, Carrying(q)' PROVE CarriesAt(q)'
    BY DEF Carries, CarriesAt
  <2>1. q # p /\ ~Carrying(p)' /\ pc'[p] \notin Saving
    BY <1>1 DEF Carrying, Changing, Saving
  <2>2. Carrying(q) /\ CarriesAt(q)
    BY <1>2, <2>1 DEF Carries, Carrying
  <2>3. old # arg[q].set["avatarUrl"]
    BY <1>1, <2>2 DEF CarriesAt, old
  <2>4. \A x \in Handlers \ {p} : Carrying(x)' <=> Carrying(x)
    BY <1>2 DEF Carrying
  <2>5. \A x \in Handlers \ {q} : x = p \/ x \in Handlers \ {p}
    OBVIOUS
  <2>6. uploader[arg[q].set["avatarUrl"]] = user[q]
    BY <2>2 DEF Carrying, Ready, ReadyAt
  <2>7. /\ \A f \in files : f \in files' \/ f = old \/ uploader[f] \in apart'
        /\ files' \subseteq files /\ apart \subseteq apart'
    BY <1>1, <1>20
  <2> QED BY <1>1, <1>2, <2>1, <2>2, <2>3, <2>4, <2>5, <2>6, <2>7 DEF CarriesAt
<1>8. AvatarsMatchFiles'
  <2>1. ~Uploading(p) /\ \A q \in Handlers \ {p} : Uploading(q)' <=> Uploading(q)
    BY <1>1, <1>2 DEF Uploading
  <2>2. \A v \in Ids \ {u} : users[v] # Null /\ users[v]["avatarUrl"] \in Files
                               => users[v]["avatarUrl"] # old
    BY <1>1 DEF Owned, old
  <2>3. \A f \in files : f \in files' \/ f = old \/ uploader[f] \in apart'
    BY <1>1, <1>20
  <2>4. ASSUME NEW v \in Ids \ apart', users[v] # Null,
               users[v]["avatarUrl"] \in Files \ files'
        PROVE  users[v]["avatarUrl"] \notin files
    BY <1>1, <2>2, <2>3, <2>4 DEF Owned
  <2> QED BY <1>1, <1>2, <2>1, <2>4 DEF AvatarsMatchFiles
<1> QED BY <1>3, <1>5, <1>6, <1>7, <1>8

LEMMA SaveLoadIInv ==
    ASSUME IInv, NEW p \in Handlers, SaveLoad(p)
    PROVE  IInv'
<1> DEFINE u == user[p]
           changes == Changes(held[p], users[u])
<1> USE DEF IInv
<1>1. /\ u \in Ids /\ users[u] # Null /\ users[u] \in Row /\ held[p] \in Row
      /\ pc[p] = "load" /\ ReadyAt(p)
  BY DEF SaveLoad, TypeOK, Ready, ReadyAt, Changing
<1>2. /\ IsPatch(changes)
      /\ \A c \in Columns : c \in DOMAIN changes <=> held[p][c] # users[u][c]
      /\ \A c \in DOMAIN changes : c \in Columns /\ changes[c] = held[p][c]
  BY <1>1, ChangesCells DEF Row
<1>3. /\ "avatarUrl" \in Columns /\ "username" \in Columns
      /\ DOMAIN held[p] = Columns
  BY <1>1 DEF Columns, Row
<1>4. CASE DOMAIN changes = {}
  <2>1. ~Uploading(p)
    <3>1. held[p]["avatarUrl"] = users[u]["avatarUrl"]
      BY <1>2, <1>3, <1>4
    <3> QED BY <1>1, <3>1 DEF Uploading, Carries, CarriesAt, Carrying,
                              Changing, Saving
  <2> QED BY <1>4, <2>1, AbandonIInv DEF SaveLoad, Abandon
<1>5. ASSUME held' = [held EXCEPT ![p] = changes], Goto(p, "update"),
             UNCHANGED <<users, files, uploader, crossed, apart>>
      PROVE  IInv'
  <2> USE <1>5
  <2>1. /\ held'[p] = changes /\ pc'[p] = "update"
        /\ \A q \in Handlers \ {p} : pc'[q] = pc[q] /\ held'[q] = held[q]
        /\ UNCHANGED <<arg, user>>
        /\ DOMAIN held' = Handlers
    BY DEF Goto, TypeOK
  <2>2. TypeOK'
    <3>1. pc' \in [Handlers -> Label]
      BY DEF Goto, TypeOK, Label
    <3>2. \A q \in Handlers : held'[q] # Null => IsPatch(held'[q])
      BY <1>2, <2>1 DEF TypeOK
    <3> QED BY <2>1, <3>1, <3>2 DEF TypeOK
  <2>3. \A c \in Columns : Edit(users[u], changes)[c] = held[p][c]
    BY <1>1, <1>2, EditCells DEF Row
  <2> HIDE DEF u, changes
  <2>4. Ready'
    <3>1. "username" \in DOMAIN changes => changes["username"] # Null
      BY <1>1, <1>2 DEF Row
    <3>2. ReadyAt(p)'
      BY <1>1, <1>2, <2>1, <3>1 DEF ReadyAt, Changing, IsPatch
    <3> QED BY <2>1, <3>2, OthersStay DEF Ready
  <2>5. Looked'
    <3>1. LookedAt(p)'
      BY <1>1, <2>1 DEF Looked, LookedAt, Changing, Uncrossed
    <3> QED BY <2>1, <3>1, OthersStay DEF Looked
  <2>6. Faithful'
    <3>1. FaithfulAt(p)'
      BY <1>1, <2>1, <2>3 DEF Faithful, FaithfulAt, u
    <3> QED BY <2>1, <3>1, OthersStay DEF Faithful
  <2>7. OneAccountPerKey'
    BY DEF OneAccountPerKey
  <2>8. "avatarUrl" \in DOMAIN changes =>
           changes["avatarUrl"] = held[p]["avatarUrl"]
    BY <1>2
  <2>9. Owned'
    BY <1>1, <1>3, <2>1, <2>8 DEF Owned, Saving
  <2>10. \A q \in Handlers : Carrying(q)' <=> Carrying(q)
    BY <1>1, <2>1 DEF Carrying, Changing
  <2>11. Carries'
    <3>1. ASSUME Carrying(p)'
          PROVE  CarriesAt(p)'
      <4>1. Carrying(p) /\ CarriesAt(p)
        BY <2>10, <3>1 DEF Carries
      <4>2. "avatarUrl" \in DOMAIN changes
        BY <1>1, <1>2, <1>3, <4>1 DEF CarriesAt, Saving
      <4> QED BY <1>1, <2>1, <2>8, <2>10, <4>1, <4>2 DEF CarriesAt, Saving
    <3>2. ASSUME NEW q \in Handlers, q # p, Carrying(q)'
          PROVE  CarriesAt(q)'
      <4>1. CarriesAt(q) /\ Carrying(q)
        BY <2>10, <3>2 DEF Carries
      <4>2. \A x \in Handlers \ {q} : x = p \/ x \in Handlers \ {p}
        OBVIOUS
      <4>3. "avatarUrl" \in DOMAIN changes =>
               changes["avatarUrl"] # arg[q].set["avatarUrl"]
        BY <1>1, <1>3, <2>8, <3>2, <4>1 DEF CarriesAt, Saving
      <4> QED BY <2>1, <2>10, <3>2, <4>1, <4>2, <4>3 DEF CarriesAt
    <3> QED BY <3>1, <3>2 DEF Carries, CarriesAt
  <2>12. AvatarsMatchFiles'
    <3>1. \A q \in Handlers : Uploading(q)' <=> Uploading(q)
      BY <1>1, <2>1 DEF Uploading
    <3> QED BY <2>1, <3>1 DEF AvatarsMatchFiles
  <2> QED BY <2>2, <2>4, <2>5, <2>6, <2>7, <2>9, <2>11, <2>12
<1> QED BY <1>4, <1>5 DEF SaveLoad

LEMMA SaveUpdateIInv ==
    ASSUME IInv, NEW p \in Handlers, SaveUpdate(p)
    PROVE  IInv'
<1> DEFINE u == user[p]
           set == arg[p].set
           f == set["avatarUrl"]
           old == users[u]["avatarUrl"]
           C == DOMAIN held[p]
           row == Edit(users[u], held[p])
<1> USE DEF IInv
<1>1. CASE Abandon(p)
  BY <1>1, AbandonIInv
<1>2. ASSUME ~Clash(row, u),
             users' = [users EXCEPT ![u] = row],
             Note(p, u, C),
             apart' = IF LetApart(p) THEN apart \cup {u} ELSE apart,
             Leave(p), UNCHANGED <<files, uploader>>, pc[p] = "update"
      PROVE  IInv'
  <2> USE <1>2
  <2>1. /\ u \in Ids /\ users[u] # Null /\ users[u] \in Row
        /\ IsPatch(held[p]) /\ IsPatch(set)
        /\ "username" \in C => held[p]["username"] # Null
        /\ ReadyAt(p) /\ FaithfulAt(p) /\ CarriesAt(p)
    BY DEF TypeOK, Ready, ReadyAt, Changing, Faithful, Carries
  <2>2. /\ C \subseteq Columns
        /\ \A c \in Columns : row[c] = IF c \in C THEN held[p][c]
                                       ELSE users[u][c]
        /\ row \in Row /\ row # Null
        /\ "avatarUrl" \in Columns
    <3>1. users[u] \in [Columns -> Cell] /\ users[u]["username"] # Null
      BY <2>1 DEF Row
    <3>2. "username" \in Columns /\ "avatarUrl" \in Columns
      BY DEF Columns
    <3>3. row \in Row
      BY <2>1, <3>1, <3>2, EditCells DEF Row
    <3> QED BY <2>1, <3>1, <3>2, <3>3, EditCells, AccountsAssumption
  <2>3. users'[u] = row /\ \A v \in Ids \ {u} : users'[v] = users[v]
    BY <2>1 DEF TypeOK
  <2>4. /\ pc'[p] = "idle" /\ crossed'[p] = {}
        /\ \A q \in Handlers \ {p} :
              /\ pc'[q] = pc[q] /\ arg'[q] = arg[q]
              /\ user'[q] = user[q] /\ held'[q] = held[q]
              /\ crossed'[q] = crossed[q] \cup ({u} \X (C \cap Seen(q, u)))
    BY DEF TypeOK, Leave, Note
  <2>5. TypeOK'
    <3>1. crossed' \in [Handlers -> SUBSET (Ids \X Columns)]
      BY <2>1, <2>2 DEF TypeOK, Note
    <3>2. apart' \subseteq Ids
      BY <2>1 DEF TypeOK
    <3> QED BY <2>1, <2>2, <3>1, <3>2 DEF TypeOK, Leave, Label
  <2> HIDE DEF u, set, f, old, C, row
  <2>6. \A v \in Ids : users[v] # Null => users'[v] # Null
    BY <2>2, <2>3
  <2>7. Ready'
    <3>1. ReadyAt(p)'
      BY <2>4 DEF ReadyAt, Changing
    <3>2. ASSUME NEW q \in Handlers, q # p
          PROVE  ReadyAt(q)'
      <4>1. ReadyAt(q)
        BY DEF Ready
      <4>2. /\ pc'[q] = pc[q] /\ arg'[q] = arg[q] /\ user'[q] = user[q]
            /\ held'[q] = held[q] /\ uploader' = uploader
            /\ pc[q] = "idle" => crossed'[q] = {}
        BY <2>4, <3>2, <4>1 DEF ReadyAt, Seen
      <4> QED BY <2>6, <4>1, <4>2 DEF ReadyAt, IsPatch
    <3> QED BY <3>1, <3>2 DEF Ready
  <2>8. Looked'
    <3> SUFFICES ASSUME NEW q \in Handlers, Uncrossed(q)', Looking(q)'
                 PROVE  LookedAt(q)'
      BY <2>7 DEF Looked, LookedAt, Looking, Ready, ReadyAt, Changing
    <3>1. /\ q # p /\ pc'[q] = pc[q] /\ arg'[q] = arg[q] /\ user'[q] = user[q]
          /\ crossed'[q] = crossed[q] \cup ({u} \X (C \cap Seen(q, u)))
          /\ Unique \subseteq Seen(q, u)
      BY <2>4 DEF Looking, Seen
    <3>2. Uncrossed(q) /\ C \cap Unique = {}
      <4>1. ASSUME NEW c \in C \cap Unique
            PROVE  FALSE
        <5>1. <<u, c>> \in crossed'[q]
          BY <3>1, <4>1
        <5> QED BY <4>1, <5>1 DEF Uncrossed
      <4> QED BY <3>1, <4>1 DEF Uncrossed
    <3>3. \A v \in Ids, c \in Unique :
             /\ users'[v] # Null => users[v] # Null
             /\ users'[v][c] = users[v][c]
      BY <2>1, <2>2, <2>3, <3>2 DEF Unique, Columns
    <3>4. LookedAt(q)
      BY DEF Looked
    <3>5. \A c \in Unique : \A value : Taken(c, value)' => Taken(c, value)
      BY <3>3 DEF Taken
    <3> QED BY <3>1, <3>2, <3>3, <3>4, <3>5 DEF LookedAt, Unique
  <2>9. Faithful'
    <3> SUFFICES ASSUME NEW q \in Handlers, pc'[q] \in Saving,
                        NEW c \in Columns, <<user[q], c>> \notin crossed'[q],
                        q # p
                 PROVE  /\ pc[q] = "load" =>
                              held[q][c]
                                 = Edit(users'[user[q]], Given(arg[q].set))[c]
                        /\ pc[q] = "update" =>
                              Edit(users'[user[q]], held[q])[c]
                                 = Edit(users'[user[q]], Given(arg[q].set))[c]
      BY <2>4 DEF Faithful, FaithfulAt, Saving
    <3>1. /\ crossed[q] \subseteq crossed'[q]
          /\ user[q] = u => c \notin C
          /\ user[q] \in Ids
      <4>1. user[q] = u => c \in Seen(q, u)
        BY <2>4 DEF Saving, Seen
      <4> QED BY <2>4, <4>1 DEF Saving, Ready, ReadyAt, Changing
    <3>2. users'[user[q]][c] = users[user[q]][c]
      BY <2>2, <2>3, <3>1
    <3>3. FaithfulAt(q)
      BY DEF Faithful
    <3> QED BY <3>1, <3>2, <3>3 DEF FaithfulAt, Edit
  <2>10. OneAccountPerKey'
    <3>1. \A v \in Ids \ {u}, c \in Unique :
             users[v] # Null /\ row[c] # Null => users[v][c] # row[c]
      BY DEF Clash
    <3> QED BY <2>3, <3>1 DEF OneAccountPerKey
  <2>11. "avatarUrl" \in C /\ held[p]["avatarUrl"] \in Files =>
            uploader[held[p]["avatarUrl"]] = u
    BY DEF Owned, Saving, u, C
  <2>12. Owned'
    <3>1. ASSUME NEW v \in Ids, users'[v] # Null, users'[v]["avatarUrl"] \in Files
          PROVE  uploader[users'[v]["avatarUrl"]] = v
      <4>1. CASE v = u
        BY <2>1, <2>2, <2>3, <2>11, <3>1, <4>1 DEF Owned
      <4>2. CASE v # u
        BY <2>3, <3>1, <4>2 DEF Owned
      <4> QED BY <4>1, <4>2
    <3> QED BY <2>4, <3>1 DEF Owned, Saving
  <2>13. Carries'
    <3> SUFFICES ASSUME NEW q \in Handlers, Carrying(q)' PROVE CarriesAt(q)'
      BY DEF Carries, CarriesAt
    <3>1. q # p /\ ~Carrying(p)' /\ pc'[p] \notin Saving
      BY <2>4 DEF Carrying, Changing, Saving
    <3>2. Carrying(q) /\ CarriesAt(q) /\ user[q] \in Ids /\ users[user[q]] # Null
      BY <2>4, <3>1 DEF Carries, Carrying, Ready, ReadyAt
    <3>3. \A x \in Handlers \ {p} : Carrying(x)' <=> Carrying(x)
      BY <2>4 DEF Carrying
    <3>4. \A x \in Handlers \ {q} : x = p \/ x \in Handlers \ {p}
      OBVIOUS
    <3>5. \A v \in Ids : users'[v] # Null =>
                            users'[v]["avatarUrl"] # arg[q].set["avatarUrl"]
      <4>1. row["avatarUrl"] # arg[q].set["avatarUrl"]
        BY <2>1, <2>2, <3>1, <3>2 DEF CarriesAt, Saving, C
      <4> QED BY <2>3, <3>2, <4>1 DEF CarriesAt
    <3>6. /\ crossed[q] \subseteq crossed'[q]
          /\ pc[q] \in Saving /\ <<user[q], "avatarUrl">> \notin crossed'[q] =>
                users'[user[q]]["avatarUrl"] = users[user[q]]["avatarUrl"]
      <4>2. crossed'[q] = crossed[q] \cup ({u} \X (C \cap Seen(q, u)))
        BY <2>4, <3>1
      <4>3. CASE user[q] = u
        <5>1. pc[q] \in Saving => "avatarUrl" \in Seen(q, u)
          BY <2>2, <4>3 DEF Saving, Seen
        <5> QED BY <2>2, <2>3, <4>2, <4>3, <5>1
      <4>4. CASE user[q] # u
        BY <2>3, <3>2, <4>2, <4>4
      <4> QED BY <4>3, <4>4
    <3> QED BY <2>4, <3>1, <3>2, <3>3, <3>4, <3>5, <3>6 DEF CarriesAt
  <2>14. /\ ~Uploading(p)'
         /\ \A q \in Handlers \ {p} : Uploading(q)' <=> Uploading(q)
         /\ apart \subseteq apart'
    BY <2>4 DEF Uploading
  <2>15. /\ u \notin apart' => u \notin apart /\ ~LetApart(p)
         /\ arg[p].op = "avatar" => Carrying(p) /\ Uploading(p)
    BY DEF Carrying, Uploading, Changing
  <2>16. ASSUME u \notin apart', "avatarUrl" \in C
         PROVE  /\ arg[p].op = "avatar" =>
                      row["avatarUrl"] = f /\ f \in files /\ old \notin files
                /\ arg[p].op # "avatar" =>
                      row["avatarUrl"] \notin Files /\ old \notin Files
    <3>1. <<u, "avatarUrl">> \notin crossed[p]
          /\ (arg[p].op # "avatar" => old \notin Files)
      BY <2>15, <2>16 DEF LetApart, u, C, old
    <3>2. arg[p].op = "avatar" =>
             row["avatarUrl"] = f /\ f \in files /\ old \notin files
      BY <2>2, <2>15, <2>16, <3>1, <2>1 DEF CarriesAt, Saving, u, C, f, set, old
    <3>3. row["avatarUrl"] = Edit(users[u], Given(set))["avatarUrl"]
      BY <2>1, <2>2, <3>1 DEF FaithfulAt, u, set, row
    <3>4. Edit(users[u], Given(set))["avatarUrl"] =
             IF "avatarUrl" \in DOMAIN set THEN f ELSE old
      BY <2>1, <2>2, GivenCells DEF Edit, f, old
    <3>5. arg[p].op # "avatar" => \A c \in DOMAIN set : set[c] \notin Files
      BY <2>1 DEF ReadyAt, Changing, set
    <3> QED BY <3>1, <3>2, <3>3, <3>4, <3>5 DEF f
  <2>17. ASSUME u \notin apart', "avatarUrl" \notin C
         PROVE  row["avatarUrl"] = old /\ ~Uploading(p)
    BY <2>1, <2>2, <2>17 DEF CarriesAt, Carrying, Uploading, Saving, Changing,
                             C, old
  <2>18. AvatarsMatchFiles'
    <3>1. ASSUME NEW v \in Ids \ apart', users'[v] # Null,
                 users'[v]["avatarUrl"] \in Files \ files
          PROVE  \E q \in Handlers : user'[q] = v /\ Uploading(q)'
      <4>1. users[v] # Null /\ users[v]["avatarUrl"] = users'[v]["avatarUrl"]
            /\ (v = u => ~Uploading(p))
        <5>1. CASE v = u
          BY <2>1, <2>2, <2>3, <2>16, <2>17, <3>1, <5>1 DEF old
        <5>2. CASE v # u
          BY <2>3, <3>1, <5>2
        <5> QED BY <5>1, <5>2
      <4>2. PICK q \in Handlers : user[q] = v /\ Uploading(q)
        BY <2>14, <3>1, <4>1 DEF AvatarsMatchFiles
      <4>3. q # p
        BY <4>1, <4>2 DEF u
      <4> QED BY <2>4, <2>14, <4>2, <4>3
    <3>2. ASSUME NEW g \in files
          PROVE  /\ uploader[g] # Null /\ users'[uploader[g]] # Null
                 /\ \/ uploader[g] \in apart'
                    \/ users'[uploader[g]]["avatarUrl"] = g
                    \/ \E q \in Handlers :
                          Uploading(q)' /\ arg'[q].set["avatarUrl"] = g
      <4>1. /\ uploader[g] \in Ids /\ uploader[g] # Null
            /\ users[uploader[g]] # Null
            /\ \/ uploader[g] \in apart
               \/ users[uploader[g]]["avatarUrl"] = g
               \/ \E q \in Handlers :
                     Uploading(q) /\ arg[q].set["avatarUrl"] = g
        BY <3>2 DEF AvatarsMatchFiles, TypeOK
      <4>2. users'[uploader[g]] # Null
        BY <2>6, <4>1
      <4>3. CASE uploader[g] \in apart'
        BY <4>1, <4>2, <4>3
      <4>4. ASSUME NEW q \in Handlers \ {p}, Uploading(q),
                   arg[q].set["avatarUrl"] = g
            PROVE  Uploading(q)' /\ arg'[q].set["avatarUrl"] = g
        BY <2>4, <2>14, <4>4
      <4>5. ASSUME uploader[g] \notin apart', Uploading(p), f = g
            PROVE  users'[uploader[g]]["avatarUrl"] = g
        <5>1. arg[p].op = "avatar" /\ "avatarUrl" \in C /\ uploader[g] = u
          BY <2>1, <2>15, <4>5 DEF Uploading, CarriesAt, Saving, C, ReadyAt,
                                   Changing, f, set, u
        <5> QED BY <2>3, <2>16, <4>1, <4>5, <5>1
      <4>6. ASSUME uploader[g] \notin apart',
                   users[uploader[g]]["avatarUrl"] = g
            PROVE  users'[uploader[g]]["avatarUrl"] = g
        <5>1. CASE uploader[g] # u
          BY <2>3, <4>1, <4>6, <5>1
        <5>2. CASE uploader[g] = u
          <6>1. g \in Files
            BY <3>2 DEF TypeOK
          <6> QED BY <2>1, <2>3, <2>16, <2>17, <3>2, <4>6, <5>2, <6>1 DEF old
        <5> QED BY <5>1, <5>2
      <4>7. CASE uploader[g] \notin apart'
        <5>1. \A q \in Handlers : q = p \/ q \in Handlers \ {p}
          OBVIOUS
        <5>2. arg[p].set["avatarUrl"] = f
          BY DEF f, set
        <5> QED BY <2>14, <4>1, <4>2, <4>4, <4>5, <4>6, <4>7, <5>1, <5>2
      <4> QED BY <4>3, <4>7
    <3> QED BY <3>1, <3>2 DEF AvatarsMatchFiles
  <2> QED BY <2>5, <2>7, <2>8, <2>9, <2>10, <2>12, <2>13, <2>18
<1> QED BY <1>1, <1>2 DEF SaveUpdate

-----------------------------------------------------------------------------
LEMMA NextIInv == IInv /\ [Next]_vars => IInv'
<1> SUFFICES ASSUME IInv, [Next]_vars PROVE IInv'
  OBVIOUS
<1>1. CASE UNCHANGED vars
  <2>1. /\ users' = users /\ files' = files /\ pc' = pc /\ arg' = arg
        /\ user' = user /\ held' = held /\ uploader' = uploader
        /\ crossed' = crossed /\ apart' = apart
    BY <1>1 DEF vars, locals, history
  <2> USE <2>1 DEF IInv
  <2>2. TypeOK'
    BY DEF TypeOK, IsPatch
  <2>3. Ready'
    BY DEF Ready, ReadyAt, IsPatch
  <2>4. Looked'
    BY DEF Looked, LookedAt, Uncrossed, Taken
  <2>5. Faithful'
    BY DEF Faithful, FaithfulAt, Edit
  <2>6. Owned' /\ OneAccountPerKey'
    BY DEF Owned, OneAccountPerKey
  <2>7. Carries'
    BY DEF Carries, CarriesAt, Carrying
  <2>8. AvatarsMatchFiles'
    BY DEF AvatarsMatchFiles, Uploading
  <2> QED BY <2>2, <2>3, <2>4, <2>5, <2>6, <2>7, <2>8
<1>2. CASE Next
  <2> SUFFICES ASSUME NEW p \in Handlers, Handle(p) PROVE IInv'
    BY <1>2 DEF Next
  <2>1. CASE Fail(p)
    BY <2>1, AbandonIInv DEF Fail
  <2> QED BY <2>1, SignupIInv, ValidateStellarUserIInv, LookUpIInv,
             InsertUserIInv, EditIInv, UploadAvatarIInv, FindUserIInv,
             WriteFileFailsIInv, SaveLoadIInv, SaveUpdateIInv DEF Handle
<1> QED BY <1>1, <1>2

LEMMA SpecIInv == Spec => []IInv
BY InitIInv, NextIInv, PTL DEF Spec

-----------------------------------------------------------------------------
\* Every variable keeps its type; in particular no account is without a name.
THEOREM TypeCorrect == Spec => []TypeOK
<1>1. IInv => TypeOK
  BY DEF IInv
<1> QED BY <1>1, SpecIInv, PTL

\* Two accounts never share an e-mail address, a user name or a wallet, in
\* whatever order sign-ups, sign-ins, links and saves reach the database.
THEOREM KeysAreUnique == Spec => []OneAccountPerKey
<1>1. IInv => OneAccountPerKey
  BY DEF IInv
<1> QED BY <1>1, SpecIInv, PTL

\* A profile and the uploads directory agree, unless an upload is under way,
\* has failed half way or has crossed another write of the avatar.
THEOREM AvatarsAreKept == Spec => []AvatarsMatchFiles
<1>1. IInv => AvatarsMatchFiles
  BY DEF IInv
<1> QED BY <1>1, SpecIInv, PTL

LEMMA InsertIsForeseen ==
    ASSUME IInv, NEW p \in Handlers, Uncrossed(p), pc[p] = "insert"
    PROVE  ~Clash(NewAccount(arg[p].set), Null) \/ Namesake(p)
<1> DEFINE set == arg[p].set
           row == NewAccount(set)
<1>1. ReadyAt(p) /\ LookedAt(p)
  BY DEF IInv, Ready, Looked
<1>2. \A c \in Columns : row[c] = IF c \in DOMAIN set THEN set[c] ELSE Null
  BY NewAccountCells
<1> HIDE DEF row
<1>3. CASE arg[p].op = "signup" /\ DOMAIN set = {"email", "username", "displayName"}
  <2>1. ~Taken("email", set["email"]) /\ ~Taken("username", set["username"])
    BY <1>1, <1>3 DEF LookedAt
  <2>2. /\ row["email"] = set["email"]
        /\ row["username"] = set["username"]
        /\ row["walletAddress"] = Null
    BY <1>2, <1>3 DEF Columns
  <2>3. ~Clash(row, Null)
    BY <2>1, <2>2 DEF Clash, Taken, Unique
  <2> QED BY <2>3 DEF row
<1>4. CASE arg[p].op = "signin" /\ DOMAIN set = {"walletAddress", "username", "displayName"}
  <2>1. ~Taken("walletAddress", set["walletAddress"])
    BY <1>1, <1>4 DEF LookedAt
  <2>2. /\ row["walletAddress"] = set["walletAddress"]
        /\ row["username"] = set["username"]
        /\ row["email"] = Null
    BY <1>2, <1>4 DEF Columns
  <2>3. ~Taken("username", set["username"]) => ~Clash(row, Null)
    BY <2>1, <2>2 DEF Clash, Taken, Unique
  <2> QED BY <1>4, <2>3 DEF row, Namesake
<1> QED BY <1>1, <1>3, <1>4 DEF ReadyAt

LEMMA UpdateIsForeseen ==
    ASSUME IInv, NEW p \in Handlers, Uncrossed(p), pc[p] = "update"
    PROVE  ~Clash(Edit(users[user[p]], held[p]), user[p])
<1> DEFINE u == user[p]
           set == arg[p].set
           row == Edit(users[u], held[p])
<1>1. ReadyAt(p) /\ LookedAt(p) /\ FaithfulAt(p)
  BY DEF IInv, Ready, Looked, Faithful
<1>2. u \in Ids /\ users[u] # Null /\ users[u] \in [Columns -> Cell]
  BY <1>1 DEF IInv, TypeOK, ReadyAt, Changing, Row
<1>3. IsPatch(set)
  BY <1>1 DEF ReadyAt
<1>4. \A c \in Unique : <<u, c>> \notin crossed[p] /\ c \in Columns
  BY DEF Uncrossed, Unique, Columns
<1>5. \A c \in Unique : row[c] = Edit(users[u], Given(set))[c]
  BY <1>1, <1>4 DEF FaithfulAt
<1> HIDE DEF row, u, set
<1>6. \A c \in Unique :
         row[c] = IF c \in DOMAIN set THEN set[c] ELSE users[u][c]
  <2>1. \A c \in Columns \ {"displayName"} :
           Edit(users[u], Given(set))[c] = IF c \in DOMAIN set THEN set[c]
                                           ELSE users[u][c]
    BY <1>2, <1>3, GivenCells DEF Edit
  <2>2. "displayName" \notin Unique
    BY DEF Unique
  <2> QED BY <1>4, <1>5, <2>1, <2>2
<1>7. "email" \notin DOMAIN set /\ "username" \notin DOMAIN set
  BY <1>1 DEF ReadyAt, Changing, set
<1> SUFFICES ASSUME NEW v \in Ids \ {u}, NEW c \in Unique,
                    users[v] # Null, row[c] # Null, users[v][c] = row[c]
             PROVE  FALSE
  BY DEF Clash, row, u
<1>8. CASE c \notin DOMAIN set
  BY <1>2, <1>6, <1>8 DEF IInv, OneAccountPerKey
<1>9. CASE c \in DOMAIN set
  <2>1. c = "walletAddress"
    BY <1>7, <1>9 DEF Unique
  <2>2. users[v]["walletAddress"] # set["walletAddress"]
    BY <1>1, <1>9, <2>1 DEF LookedAt, Changing, u, set
  <2> QED BY <1>6, <1>9, <2>1, <2>2
<1> QED BY <1>8, <1>9

\* The look-ups before an insert or a save suffice while nobody else writes a
\* unique column: the constraints only ever answer for requests that cross,
\* or for the name a wallet account gets.
THEOREM LookUpsSuffice == Spec => []ConflictIsForeseen
<1>1. IInv => ConflictIsForeseen
  BY InsertIsForeseen, UpdateIsForeseen DEF ConflictIsForeseen, Uncrossed
<1> QED BY <1>1, SpecIInv, PTL

\* The step by which p completes its update.
Completes(p) == pc[p] = "update" /\ pc'[p] = "idle" /\ users' # users

LEMMA OnlyOwnUpdate ==
    ASSUME IInv, [Next]_vars, NEW p \in Handlers, Completes(p)
    PROVE  /\ user[p] \in Ids
           /\ users' = [users EXCEPT
                           ![user[p]] = Edit(users[user[p]], held[p])]
<1>1. PICK q \in Handlers : Handle(q)
  BY DEF Next, vars, Completes
<1>2. ASSUME q # p
      PROVE  FALSE
  <2>1. \E label \in Label : pc' = [pc EXCEPT ![q] = label]
    BY <1>1 DEF Handle, Signup, SignupFindEmail, SignupFindUsername,
           ValidateStellarUser, FindWallet, InsertUser, UpdateProfile,
           UpdateSocialLinks, UpdateWalletAddress, FindWalletOwner,
           UploadAvatar, FindUser, WriteFileFails, SaveLoad, SaveUpdate, Fail,
           Enter, Goto, Leave, Abandon, Label
  <2> QED BY <1>2, <2>1 DEF Completes, IInv, TypeOK
<1>3. SaveUpdate(p) /\ ~Abandon(p)
  BY <1>1, <1>2
     DEF Completes, Handle, Signup, SignupFindEmail, SignupFindUsername,
         ValidateStellarUser, FindWallet, InsertUser, UpdateProfile,
         UpdateSocialLinks, UpdateWalletAddress, FindWalletOwner,
         UploadAvatar, FindUser, WriteFileFails, SaveLoad, Fail, Enter, Abandon
<1>4. user[p] \in Ids
  BY DEF IInv, Ready, ReadyAt, Changing, Completes
<1> QED BY <1>3, <1>4 DEF SaveUpdate

\* A completed update has changed the columns it was asked to and no other,
\* apart from those another request has written since it read the account.
THEOREM UpdatesAsAsked == Spec => ChangesAsAsked
<1>1. ASSUME IInv, [Next]_vars, NEW p \in Handlers, Completes(p),
             NEW c \in Columns, <<user[p], c>> \notin crossed[p]
      PROVE  users'[user[p]][c] = Edit(users[user[p]], Given(arg[p].set))[c]
  <2>1. users'[user[p]] = Edit(users[user[p]], held[p])
    BY <1>1, OnlyOwnUpdate DEF IInv, TypeOK
  <2> QED BY <1>1, <2>1 DEF IInv, Faithful, FaithfulAt, Completes
<1>2. IInv /\ [Next]_vars =>
         [\A p \in Handlers :
            pc[p] = "update" /\ pc'[p] = "idle" /\ users' # users =>
                \A c \in Columns :
                    <<user[p], c>> \notin crossed[p] =>
                        users'[user[p]][c] =
                            Edit(users[user[p]], Given(arg[p].set))[c]]_vars
  BY <1>1 DEF Completes
<1> QED BY <1>2, SpecIInv, PTL DEF Spec, ChangesAsAsked
=============================================================================
