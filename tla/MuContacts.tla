---------------------------- MODULE MuContacts -----------------------------
(***************************************************************************)
(* The store together with the contacts cache it feeds: mu-contacts.c, the *)
(* part of mu-store-write.cc that puts the contacts of a message in the    *)
(* cache, and the readers of the cache file, mu cfind and the contacts     *)
(* command of the server.                                                  *)
(*                                                                         *)
(* Contacts enter the cache when a document is made, before the document   *)
(* is stored, and reach the file only in the destructor of the store, so   *)
(* neither a batch that is rolled back nor one that is committed says      *)
(* anything about them.                                                    *)
(***************************************************************************)
EXTENDS MuStore, Sequences

CONSTANTS Mails,           \* body -> the message: its date and its contacts
          Group,           \* address -> its group in the key file
          MyAddresses,     \* what --my-address names
          LocalAddresses,  \* addresses without an @
          NoName,          \* the name of a contact that has none
          Broken,          \* a file that is no key file: mu_contacts_new fails
          IntLimit,        \* one more than the largest value of an int
          SaveFaults,      \* bound: failures to write the cache file
          Patterns         \* regular expressions: the strings they match

ASSUME GroupsAssumption ==
  MyAddresses \cup LocalAddresses \subseteq DOMAIN Group
ASSUME IntAssumption == IntLimit \in Nat \ {0} /\ SaveFaults \in Nat
ASSUME MailsAssumption ==
  \A b \in Bodies : LET cs == Mails[b].contacts
                    IN  /\ Mails[b].date \in Int
                        /\ Len(cs) \in Nat /\ DOMAIN cs = 1..Len(cs)

VARIABLES cache,      \* MuContacts::_hash
          dirty,      \* MuContacts::_dirty
          file,       \* the contacts file, or Broken
          mine,       \* my addresses, as this process was told them
          badSaves,   \* how many more times writing the file may fail
          lost,       \* history: contacts of stored messages were lost
          seen        \* history: contacts that were put in the cache

cacheVars == <<cache, dirty, file, mine, badSaves, lost, seen>>

NoContacts == << >>
Formats == {"plain", "org-contact"}  \* one that shows all, one that does not

-----------------------------------------------------------------------------
(* mu-contacts.c.                                                          *)

\* Punctuation is folded into a few letters: addresses may share a group.
EncodeEmailAddress(address) == Group[address]

\* contact_info_new
ContactInfo(email, name, personal, tstamp) ==
  [email |-> email, name |-> name, personal |-> personal, tstamp |-> tstamp]

\* g_hash_table_insert, which replaces what was under the key.
Put(f, g, e) == [x \in DOMAIN f \cup {g} |-> IF x = g THEN e ELSE f[x]]

\* Mutant: contacts without a name are not worth keeping.
AddContactNamed(c, e) ==
  LET g == EncodeEmailAddress(e.email)
  IN  IF /\ e.name # NoName
         /\ g \notin DOMAIN c.cache \/ c.cache[g].tstamp < e.tstamp
      THEN [cache |-> Put(c.cache, g, e), dirty |-> TRUE]
      ELSE c

\* Mutant: whatever comes last is the contact.
AddContactLast(c, e) ==
  [cache |-> Put(c.cache, EncodeEmailAddress(e.email), e), dirty |-> TRUE]

\* Mutant: the cache is keyed with the address, the file with its group.
AddContactByAddress(c, e) ==
  [cache |-> Put(c.cache, e.email, e), dirty |-> TRUE]

\* mu_contacts_add: a contact is replaced by a newer one that has a name.
AddContact(c, e) ==
  LET g == EncodeEmailAddress(e.email)
  IN  IF \/ g \notin DOMAIN c.cache
         \/ c.cache[g].tstamp < e.tstamp /\ e.name # NoName
      THEN [cache |-> Put(c.cache, g, e), dirty |-> TRUE]
      ELSE c

\* each_keyval: the timestamp is written as an int.
AsInt(t) == ((t + IntLimit) % (2 * IntLimit)) - IntLimit
KeyValue(e) == [e EXCEPT !.tstamp = AsInt(@)]

\* serialize_cache writes the key file that was loaded, with every contact
\* of the cache set in it.
Serialized(f, c) ==
  [g \in DOMAIN c \cup DOMAIN f |->
     IF g \in DOMAIN c THEN KeyValue(c[g]) ELSE f[g]]

\* each_contact: a pattern matches the address or else the name.
MatchesPattern(e, pattern) == {e.email, e.name} \cap pattern # {}

\* mu_contacts_foreach without a pattern, and with one.
Foreach(f) == {f[g] : g \in DOMAIN f}
ForeachMatching(f, pattern) == {e \in Foreach(f) : MatchesPattern(e, pattern)}

-----------------------------------------------------------------------------
(* The contacts of a message (mu-store-write.cc).                          *)

Contacts(b) == Mails[b].contacts

\* each_contact_check_if_personal: any kind of contact counts.
Personal(b) == \E i \in DOMAIN Contacts(b) : Contacts(b)[i].address \in mine

\* each_contact_info: Reply-To is left out.
ListedOf ==
  [b \in Bodies |-> {i \in DOMAIN Contacts(b) : Contacts(b)[i].type # "reply-to"}]
Listed(b) == ListedOf[b]

Info(b, i) == ContactInfo(Contacts(b)[i].address, Contacts(b)[i].name,
                          Personal(b), Mails[b].date)

\* new_doc_from_message: the contacts are added one by one.
NewDocFromMessage(b) ==
  LET AddedUpTo[i \in 0..Len(Contacts(b))] ==
        IF i = 0 THEN [cache |-> cache, dirty |-> dirty]
        ELSE IF i \in Listed(b) THEN AddContact(AddedUpTo[i - 1], Info(b, i))
        ELSE AddedUpTo[i - 1]
      after == AddedUpTo[Len(Contacts(b))]
  IN  /\ cache' = after.cache
      /\ dirty' = after.dirty
      /\ seen' = seen \cup {Info(b, i) : i \in Listed(b)}
      /\ UNCHANGED <<file, mine, badSaves, lost>>

-----------------------------------------------------------------------------
(* The store and its cache.                                                *)

CacheInit ==
  /\ Init
  /\ file \in {NoContacts, Broken}
  /\ cache = NoContacts
  /\ dirty = FALSE
  /\ mine = {}
  /\ badSaves = SaveFaults
  /\ lost = FALSE
  /\ seen = {}

\* The constructor opens the database, then the cache; mu index names my
\* addresses, mu add does not.
OpenWithContacts(rebuild, my) ==
  /\ file # Broken
  /\ Open(rebuild)
  /\ IF isOpen'
     THEN /\ cache' = file
          /\ mine' = my
     ELSE UNCHANGED <<cache, mine>>
  /\ UNCHANGED <<dirty, file, badSaves, lost, seen>>

\* By the time the cache turns out broken the database was overwritten, if
\* it was to be rebuilt; nothing else of what the constructor did is saved.
OpenWithBrokenContacts(rebuild) ==
  /\ file = Broken
  /\ ~isOpen
  /\ \/ /\ OpenWritable(store, rebuild) # {}
        /\ rebuild
        /\ store' = Unopened([store EXCEPT !.disk = EmptyContent])
     \/ /\ ~rebuild \/ OpenWritable(store, rebuild) = {}
        /\ UNCHANGED store
  /\ ret' = Returned("refused", 0, NoPath)
  /\ UNCHANGED <<isOpen, told, unsaved, cacheVars>>

AddWithContacts(p, b) == isOpen /\ NewDocFromMessage(b) /\ Add(p, b)
UpdateWithContacts(id, p, b) ==
  isOpen /\ NewDocFromMessage(b) /\ Update(id, p, b)
RemoveWithContacts(p) == Remove(p) /\ UNCHANGED cacheVars
FlushWithContacts == Flush /\ UNCHANGED cacheVars

\* The contacts that were not saved are gone with the process.
Forget(wrote) ==
  /\ cache' = NoContacts
  /\ dirty' = FALSE
  /\ mine' = {}
  /\ lost' = (lost \/ (dirty /\ ~wrote))
  /\ UNCHANGED seen

\* mu_contacts_destroy, then the rest of the destructor of the store.
CloseWithContacts ==
  /\ Close
  /\ \/ /\ file' = IF dirty THEN Serialized(file, cache) ELSE file
        /\ Forget(TRUE)
        /\ UNCHANGED badSaves
     \/ /\ dirty
        /\ badSaves > 0
        /\ badSaves' = badSaves - 1
        /\ Forget(FALSE)
        /\ UNCHANGED file

CrashWithContacts == Crash /\ Forget(FALSE) /\ UNCHANGED <<file, badSaves>>

CacheNext ==
  \/ \E rebuild \in BOOLEAN, my \in {{}, MyAddresses} :
       OpenWithContacts(rebuild, my)
  \/ \E rebuild \in BOOLEAN : OpenWithBrokenContacts(rebuild)
  \/ \E p \in Paths, b \in Bodies : AddWithContacts(p, b)
  \/ \E id \in DocIds, p \in Paths, b \in Bodies : UpdateWithContacts(id, p, b)
  \/ \E p \in Paths : RemoveWithContacts(p)
  \/ FlushWithContacts
  \/ CloseWithContacts
  \/ CrashWithContacts

CacheSpec == CacheInit /\ [][CacheNext]_<<vars, cacheVars>>

-----------------------------------------------------------------------------
(* The readers, which load the file and never write it.                    *)

\* Mutant: the filter on personal contacts is left out.
PassesAnyone(e, personal, after) == e.tstamp >= after

\* each_contact of mu-cmd-cfind.c and each_contact_sexp of mu-cmd-server.c
Passes(e, personal, after) == (personal => e.personal) /\ e.tstamp >= after

NeedsName == {"mutt-alias", "wl", "org-contact"}

\* mu cfind: the exit codes it may end with, and the contacts it shows.  The
\* count decides the code; it is taken before the filters, and not taken at
\* all when the pattern is no regular expression.
Shown(found, personal, after, format) ==
  {e \in found : /\ Passes(e, personal, after)
                 /\ format \in NeedsName => e.name # NoName}

CFindAll(f, personal, after, format) ==
  [codes |-> IF f = NoContacts THEN {"no matches"} ELSE {"ok"},
   rows  |-> Shown(Foreach(f), personal, after, format)]

CFind(f, pattern, personal, after, format) ==
  LET found == ForeachMatching(f, pattern)
  IN  [codes |-> IF found = {} THEN {"no matches"} ELSE {"ok"},
       rows  |-> Shown(found, personal, after, format)]

CFindBadPattern == [codes |-> {"no matches", "contacts error"}, rows |-> {}]

\* cmd_contacts, also while this server has contacts it has not saved
CmdContacts(f, personal, after) ==
  {e \in Foreach(f) : /\ Passes(e, personal, after)
                      /\ e.email \notin LocalAddresses}

-----------------------------------------------------------------------------
(* Properties.                                                             *)

\* The cache and the file hold contacts under their own groups.
UnderItsGroup(f) == \A g \in DOMAIN f : EncodeEmailAddress(f[g].email) = g

ContactsTypeOK ==
  /\ UnderItsGroup(cache)
  /\ file # Broken => UnderItsGroup(file)
  /\ {dirty, lost} \subseteq BOOLEAN
  /\ badSaves \in 0..SaveFaults
  /\ ~isOpen => cache = NoContacts /\ ~dirty

Known == IF isOpen THEN cache ELSE file

\* Unless a process that had new contacts was killed, or could not write the
\* file, the group of every address of every stored message has an entry, the
\* only one for all addresses of the group, so that of two addresses whose
\* keys are encoded alike one is listed (mu-cfind.1: "a list of unique e-mail
\* addresses found"); whatever batches were rolled back and whichever document
\* was replaced.
StoredContactsAreKnown ==
  ~lost /\ file # Broken =>
    \A d \in store.work.docs : \A i \in Listed(d.body) :
      EncodeEmailAddress(Contacts(d.body)[i].address) \in DOMAIN Known

\* The entry of a group is at least as recent as every named contact of the
\* group that was seen, over restarts as well, as long as the dates of all
\* contacts of the group fit in an int and nothing was lost.
InGroup(g) == {e \in seen : EncodeEmailAddress(e.email) = g}
NewestNameStays ==
  file # Broken /\ ~lost => \A e \in seen :
    LET g == EncodeEmailAddress(e.email)
    IN  e.name # NoName /\ (\A x \in InGroup(g) : x.tstamp < IntLimit)
          => g \in DOMAIN Known /\ Known[g].tstamp >= e.tstamp

\* The cache keeps an entry for each group that a stored message has an address
\* of, with its newest name, over restarts as well, and each in its place.
ContactsAreKept == ContactsTypeOK /\ StoredContactsAreKnown /\ NewestNameStays

\* What mu cfind and mu4e list, with any of their filters, is a contact that
\* was seen: in a personal message if they ask for personal contacts
\* (mu-cfind.1: "only show addresses seen in messages where one of 'my'
\* e-mail addresses was seen"), and after the time they ask for.
WasSeen(e, personal, after) ==
  \E x \in seen : /\ x.email = e.email /\ x.name = e.name
                  /\ x.tstamp >= after
                  /\ personal => x.personal

Times == {Mails[b].date : b \in Bodies}

ListedWasSeen ==
  ~isOpen /\ file # Broken =>
    \A personal \in BOOLEAN, after \in Times :
      /\ \A e \in CmdContacts(file, personal, after) :
           WasSeen(e, personal, after)
      /\ \A format \in Formats :
           \A e \in CFindAll(file, personal, after, format).rows
                      \cup UNION {CFind(file, p, personal, after, format).rows :
                                     p \in Patterns} :
             WasSeen(e, personal, after)

=============================================================================
