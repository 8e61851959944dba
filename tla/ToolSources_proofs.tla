--------------------------- MODULE ToolSources_proofs ---------------------------
(* Proofs about what the agent loop draws on: plugins, memory backends, MCP       *)
(* servers and their clients, and the streams of the providers.                   *)
EXTENDS McpManager, McpClient, PluginManager, MemoryManager, ProviderStreams,
        FiniteSetTheorems, SequenceTheorems, WellFoundedInduction, TLAPS

-----------------------------------------------------------------------------
(* Plugins                                                                 *)

\* What is in the registries is listed, and only for a plugin that is there.
RegisteredInv ==
    \A p \in Plugins :
        /\ p \in plug.tools <=> plug.rt[p].listed
        /\ plug.provider = p => plug.rt[p].listed
        /\ plug.rt[p].listed => Present(p)

\* A disabled plugin has nothing there, and nothing under way that could put it there.
SwitchedOffInv ==
    \A p \in Plugins : Present(p) /\ ~plug.rt[p].enabled /\ p \notin cut =>
        /\ plug.rt[p].status = "disabled" /\ ~plug.rt[p].listed
        /\ \A c \in Callers : plug.activation[c].of # p

\* What the loader has not come to is not there, nor being activated, and stored as it was.
UnreadInv ==
    \A e \in plug.unread :
        /\ ~Present(e.id) /\ life[e.id] = "installed"
        /\ \A c \in Callers : plug.activation[c].of # e.id
        /\ \A f \in plug.unread \cup plug.stored : f.id = e.id => f = e

\* A plugin is there from its install to its uninstall, once the loader has read it.
LivesInv ==
    \A p \in Plugins :
        /\ Present(p) => life[p] = "installed"
        /\ life[p] = "installed" =>
              Present(p) \/ p \in passedOver \/ \E e \in plug.unread : e.id = p

ActivationsInv == \A c \in Callers : plug.activation[c].at # "none" => plug.activation[c].of \in Plugins

PluginInv ==
    /\ PluginTypeOK
    /\ RegisteredInv
    /\ SwitchedOffInv
    /\ UnreadInv
    /\ LivesInv
    /\ ActivationsInv
    /\ StoreFollowsUser

\* The list that persist() stores.
Listing(rt) ==
    {[id |-> p, enabled |-> rt[p].enabled, granted |-> rt[p].granted] :
        p \in {q \in Plugins : rt[q].status # "absent"}}

PlugType ==
    [rt: [Plugins -> PluginRuntime], tools: SUBSET Plugins,
     provider: Plugins \cup {NoPlugin}, stored: SUBSET StoredPlugin,
     unread: SUBSET StoredPlugin, activation: [Callers -> Activation]]

LEMMA ListingStored ==
  ASSUME NEW rt \in [Plugins -> PluginRuntime]
  PROVE  /\ Listing(rt) \subseteq StoredPlugin
         /\ \A p \in Plugins : rt[p].status # "absent" => \E e \in Listing(rt) : e.id = p
         /\ \A e \in Listing(rt) : /\ e.id \in Plugins /\ rt[e.id].status # "absent"
                                   /\ e.enabled = rt[e.id].enabled /\ e.granted = rt[e.id].granted
<1> DEFINE E(p) == [id |-> p, enabled |-> rt[p].enabled, granted |-> rt[p].granted]
           P == {q \in Plugins : rt[q].status # "absent"}
<1>1. \A p \in P : /\ E(p) \in StoredPlugin /\ E(p).id = p
                   /\ E(p).enabled = rt[p].enabled /\ E(p).granted = rt[p].granted
  BY DEF StoredPlugin, PluginRuntime
<1>2. Listing(rt) = {E(p) : p \in P}
  BY DEF Listing
<1> HIDE DEF E
<1>3. Listing(rt) \subseteq StoredPlugin
  BY <1>1, <1>2
<1>4. \A p \in P : E(p) \in Listing(rt)
  BY <1>2
<1>5. \A e \in Listing(rt) : \E p \in P : e = E(p)
  BY <1>2
<1>6. \A e \in Listing(rt) : /\ e.id \in Plugins /\ rt[e.id].status # "absent"
                             /\ e.enabled = rt[e.id].enabled /\ e.granted = rt[e.id].granted
  BY <1>1, <1>5
<1> QED BY <1>1, <1>3, <1>4, <1>6

\* Each function of the manager's state, field by field.
LEMMA PersistedFields ==
  ASSUME NEW m \in PlugType, NEW n, n = Persisted(m)
  PROVE  /\ n \in PlugType /\ n.stored = Listing(m.rt)
         /\ n.rt = m.rt /\ n.tools = m.tools /\ n.provider = m.provider
         /\ n.unread = m.unread /\ n.activation = m.activation
<1>1. Listing(m.rt) \subseteq StoredPlugin
  BY ListingStored DEF PlugType
<1>2. n = [m EXCEPT !.stored = Listing(m.rt)]
  BY DEF Persisted, Listing
<1> QED BY <1>1, <1>2 DEF PlugType

LEMMA DeactivatedFields ==
  ASSUME NEW m \in PlugType, NEW p \in Plugins, NEW n, n = Deactivated(m, p)
  PROVE  /\ n \in PlugType
         /\ n.tools = m.tools \ {p} /\ n.provider # p /\ n.provider \in {m.provider, NoPlugin}
         /\ n.rt = [m.rt EXCEPT ![p] = [m.rt[p] EXCEPT !.listed = FALSE]]
         /\ n.stored = m.stored /\ n.unread = m.unread /\ n.activation = m.activation
<1> DEFINE r == [m.rt[p] EXCEPT !.listed = FALSE]
           rt == [m.rt EXCEPT ![p] = r]
           v == IF m.provider = p THEN NoPlugin ELSE m.provider
           t == m.tools \ {p}
<1>1. n = [m EXCEPT !.tools = t, !.provider = v, !.rt = rt]
  BY DEF Deactivated, PlugType
<1>2. r \in PluginRuntime
  <2>1. m.rt[p] \in PluginRuntime
    BY DEF PlugType
  <2> QED BY <2>1 DEF PluginRuntime
<1>3. rt \in [Plugins -> PluginRuntime] /\ t \subseteq Plugins
  BY <1>2 DEF PlugType
<1>4. v \in Plugins \cup {NoPlugin} /\ v # p /\ v \in {m.provider, NoPlugin}
  BY NoPluginAssumption DEF PlugType
<1> HIDE DEF rt, v, t
<1>5. /\ n \in PlugType /\ n.tools = t /\ n.provider = v /\ n.rt = rt
      /\ n.stored = m.stored /\ n.unread = m.unread /\ n.activation = m.activation
  BY <1>1, <1>3, <1>4 DEF PlugType
<1> QED BY <1>4, <1>5 DEF rt, t

\* An activation by c, or none and the status tells that.
LEMMA BegunFields ==
  ASSUME NEW m \in PlugType, NEW p \in Plugins, NEW c, NEW n, n = ActivationBegins(m, p, c)
  PROVE  /\ n \in PlugType
         /\ n.tools = m.tools /\ n.provider = m.provider /\ n.stored = m.stored /\ n.unread = m.unread
         /\ \A q \in Plugins \ {p} : n.rt[q] = m.rt[q]
         /\ n.rt[p].enabled = m.rt[p].enabled /\ n.rt[p].granted = m.rt[p].granted
         /\ n.rt[p].listed = m.rt[p].listed
         /\ m.rt[p].enabled => n.rt[p] = m.rt[p]
         /\ ~m.rt[p].enabled => n.rt[p].status = "disabled" /\ n.activation = m.activation
         /\ \A d \in Callers : \/ n.activation[d] = m.activation[d]
                               \/ n.activation[d].of = p /\ n.activation[d].at = "verify"
<1>1. CASE m.rt[p].enabled
  <2> DEFINE a == [of |-> p, at |-> "verify"]
             as == [m.activation EXCEPT ![c] = a]
  <2>1. n = [m EXCEPT !.activation = as]
    BY <1>1 DEF ActivationBegins, PlugType
  <2>2. a \in Activation /\ a.of = p /\ a.at = "verify"
    BY DEF Activation
  <2> HIDE DEF a
  <2>3. as \in [Callers -> Activation] /\ \A d \in Callers : as[d] = m.activation[d] \/ as[d] = a
    BY <2>2 DEF PlugType
  <2> HIDE DEF as
  <2>4. /\ n \in PlugType /\ n.activation = as /\ n.rt = m.rt
        /\ n.tools = m.tools /\ n.provider = m.provider /\ n.stored = m.stored /\ n.unread = m.unread
    BY <2>1, <2>3 DEF PlugType
  <2> QED BY <1>1, <2>2, <2>3, <2>4
<1>2. CASE ~m.rt[p].enabled
  <2> DEFINE r == [m.rt[p] EXCEPT !.status = "disabled"]
             rt == [m.rt EXCEPT ![p] = r]
  <2>1. n = [m EXCEPT !.rt = rt]
    BY <1>2 DEF ActivationBegins, PlugType
  <2>2. /\ r \in PluginRuntime /\ r.status = "disabled"
        /\ r.enabled = m.rt[p].enabled /\ r.granted = m.rt[p].granted /\ r.listed = m.rt[p].listed
    <3>1. m.rt[p] \in PluginRuntime
      BY DEF PlugType
    <3> QED BY <3>1 DEF PluginRuntime
  <2> HIDE DEF r
  <2>3. /\ rt \in [Plugins -> PluginRuntime]
        /\ rt[p] = r /\ \A q \in Plugins \ {p} : rt[q] = m.rt[q]
    BY <2>2 DEF PlugType
  <2> HIDE DEF rt
  <2>4. /\ n \in PlugType /\ n.rt = rt /\ n.activation = m.activation
        /\ n.tools = m.tools /\ n.provider = m.provider /\ n.stored = m.stored /\ n.unread = m.unread
    BY <2>1, <2>3 DEF PlugType
  <2> QED BY <1>2, <2>2, <2>3, <2>4
<1> QED BY <1>1, <1>2

\* One record rewritten.
LEMMA RowFields ==
  ASSUME NEW m \in PlugType, NEW p \in Plugins, NEW r \in PluginRuntime, NEW n, n = [m EXCEPT !.rt[p] = r]
  PROVE  /\ n \in PlugType
         /\ n.rt[p] = r /\ \A q \in Plugins \ {p} : n.rt[q] = m.rt[q]
         /\ n.tools = m.tools /\ n.provider = m.provider /\ n.stored = m.stored
         /\ n.unread = m.unread /\ n.activation = m.activation
<1> DEFINE rt == [m.rt EXCEPT ![p] = r]
<1>1. n = [m EXCEPT !.rt = rt]
  BY DEF PlugType
<1>2. rt \in [Plugins -> PluginRuntime] /\ rt[p] = r /\ \A q \in Plugins \ {p} : rt[q] = m.rt[q]
  BY DEF PlugType
<1> HIDE DEF rt
<1> QED BY <1>1, <1>2 DEF PlugType

\* What a disabled plugin is like.
SwitchedOff(p) ==
    Present(p) /\ ~plug.rt[p].enabled /\ p \notin cut =>
        /\ plug.rt[p].status = "disabled" /\ ~plug.rt[p].listed
        /\ \A c \in Callers : plug.activation[c].of # p

\* A call of the window that stores the list changes one plugin, which the loader has
\* come to.
LEMMA CallKeeps ==
  ASSUME PluginInv, NEW p \in Plugins,
         plug' \in PlugType, plug'.unread = plug.unread, plug'.stored = Listing(plug'.rt),
         life' \in [Plugins -> {"new", "installed", "gone"}], cut' \subseteq Plugins,
         passedOver' = passedOver \cup {e.id : e \in plug.unread},
         \A q \in Plugins \ {p} :
             /\ plug'.rt[q] = plug.rt[q] /\ (q \in plug'.tools <=> q \in plug.tools)
             /\ plug'.provider = q => plug.provider = q
             /\ life'[q] = life[q] /\ (q \in cut' <=> q \in cut),
         p \in plug'.tools <=> plug'.rt[p].listed,
         plug'.provider = p => plug'.rt[p].listed,
         plug'.rt[p].listed => plug'.rt[p].status # "absent",
         \A d \in Callers : \/ plug'.activation[d] = plug.activation[d]
                            \/ plug'.activation[d].of = p /\ plug'.activation[d].at = "verify",
         SwitchedOff(p)',
         plug'.rt[p].status # "absent" <=> life'[p] = "installed",
         \A e \in plug.unread : e.id # p
  PROVE  PluginInv'
<1>1. plug.unread \subseteq StoredPlugin /\ \A e \in plug.unread : e.id \in Plugins
  BY DEF PluginInv, PluginTypeOK, StoredPlugin
<1>2. PluginTypeOK'
  <2>1. {e.id : e \in plug.unread} \subseteq Plugins
    BY <1>1
  <2> QED BY <2>1 DEF PluginInv, PluginTypeOK, PlugType
<1>3. RegisteredInv'
  <2> SUFFICES ASSUME NEW q \in Plugins, q # p
               PROVE  /\ q \in plug'.tools <=> plug'.rt[q].listed
                      /\ plug'.provider = q => plug'.rt[q].listed
                      /\ plug'.rt[q].listed => plug'.rt[q].status # "absent"
    BY DEF RegisteredInv, Present
  <2> QED BY DEF PluginInv, RegisteredInv, Present
<1>4. SwitchedOffInv'
  <2> SUFFICES ASSUME NEW q \in Plugins, q # p PROVE SwitchedOff(q)'
    BY DEF SwitchedOffInv, SwitchedOff
  <2>1. SwitchedOff(q)
    BY DEF PluginInv, SwitchedOffInv, SwitchedOff
  <2> QED BY <2>1 DEF SwitchedOff, Present
<1>5. Listing(plug'.rt) \subseteq StoredPlugin /\ plug'.rt \in [Plugins -> PluginRuntime]
  BY ListingStored DEF PlugType
<1>6. /\ \A q \in Plugins : plug'.rt[q].status # "absent" => \E e \in plug'.stored : e.id = q
      /\ \A e \in plug'.stored : /\ e.id \in Plugins /\ plug'.rt[e.id].status # "absent"
                                 /\ e.enabled = plug'.rt[e.id].enabled /\ e.granted = plug'.rt[e.id].granted
  BY <1>5, ListingStored
<1>7. UnreadInv'
  <2> SUFFICES ASSUME NEW e \in plug.unread
               PROVE  /\ plug'.rt[e.id].status = "absent" /\ life'[e.id] = "installed"
                      /\ \A c \in Callers : plug'.activation[c].of # e.id
                      /\ \A f \in plug.unread \cup plug'.stored : f.id = e.id => f = e
    BY DEF UnreadInv, Present
  <2>1. /\ plug.rt[e.id].status = "absent" /\ life[e.id] = "installed"
        /\ \A c \in Callers : plug.activation[c].of # e.id
        /\ \A f \in plug.unread : f.id = e.id => f = e
        /\ e.id # p /\ e.id \in Plugins
    BY <1>1 DEF PluginInv, UnreadInv, Present
  <2>2. plug'.rt[e.id].status = "absent" /\ life'[e.id] = "installed"
    BY <2>1
  <2> QED BY <1>6, <2>1, <2>2
<1>8. LivesInv'
  <2> SUFFICES ASSUME NEW q \in Plugins
               PROVE  /\ plug'.rt[q].status # "absent" => life'[q] = "installed"
                      /\ life'[q] = "installed" =>
                            plug'.rt[q].status # "absent" \/ q \in passedOver' \/ \E e \in plug.unread : e.id = q
    BY DEF LivesInv, Present
  <2> QED BY DEF PluginInv, LivesInv, Present
<1>9. ActivationsInv'
  BY DEF PluginInv, ActivationsInv
<1>10. StoreFollowsUser'
  <2>1. ASSUME NEW q \in Plugins, life'[q] = "installed"
        PROVE  q \in passedOver' \/ \E e \in plug'.stored : e.id = q
    <3>1. q \in passedOver' \/ plug'.rt[q].status # "absent"
      <4>1. plug'.rt[q].status # "absent" \/ q \in passedOver' \/ \E e \in plug.unread : e.id = q
        BY <1>8, <2>1 DEF LivesInv, Present
      <4> QED BY <4>1
    <3> QED BY <1>6, <3>1
  <2>2. \A e \in plug'.stored : life'[e.id] = "installed"
    BY <1>6, <1>8 DEF LivesInv, Present
  <2> QED BY <1>6, <2>1, <2>2 DEF StoreFollowsUser, Present
<1> QED BY <1>2, <1>3, <1>4, <1>7, <1>8, <1>9, <1>10 DEF PluginInv

\* What a plugin that is there is like, and one that was never installed.
LEMMA PluginFacts ==
  ASSUME PluginInv, NEW p \in Plugins
  PROVE  /\ plug \in PlugType /\ plug.rt[p] \in PluginRuntime
         /\ p \in plug.tools <=> plug.rt[p].listed
         /\ plug.provider = p => plug.rt[p].listed
         /\ plug.rt[p].listed => plug.rt[p].status # "absent"
         /\ SwitchedOff(p)
         /\ plug.rt[p].status # "absent" => life[p] = "installed"
         /\ plug.rt[p].status # "absent" \/ life[p] = "new" => \A e \in plug.unread : e.id # p
         /\ life \in [Plugins -> {"new", "installed", "gone"}] /\ cut \subseteq Plugins
<1>1. plug \in PlugType /\ plug.rt[p] \in PluginRuntime
  BY DEF PluginInv, PluginTypeOK, PlugType
<1>2. plug.rt[p].status # "absent" \/ life[p] = "new" => \A e \in plug.unread : e.id # p
  BY DEF PluginInv, UnreadInv, Present
<1> QED BY <1>1, <1>2 DEF PluginInv, PluginTypeOK, RegisteredInv, SwitchedOffInv, SwitchedOff, LivesInv, Present

LEMMA InstallPluginKeeps ==
  ASSUME PluginInv, NEW p \in Plugins, InstallPlugin(p)
  PROVE  PluginInv'
<1>1. PICK g \in BOOLEAN, s \in {"pending-permissions", "tampered"} :
         LET r     == [enabled |-> TRUE, granted |-> g, listed |-> FALSE, status |-> s]
             added == Persisted([plug EXCEPT !.rt[p] = r])
         IN  /\ life[p] = "new"
             /\ life' = [life EXCEPT ![p] = "installed"]
             /\ PluginCall(IF g /\ s # "tampered"
                           THEN ActivationBegins(added, p, Min(FreeCallers))
                           ELSE added)
             /\ UNCHANGED cut
  BY DEF InstallPlugin
<1> DEFINE r == [enabled |-> TRUE, granted |-> g, listed |-> FALSE, status |-> s]
           m == [plug EXCEPT !.rt[p] = r]
           added == Persisted(m)
           begun == ActivationBegins(added, p, Min(FreeCallers))
<1>2. /\ life[p] = "new" /\ life' = [life EXCEPT ![p] = "installed"] /\ UNCHANGED cut
      /\ passedOver' = passedOver \cup {e.id : e \in plug.unread}
      /\ plug' = added \/ plug' = begun
  BY <1>1 DEF PluginCall
<1>3. r \in PluginRuntime /\ r.enabled /\ ~r.listed /\ r.status # "absent"
  BY DEF PluginRuntime
<1> HIDE DEF r
<1>4. plug \in PlugType /\ plug.rt[p] \in PluginRuntime
  BY PluginFacts
<1>5. r \in PluginRuntime
  BY <1>3
<1>6. /\ m \in PlugType /\ m.rt[p] = r /\ \A q \in Plugins \ {p} : m.rt[q] = plug.rt[q]
      /\ m.tools = plug.tools /\ m.provider = plug.provider
      /\ m.unread = plug.unread /\ m.activation = plug.activation
  BY <1>4, <1>5, RowFields
<1> HIDE DEF m
<1>7. /\ added \in PlugType /\ added.rt = m.rt /\ added.stored = Listing(m.rt)
      /\ added.tools = plug.tools /\ added.provider = plug.provider
      /\ added.unread = plug.unread /\ added.activation = plug.activation
  BY <1>6, PersistedFields
<1> HIDE DEF added
<1>8. /\ plug' \in PlugType /\ plug'.unread = plug.unread
      /\ plug'.tools = plug.tools /\ plug'.provider = plug.provider
      /\ plug'.rt[p] = r /\ \A q \in Plugins \ {p} : plug'.rt[q] = plug.rt[q]
      /\ \A d \in Callers : \/ plug'.activation[d] = plug.activation[d]
                            \/ plug'.activation[d].of = p /\ plug'.activation[d].at = "verify"
  <2>1. CASE plug' = added
    BY <1>6, <1>7, <2>1
  <2>2. CASE plug' = begun
    <3>1. /\ plug' \in PlugType /\ plug'.tools = added.tools /\ plug'.provider = added.provider
          /\ plug'.stored = added.stored /\ plug'.unread = added.unread
          /\ \A q \in Plugins \ {p} : plug'.rt[q] = added.rt[q]
          /\ added.rt[p].enabled => plug'.rt[p] = added.rt[p]
          /\ \A d \in Callers : \/ plug'.activation[d] = added.activation[d]
                                \/ plug'.activation[d].of = p /\ plug'.activation[d].at = "verify"
      BY <1>7, <2>2, BegunFields
    <3> QED BY <1>3, <1>6, <1>7, <3>1
  <2> QED BY <1>2, <2>1, <2>2
<1>9. plug'.stored = Listing(m.rt)
  <2>1. begun.stored = added.stored
    BY <1>7, BegunFields
  <2> QED BY <1>2, <1>7, <2>1
<1>10. \A q \in Plugins : plug'.rt[q] = m.rt[q]
  BY <1>6, <1>8
<1>11. plug'.stored = Listing(plug'.rt)
  BY <1>9, <1>10 DEF Listing
<1>12. /\ ~plug.rt[p].listed /\ p \notin plug.tools /\ plug.provider # p
       /\ \A e \in plug.unread : e.id # p
       /\ life \in [Plugins -> {"new", "installed", "gone"}] /\ cut \subseteq Plugins
  BY <1>2, PluginFacts
<1>13. /\ life' \in [Plugins -> {"new", "installed", "gone"}] /\ life'[p] = "installed"
       /\ \A q \in Plugins \ {p} : life'[q] = life[q]
  BY <1>2, <1>12
<1>14. SwitchedOff(p)'
  BY <1>3, <1>8 DEF SwitchedOff
<1> QED BY <1>2, <1>3, <1>8, <1>11, <1>12, <1>13, <1>14, CallKeeps

LEMMA GrantPermissionsKeeps ==
  ASSUME PluginInv, NEW p \in Plugins, GrantPermissions(p)
  PROVE  PluginInv'
<1>1. PICK all \in BOOLEAN :
         LET granted == Persisted([plug EXCEPT !.rt[p].granted = @ \/ all])
         IN  /\ Present(p)
             /\ PluginCall(IF granted.rt[p].enabled
                           THEN ActivationBegins(Deactivated(granted, p), p, Min(FreeCallers))
                           ELSE granted)
             /\ UNCHANGED <<life, cut>>
  BY DEF GrantPermissions
<1> DEFINE r == [plug.rt[p] EXCEPT !.granted = plug.rt[p].granted \/ all]
           m == [plug EXCEPT !.rt[p] = r]
           granted == Persisted(m)
           off == Deactivated(granted, p)
<1>2. /\ Present(p) /\ UNCHANGED <<life, cut>>
      /\ passedOver' = passedOver \cup {e.id : e \in plug.unread}
      /\ IF granted.rt[p].enabled
         THEN plug' = ActivationBegins(off, p, Min(FreeCallers))
         ELSE plug' = granted
  BY <1>1 DEF PluginCall
<1>3. plug \in PlugType /\ plug.rt[p] \in PluginRuntime
  BY PluginFacts
<1>4. /\ r \in PluginRuntime /\ r.enabled = plug.rt[p].enabled
      /\ r.listed = plug.rt[p].listed /\ r.status = plug.rt[p].status
  BY <1>3 DEF PluginRuntime
<1> HIDE DEF r
<1>5. /\ m \in PlugType /\ m.rt[p] = r /\ \A q \in Plugins \ {p} : m.rt[q] = plug.rt[q]
      /\ m.tools = plug.tools /\ m.provider = plug.provider
      /\ m.unread = plug.unread /\ m.activation = plug.activation
  BY <1>3, <1>4, RowFields
<1> HIDE DEF m
<1>6. /\ granted \in PlugType /\ granted.rt = m.rt /\ granted.stored = Listing(m.rt)
      /\ granted.tools = plug.tools /\ granted.provider = plug.provider
      /\ granted.unread = plug.unread /\ granted.activation = plug.activation
  BY <1>5, PersistedFields
<1> HIDE DEF granted
<1>7. Present(p) /\ plug.rt[p].status # "absent" /\ life[p] = "installed"
      /\ (\A e \in plug.unread : e.id # p)
      /\ life \in [Plugins -> {"new", "installed", "gone"}] /\ cut \subseteq Plugins
  BY <1>2, PluginFacts DEF Present
<1>8. CASE ~r.enabled
  <2>1. plug' = granted
    BY <1>2, <1>5, <1>6, <1>8
  <2>2. SwitchedOff(p)'
    BY <1>2, <1>4, <1>5, <1>6, <1>8, <2>1, PluginFacts DEF SwitchedOff, Present
  <2>3. /\ p \in plug.tools <=> plug.rt[p].listed
        /\ plug.provider = p => plug.rt[p].listed
    BY PluginFacts
  <2> QED BY <1>2, <1>4, <1>5, <1>6, <1>7, <2>1, <2>2, <2>3, CallKeeps
<1>9. CASE r.enabled
  <2>1. plug' = ActivationBegins(off, p, Min(FreeCallers))
    BY <1>2, <1>5, <1>6, <1>9
  <2>2. /\ off \in PlugType /\ off.tools = granted.tools \ {p} /\ off.provider # p
        /\ off.provider \in {granted.provider, NoPlugin}
        /\ off.rt = [granted.rt EXCEPT ![p] = [granted.rt[p] EXCEPT !.listed = FALSE]]
        /\ off.stored = granted.stored /\ off.unread = granted.unread
        /\ off.activation = granted.activation
    <3>1. granted \in PlugType
      BY <1>6
    <3> QED BY <3>1, DeactivatedFields
  <2> HIDE DEF off
  <2>3. /\ off.rt[p].enabled /\ ~off.rt[p].listed /\ off.rt[p].status = plug.rt[p].status
        /\ off.rt[p].granted = r.granted
        /\ \A q \in Plugins \ {p} : off.rt[q] = plug.rt[q]
    <3>1. m.rt \in [Plugins -> PluginRuntime]
      BY <1>5 DEF PlugType
    <3>2. off.rt = [m.rt EXCEPT ![p] = [m.rt[p] EXCEPT !.listed = FALSE]]
      BY <1>6, <2>2
    <3>3. off.rt[p] = [r EXCEPT !.listed = FALSE] /\ \A q \in Plugins \ {p} : off.rt[q] = m.rt[q]
      BY <1>5, <3>1, <3>2
    <3>4. \A q \in Plugins \ {p} : off.rt[q] = plug.rt[q]
      BY <1>5, <3>3
    <3>5. /\ off.rt[p].enabled = r.enabled /\ ~off.rt[p].listed
          /\ off.rt[p].status = r.status /\ off.rt[p].granted = r.granted
      BY <1>4, <3>3 DEF PluginRuntime
    <3> QED BY <1>4, <1>9, <3>4, <3>5
  <2> DEFINE begun == ActivationBegins(off, p, Min(FreeCallers))
  <2>4. /\ begun \in PlugType
        /\ begun.tools = off.tools /\ begun.provider = off.provider
        /\ begun.stored = off.stored /\ begun.unread = off.unread
        /\ \A q \in Plugins \ {p} : begun.rt[q] = off.rt[q]
        /\ off.rt[p].enabled => begun.rt[p] = off.rt[p]
        /\ \A d \in Callers : \/ begun.activation[d] = off.activation[d]
                              \/ begun.activation[d].of = p /\ begun.activation[d].at = "verify"
    <3>1. off \in PlugType
      BY <2>2
    <3> QED BY <3>1, BegunFields
  <2>5. plug' = begun
    BY <2>1
  <2> HIDE DEF begun
  <2>6. /\ plug' \in PlugType
        /\ plug'.tools = off.tools /\ plug'.provider = off.provider
        /\ plug'.stored = off.stored /\ plug'.unread = off.unread
        /\ \A q \in Plugins \ {p} : plug'.rt[q] = off.rt[q]
        /\ off.rt[p].enabled => plug'.rt[p] = off.rt[p]
        /\ \A d \in Callers : \/ plug'.activation[d] = off.activation[d]
                              \/ plug'.activation[d].of = p /\ plug'.activation[d].at = "verify"
    BY <2>4, <2>5
  <2>7. /\ \A q \in Plugins : /\ plug'.rt[q].status = m.rt[q].status
                              /\ plug'.rt[q].enabled = m.rt[q].enabled
                              /\ plug'.rt[q].granted = m.rt[q].granted
        /\ plug'.rt[p].enabled /\ ~plug'.rt[p].listed /\ plug'.rt[p].status = plug.rt[p].status
        /\ \A q \in Plugins \ {p} : plug'.rt[q] = plug.rt[q]
    <3>1. plug'.rt[p] = off.rt[p]
      BY <2>3, <2>6
    <3>2. /\ plug'.rt[p].enabled /\ ~plug'.rt[p].listed /\ plug'.rt[p].status = plug.rt[p].status
          /\ plug'.rt[p].granted = r.granted
      BY <2>3, <3>1
    <3>3. \A q \in Plugins \ {p} : plug'.rt[q] = plug.rt[q] /\ m.rt[q] = plug.rt[q]
      BY <1>5, <2>3, <2>6
    <3>4. /\ plug'.rt[p].status = m.rt[p].status /\ plug'.rt[p].enabled = m.rt[p].enabled
          /\ plug'.rt[p].granted = m.rt[p].granted
      BY <1>4, <1>5, <1>9, <3>2
    <3>5. ASSUME NEW q \in Plugins
          PROVE  /\ plug'.rt[q].status = m.rt[q].status
                 /\ plug'.rt[q].enabled = m.rt[q].enabled
                 /\ plug'.rt[q].granted = m.rt[q].granted
      <4>1. CASE q = p
        BY <3>4, <4>1
      <4>2. CASE q # p
        BY <3>3, <4>2
      <4> QED BY <4>1, <4>2
    <3> QED BY <3>2, <3>3, <3>5
  <2>8. plug'.stored = Listing(plug'.rt)
    <3>1. plug'.stored = Listing(m.rt)
      BY <1>6, <2>2, <2>6
    <3> QED BY <2>7, <3>1 DEF Listing
  <2>9. SwitchedOff(p)'
    BY <2>7 DEF SwitchedOff
  <2>10. /\ p \notin plug'.tools /\ plug'.provider # p /\ plug'.unread = plug.unread
         /\ \A q \in Plugins \ {p} : (q \in plug'.tools <=> q \in plug.tools)
                                     /\ (plug'.provider = q => plug.provider = q)
         /\ \A d \in Callers : \/ plug'.activation[d] = plug.activation[d]
                               \/ plug'.activation[d].of = p /\ plug'.activation[d].at = "verify"
    BY <1>6, <2>2, <2>6, NoPluginAssumption
  <2> QED BY <1>2, <1>7, <2>6, <2>7, <2>8, <2>9, <2>10, CallKeeps
<1> QED BY <1>8, <1>9

LEMMA EnablePluginKeeps ==
  ASSUME PluginInv, NEW p \in Plugins, EnablePlugin(p)
  PROVE  PluginInv'
<1> DEFINE r == [plug.rt[p] EXCEPT !.enabled = TRUE]
           m == [plug EXCEPT !.rt[p] = r]
           enabled == Persisted(m)
           begun == ActivationBegins(enabled, p, Min(FreeCallers))
<1>1. /\ Present(p) /\ UNCHANGED <<life, cut>>
      /\ passedOver' = passedOver \cup {e.id : e \in plug.unread}
      /\ plug' = begun
  BY DEF EnablePlugin, PluginCall
<1>2. plug \in PlugType /\ plug.rt[p] \in PluginRuntime
  BY PluginFacts
<1>3. r \in PluginRuntime /\ r.enabled /\ r.listed = plug.rt[p].listed /\ r.status = plug.rt[p].status
  BY <1>2 DEF PluginRuntime
<1> HIDE DEF r
<1>4. /\ m \in PlugType /\ m.rt[p] = r /\ \A q \in Plugins \ {p} : m.rt[q] = plug.rt[q]
      /\ m.tools = plug.tools /\ m.provider = plug.provider
      /\ m.unread = plug.unread /\ m.activation = plug.activation
  BY <1>2, <1>3, RowFields
<1> HIDE DEF m
<1>5. /\ enabled \in PlugType /\ enabled.rt = m.rt /\ enabled.stored = Listing(m.rt)
      /\ enabled.tools = plug.tools /\ enabled.provider = plug.provider
      /\ enabled.unread = plug.unread /\ enabled.activation = plug.activation
  BY <1>4, PersistedFields
<1> HIDE DEF enabled
<1>6. /\ begun \in PlugType /\ begun.tools = enabled.tools /\ begun.provider = enabled.provider
      /\ begun.stored = enabled.stored /\ begun.unread = enabled.unread
      /\ \A q \in Plugins \ {p} : begun.rt[q] = enabled.rt[q]
      /\ enabled.rt[p].enabled => begun.rt[p] = enabled.rt[p]
      /\ \A d \in Callers : \/ begun.activation[d] = enabled.activation[d]
                            \/ begun.activation[d].of = p /\ begun.activation[d].at = "verify"
  <2>1. enabled \in PlugType
    BY <1>5
  <2> QED BY <2>1, BegunFields
<1> HIDE DEF begun
<1>7. /\ plug' \in PlugType /\ plug'.unread = plug.unread
      /\ plug'.tools = plug.tools /\ plug'.provider = plug.provider
      /\ plug'.rt[p] = r /\ \A q \in Plugins : plug'.rt[q] = m.rt[q]
      /\ \A q \in Plugins \ {p} : plug'.rt[q] = plug.rt[q]
      /\ plug'.stored = Listing(m.rt)
      /\ \A d \in Callers : \/ plug'.activation[d] = plug.activation[d]
                            \/ plug'.activation[d].of = p /\ plug'.activation[d].at = "verify"
  BY <1>1, <1>3, <1>4, <1>5, <1>6
<1>8. plug'.stored = Listing(plug'.rt)
  BY <1>7 DEF Listing
<1>9. /\ p \in plug.tools <=> plug.rt[p].listed
      /\ plug.provider = p => plug.rt[p].listed
      /\ plug.rt[p].status # "absent" /\ life[p] = "installed"
      /\ \A e \in plug.unread : e.id # p
      /\ life \in [Plugins -> {"new", "installed", "gone"}] /\ cut \subseteq Plugins
  BY <1>1, PluginFacts DEF Present
<1>10. SwitchedOff(p)'
  BY <1>3, <1>7 DEF SwitchedOff
<1> QED BY <1>1, <1>3, <1>7, <1>8, <1>9, <1>10, CallKeeps

LEMMA DisablePluginKeeps ==
  ASSUME PluginInv, NEW p \in Plugins, DisablePlugin(p)
  PROVE  PluginInv'
<1> DEFINE r == [plug.rt[p] EXCEPT !.enabled = FALSE]
           m == [plug EXCEPT !.rt[p] = r]
           stored == Persisted(m)
           off == Deactivated(stored, p)
           s == [off.rt[p] EXCEPT !.status = "disabled"]
<1>1. /\ Present(p) /\ UNCHANGED life
      /\ passedOver' = passedOver \cup {e.id : e \in plug.unread}
      /\ plug' = [off EXCEPT !.rt[p].status = "disabled"]
      /\ cut' = IF \E c \in Callers : plug.activation[c].of = p THEN cut \cup {p} ELSE cut \ {p}
  BY DEF DisablePlugin, PluginCall
<1>2. plug \in PlugType /\ plug.rt[p] \in PluginRuntime
  BY PluginFacts
<1>3. /\ r \in PluginRuntime /\ ~r.enabled
      /\ r.listed = plug.rt[p].listed /\ r.status = plug.rt[p].status
  BY <1>2 DEF PluginRuntime
<1> HIDE DEF r
<1>4. /\ m \in PlugType /\ m.rt[p] = r /\ \A q \in Plugins \ {p} : m.rt[q] = plug.rt[q]
      /\ m.tools = plug.tools /\ m.provider = plug.provider
      /\ m.unread = plug.unread /\ m.activation = plug.activation
  BY <1>2, <1>3, RowFields
<1> HIDE DEF m
<1>5. /\ stored \in PlugType /\ stored.rt = m.rt /\ stored.stored = Listing(m.rt)
      /\ stored.tools = plug.tools /\ stored.provider = plug.provider
      /\ stored.unread = plug.unread /\ stored.activation = plug.activation
  BY <1>4, PersistedFields
<1> HIDE DEF stored
<1>6. /\ off \in PlugType /\ off.tools = stored.tools \ {p} /\ off.provider # p
      /\ off.provider \in {stored.provider, NoPlugin}
      /\ off.rt = [stored.rt EXCEPT ![p] = [stored.rt[p] EXCEPT !.listed = FALSE]]
      /\ off.stored = stored.stored /\ off.unread = stored.unread
      /\ off.activation = stored.activation
  BY <1>5, DeactivatedFields
<1>7. plug' = [off EXCEPT !.rt[p] = s]
  BY <1>1, <1>6 DEF PlugType
<1> HIDE DEF off
<1>8. off \in PlugType /\ off.rt[p] \in PluginRuntime
  BY <1>6 DEF PlugType
<1>9. /\ ~off.rt[p].listed /\ off.rt[p].enabled = r.enabled /\ off.rt[p].granted = r.granted
      /\ \A q \in Plugins \ {p} : off.rt[q] = plug.rt[q]
  BY <1>2, <1>3, <1>4, <1>5, <1>6 DEF PlugType, PluginRuntime
<1>10. /\ s \in PluginRuntime /\ s.status = "disabled" /\ ~s.listed
       /\ s.enabled = r.enabled /\ s.granted = r.granted
  BY <1>8, <1>9 DEF PluginRuntime
<1> HIDE DEF s
<1>11. /\ plug' \in PlugType /\ plug'.rt[p] = s
       /\ \A q \in Plugins \ {p} : plug'.rt[q] = off.rt[q]
       /\ plug'.tools = off.tools /\ plug'.provider = off.provider /\ plug'.stored = off.stored
       /\ plug'.unread = off.unread /\ plug'.activation = off.activation
  BY <1>7, <1>8, <1>10, RowFields
<1>12. /\ Present(p) /\ plug.rt[p].status # "absent" /\ life[p] = "installed"
       /\ \A e \in plug.unread : e.id # p
       /\ life \in [Plugins -> {"new", "installed", "gone"}] /\ cut \subseteq Plugins
  BY <1>1, PluginFacts DEF Present
<1>13. plug'.stored = Listing(plug'.rt)
  <2>1. plug'.stored = Listing(m.rt)
    BY <1>5, <1>6, <1>11
  <2>2. \A q \in Plugins : /\ plug'.rt[q].status # "absent" <=> m.rt[q].status # "absent"
                           /\ plug'.rt[q].enabled = m.rt[q].enabled
                           /\ plug'.rt[q].granted = m.rt[q].granted
    BY <1>3, <1>4, <1>9, <1>10, <1>11, <1>12
  <2> QED BY <2>1, <2>2 DEF Listing
<1>14. /\ p \notin plug'.tools /\ plug'.provider # p /\ plug'.unread = plug.unread
       /\ \A q \in Plugins \ {p} : /\ plug'.rt[q] = plug.rt[q]
                                   /\ q \in plug'.tools <=> q \in plug.tools
                                   /\ plug'.provider = q => plug.provider = q
                                   /\ q \in cut' <=> q \in cut
       /\ cut' \subseteq Plugins
       /\ plug'.activation = plug.activation
  <2>1. /\ cut' \subseteq Plugins
        /\ \A q \in Plugins \ {p} : q \in cut' <=> q \in cut
    BY <1>1, <1>12
  <2>2. /\ plug'.tools = plug.tools \ {p} /\ plug'.provider # p
        /\ plug'.provider \in {plug.provider, NoPlugin}
        /\ plug'.unread = plug.unread /\ plug'.activation = plug.activation
    BY <1>5, <1>6, <1>11
  <2>3. \A q \in Plugins \ {p} : plug'.rt[q] = plug.rt[q]
    BY <1>9, <1>11
  <2> QED BY <2>1, <2>2, <2>3, NoPluginAssumption
<1>15. SwitchedOff(p)'
  <2>1. p \notin cut' => \A c \in Callers : plug.activation[c].of # p
    BY <1>1
  <2>2. plug'.rt[p].status = "disabled" /\ ~plug'.rt[p].listed
    BY <1>10, <1>11
  <2>3. plug'.activation = plug.activation
    BY <1>14
  <2> QED BY <2>1, <2>2, <2>3 DEF SwitchedOff
<1>16. /\ plug' \in PlugType /\ plug'.unread = plug.unread
       /\ life' \in [Plugins -> {"new", "installed", "gone"}] /\ cut' \subseteq Plugins
       /\ passedOver' = passedOver \cup {e.id : e \in plug.unread}
  BY <1>1, <1>11, <1>12, <1>14
<1>17. \A q \in Plugins \ {p} :
          /\ plug'.rt[q] = plug.rt[q] /\ (q \in plug'.tools <=> q \in plug.tools)
          /\ plug'.provider = q => plug.provider = q
          /\ life'[q] = life[q] /\ (q \in cut' <=> q \in cut)
  BY <1>1, <1>14
<1>18. /\ p \notin plug'.tools /\ plug'.provider # p /\ ~plug'.rt[p].listed
       /\ plug'.rt[p].status # "absent" /\ life'[p] = "installed"
       /\ \A d \in Callers : plug'.activation[d] = plug.activation[d]
       /\ \A e \in plug.unread : e.id # p
  BY <1>1, <1>10, <1>11, <1>12, <1>14
<1> QED BY <1>13, <1>15, <1>16, <1>17, <1>18, CallKeeps

LEMMA UninstallPluginKeeps ==
  ASSUME PluginInv, NEW p \in Plugins, UninstallPlugin(p)
  PROVE  PluginInv'
<1> DEFINE off == Deactivated(plug, p)
           m == [off EXCEPT !.rt[p] = AbsentPlugin]
<1>1. /\ Present(p) /\ UNCHANGED cut /\ life' = [life EXCEPT ![p] = "gone"]
      /\ passedOver' = passedOver \cup {e.id : e \in plug.unread}
      /\ plug' = Persisted(m)
  BY DEF UninstallPlugin, PluginCall
<1>2. plug \in PlugType /\ plug.rt[p] \in PluginRuntime
  BY PluginFacts
<1>3. /\ off \in PlugType /\ off.tools = plug.tools \ {p} /\ off.provider # p
      /\ off.provider \in {plug.provider, NoPlugin}
      /\ off.rt = [plug.rt EXCEPT ![p] = [plug.rt[p] EXCEPT !.listed = FALSE]]
      /\ off.stored = plug.stored /\ off.unread = plug.unread
      /\ off.activation = plug.activation
  BY <1>2, DeactivatedFields
<1> HIDE DEF off
<1>4. off \in PlugType /\ off.rt[p] \in PluginRuntime /\ \A q \in Plugins \ {p} : off.rt[q] = plug.rt[q]
  BY <1>2, <1>3 DEF PlugType
<1>5. AbsentPlugin \in PluginRuntime /\ AbsentPlugin.status = "absent" /\ ~AbsentPlugin.listed
  BY DEF AbsentPlugin, PluginRuntime
<1>6. /\ m \in PlugType /\ m.rt[p] = AbsentPlugin /\ \A q \in Plugins \ {p} : m.rt[q] = off.rt[q]
      /\ m.tools = off.tools /\ m.provider = off.provider
      /\ m.unread = off.unread /\ m.activation = off.activation
  BY <1>4, <1>5, RowFields
<1> HIDE DEF m
<1>7. /\ plug' \in PlugType /\ plug'.stored = Listing(plug'.rt) /\ plug'.rt = m.rt
      /\ plug'.tools = off.tools /\ plug'.provider = off.provider
      /\ plug'.unread = plug.unread /\ plug'.activation = plug.activation
  BY <1>1, <1>3, <1>6, PersistedFields
<1>8. /\ p \notin plug'.tools /\ plug'.provider # p
      /\ \A q \in Plugins \ {p} : /\ plug'.rt[q] = plug.rt[q]
                                  /\ q \in plug'.tools <=> q \in plug.tools
                                  /\ plug'.provider = q => plug.provider = q
  BY <1>3, <1>4, <1>6, <1>7, NoPluginAssumption
<1>9. /\ \A e \in plug.unread : e.id # p
      /\ life \in [Plugins -> {"new", "installed", "gone"}] /\ cut \subseteq Plugins
  BY <1>1, PluginFacts DEF Present
<1>10. /\ life' \in [Plugins -> {"new", "installed", "gone"}] /\ life'[p] = "gone"
       /\ \A q \in Plugins \ {p} : life'[q] = life[q]
  BY <1>1, <1>9
<1>11. plug'.rt[p].status = "absent" /\ ~plug'.rt[p].listed
  BY <1>5, <1>6, <1>7
<1>12. SwitchedOff(p)'
  BY <1>11 DEF SwitchedOff, Present
<1> QED BY <1>1, <1>7, <1>8, <1>9, <1>10, <1>11, <1>12, CallKeeps

\* A step of an activation changes what there is of its plugin, if anything.
LEMMA ActivationKeeps ==
  ASSUME PluginInv, NEW c \in Callers, NEW p \in Plugins, plug.activation[c].of = p,
         plug' \in PlugType, plug'.unread = plug.unread, plug'.stored = plug.stored,
         UNCHANGED <<life, cut, passedOver>>,
         \A q \in Plugins \ {p} :
             /\ plug'.rt[q] = plug.rt[q] /\ (q \in plug'.tools <=> q \in plug.tools)
             /\ plug'.provider = q => plug.provider = q,
         plug'.rt[p].status # "absent" <=> plug.rt[p].status # "absent",
         plug'.rt[p].enabled = plug.rt[p].enabled, plug'.rt[p].granted = plug.rt[p].granted,
         p \in plug'.tools <=> plug'.rt[p].listed,
         plug'.provider = p => plug'.rt[p].listed,
         plug'.rt[p].listed => plug'.rt[p].status # "absent",
         \A d \in Callers : /\ plug'.activation[d].of \in {plug.activation[d].of, NoPlugin}
                            /\ plug'.activation[d].at # "none" => plug'.activation[d].of \in Plugins
  PROVE  PluginInv'
<1>1. PluginTypeOK' /\ ActivationsInv'
  BY DEF PluginInv, PluginTypeOK, PlugType, ActivationsInv
<1>2. \A q \in Plugins, d \in Callers : plug'.activation[d].of = q => plug.activation[d].of = q
  BY NoPluginAssumption
<1>3. \A q \in Plugins : Present(q)' <=> Present(q)
  BY DEF Present
<1>4. RegisteredInv'
  BY DEF PluginInv, RegisteredInv, Present
<1>5. SwitchedOffInv'
  <2> SUFFICES ASSUME NEW q \in Plugins PROVE SwitchedOff(q)'
    BY DEF SwitchedOffInv, SwitchedOff
  <2>1. SwitchedOff(q)
    BY PluginFacts
  <2>2. CASE q = p
    BY <1>3, <2>1, <2>2 DEF SwitchedOff
  <2>3. CASE q # p
    BY <1>2, <1>3, <2>1, <2>3 DEF SwitchedOff
  <2> QED BY <2>2, <2>3
<1>6. UnreadInv'
  <2>1. \A e \in plug.unread : e.id \in Plugins
    BY DEF PluginInv, PluginTypeOK, StoredPlugin
  <2> QED BY <1>2, <1>3, <2>1 DEF PluginInv, UnreadInv
<1>7. LivesInv'
  BY <1>3 DEF PluginInv, LivesInv
<1>8. StoreFollowsUser'
  <2>1. \A e \in plug.stored : e.id \in Plugins
    BY DEF PluginInv, PluginTypeOK, StoredPlugin
  <2>2. \A q \in Plugins : plug'.rt[q].enabled = plug.rt[q].enabled /\ plug'.rt[q].granted = plug.rt[q].granted
    OBVIOUS
  <2> QED BY <1>3, <2>1, <2>2 DEF PluginInv, StoreFollowsUser
<1> QED BY <1>1, <1>4, <1>5, <1>6, <1>7, <1>8 DEF PluginInv

\* The loader, or an activation, is done with c.
LEMMA OverFields ==
  ASSUME NEW m \in PlugType, NEW c \in Callers, NEW a \in Activation, NEW n, n = [m EXCEPT !.activation[c] = a]
  PROVE  /\ n \in PlugType
         /\ n.activation[c] = a /\ \A d \in Callers \ {c} : n.activation[d] = m.activation[d]
         /\ n.tools = m.tools /\ n.provider = m.provider /\ n.stored = m.stored
         /\ n.unread = m.unread /\ n.rt = m.rt
<1> DEFINE as == [m.activation EXCEPT ![c] = a]
<1>1. n = [m EXCEPT !.activation = as]
  BY DEF PlugType
<1>2. as \in [Callers -> Activation] /\ as[c] = a /\ \A d \in Callers \ {c} : as[d] = m.activation[d]
  BY DEF PlugType
<1> HIDE DEF as
<1> QED BY <1>1, <1>2 DEF PlugType

PluginRuntimeStatus == {"absent", "disabled", "pending-permissions", "loaded", "failed", "tampered"}

\* No more of m than the status of p is rewritten in n.
Marking(m, p, n) ==
    /\ n \in PlugType
    /\ \A q \in Plugins \ {p} : n.rt[q] = m.rt[q]
    /\ n.rt[p].status # "absent" <=> m.rt[p].status # "absent"
    /\ n.rt[p].enabled = m.rt[p].enabled /\ n.rt[p].granted = m.rt[p].granted
    /\ n.rt[p].listed = m.rt[p].listed
    /\ n.tools = m.tools /\ n.provider = m.provider /\ n.stored = m.stored
    /\ n.unread = m.unread /\ n.activation = m.activation

LEMMA MarkedFields ==
  ASSUME NEW m \in PlugType, NEW p \in Plugins, NEW s \in PluginRuntimeStatus \ {"absent"},
         NEW n, n = Marked(m, p, s)
  PROVE  Marking(m, p, n)
<1>1. CASE m.rt[p].status = "absent"
  BY <1>1 DEF Marked, Marking
<1>2. CASE m.rt[p].status # "absent"
  <2> DEFINE r == [m.rt[p] EXCEPT !.status = s]
  <2>1. n = [m EXCEPT !.rt[p] = r]
    BY <1>2 DEF Marked, PlugType
  <2>2. m.rt[p] \in PluginRuntime
    BY DEF PlugType
  <2>3. /\ r \in PluginRuntime /\ r.status = s
        /\ r.enabled = m.rt[p].enabled /\ r.granted = m.rt[p].granted /\ r.listed = m.rt[p].listed
    BY <2>2 DEF PluginRuntime, PluginRuntimeStatus
  <2> HIDE DEF r
  <2>4. /\ n \in PlugType /\ n.rt[p] = r /\ \A q \in Plugins \ {p} : n.rt[q] = m.rt[q]
        /\ n.tools = m.tools /\ n.provider = m.provider /\ n.stored = m.stored
        /\ n.unread = m.unread /\ n.activation = m.activation
    BY <2>1, <2>2, <2>3, RowFields
  <2>5. r.status # "absent"
    BY <2>3 DEF PluginRuntimeStatus
  <2> QED BY <1>2, <2>3, <2>4, <2>5 DEF Marking
<1> QED BY <1>1, <1>2

LEMMA UnderWayFacts ==
  ASSUME PluginInv, NEW c \in Callers, plug.activation[c].at # "none",
         NEW p, p = plug.activation[c].of
  PROVE  /\ p \in Plugins /\ plug \in PlugType /\ plug.activation \in [Callers -> Activation]
         /\ \A d \in Callers : plug.activation[d].at # "none" => plug.activation[d].of \in Plugins
         /\ NoActivation \in Activation /\ NoActivation.of = NoPlugin /\ NoActivation.at = "none"
<1>1. p \in Plugins /\ \A d \in Callers : plug.activation[d].at # "none" => plug.activation[d].of \in Plugins
  BY DEF PluginInv, ActivationsInv
<1>2. plug \in PlugType /\ plug.activation \in [Callers -> Activation]
  <2>1. PluginTypeOK
    BY DEF PluginInv
  <2> QED BY <2>1 DEF PluginTypeOK, PlugType
<1> QED BY <1>1, <1>2 DEF NoActivation, Activation

\* The plugins in n, when the activation by c is over.
ActivationOver(c, n) ==
    /\ n \in PlugType
    /\ n.activation[c] = NoActivation /\ \A d \in Callers \ {c} : n.activation[d] = plug.activation[d]
    /\ n.tools = plug.tools /\ n.provider = plug.provider /\ n.stored = plug.stored
    /\ n.unread = plug.unread /\ n.rt = plug.rt

LEMMA OverIsOver ==
  ASSUME plug \in PlugType, NoActivation \in Activation, NEW c \in Callers,
         NEW over, over = [plug EXCEPT !.activation[c] = NoActivation]
  PROVE  ActivationOver(c, over)
<1> DEFINE as == [plug.activation EXCEPT ![c] = NoActivation]
<1>1. over = [plug EXCEPT !.activation = as]
  BY DEF PlugType
<1>2. /\ as \in [Callers -> Activation]
      /\ as[c] = NoActivation /\ \A d \in Callers \ {c} : as[d] = plug.activation[d]
  BY DEF PlugType
<1> HIDE DEF as
<1>3. /\ over \in PlugType /\ over.activation = as
      /\ over.tools = plug.tools /\ over.provider = plug.provider /\ over.stored = plug.stored
      /\ over.unread = plug.unread /\ over.rt = plug.rt
  BY <1>1, <1>2 DEF PlugType
<1> QED BY <1>2, <1>3 DEF ActivationOver

LEMMA MarkingKeeps ==
  ASSUME PluginInv, NEW c \in Callers, plug.activation[c].at # "none",
         NEW p \in Plugins, plug.activation[c].of = p,
         NEW over, ActivationOver(c, over), Marking(over, p, plug'),
         UNCHANGED <<life, cut, passedOver>>
  PROVE  PluginInv'
<1>1. /\ \A d \in Callers : plug.activation[d].at # "none" => plug.activation[d].of \in Plugins
      /\ NoActivation.of = NoPlugin /\ NoActivation.at = "none"
  BY UnderWayFacts
<1>2. /\ p \in plug.tools <=> plug.rt[p].listed
      /\ plug.provider = p => plug.rt[p].listed
      /\ plug.rt[p].listed => plug.rt[p].status # "absent"
  BY PluginFacts
<1>3. ASSUME NEW d \in Callers
      PROVE  /\ plug'.activation[d].of \in {plug.activation[d].of, NoPlugin}
             /\ plug'.activation[d].at # "none" => plug'.activation[d].of \in Plugins
  <2>1. CASE d = c
    <3>1. plug'.activation[d] = NoActivation
      BY <2>1 DEF ActivationOver, Marking
    <3> QED BY <1>1, <3>1
  <2>2. CASE d # c
    <3>1. plug'.activation[d] = plug.activation[d]
      BY <2>2 DEF ActivationOver, Marking
    <3> QED BY <1>1, <3>1
  <2> QED BY <2>1, <2>2
<1>4. /\ plug' \in PlugType /\ plug'.unread = plug.unread /\ plug'.stored = plug.stored
      /\ \A q \in Plugins \ {p} :
             /\ plug'.rt[q] = plug.rt[q] /\ (q \in plug'.tools <=> q \in plug.tools)
             /\ plug'.provider = q => plug.provider = q
      /\ plug'.rt[p].status # "absent" <=> plug.rt[p].status # "absent"
      /\ plug'.rt[p].enabled = plug.rt[p].enabled /\ plug'.rt[p].granted = plug.rt[p].granted
      /\ p \in plug'.tools <=> plug'.rt[p].listed
      /\ plug'.provider = p => plug'.rt[p].listed
      /\ plug'.rt[p].listed => plug'.rt[p].status # "absent"
  BY <1>2 DEF ActivationOver, Marking
<1> QED BY <1>3, <1>4, ActivationKeeps

\* An activation ends, and tells in the record how.
LEMMA MarksKeep ==
  ASSUME PluginInv, NEW c \in Callers, plug.activation[c].at # "none",
         NEW s \in {"disabled", "pending-permissions", "loaded", "failed", "tampered"},
         plug' = Marked([plug EXCEPT !.activation[c] = NoActivation], plug.activation[c].of, s),
         UNCHANGED <<life, cut, passedOver>>
  PROVE  PluginInv'
<1> DEFINE p == plug.activation[c].of
           over == [plug EXCEPT !.activation[c] = NoActivation]
<1>1. p \in Plugins /\ plug \in PlugType /\ NoActivation \in Activation
  BY UnderWayFacts
<1>2. ActivationOver(c, over)
  BY <1>1, OverIsOver
<1>3. plug' = Marked(over, p, s) /\ plug.activation[c].of = p
  OBVIOUS
<1> HIDE DEF over, p
<1>4. Marking(over, p, plug')
  <2>1. over \in PlugType
    BY <1>2 DEF ActivationOver
  <2>2. s \in PluginRuntimeStatus \ {"absent"}
    BY DEF PluginRuntimeStatus
  <2> QED BY <1>1, <1>3, <2>1, <2>2, MarkedFields
<1> QED BY <1>1, <1>2, <1>3, <1>4, MarkingKeeps

LEMMA VerificationEndsKeeps ==
  ASSUME PluginInv, NEW c \in Callers, VerificationEnds(c), UNCHANGED <<life, cut, passedOver>>
  PROVE  PluginInv'
<1> DEFINE over == [plug EXCEPT !.activation[c] = NoActivation]
           p == plug.activation[c].of
           a == [plug.activation[c] EXCEPT !.at = "activate"]
<1>1. /\ plug.activation[c].at = "verify"
      /\ \/ plug' = Marked(over, p, "tampered")
         \/ plug' = Marked(over, p, "pending-permissions")
         \/ plug' = [plug EXCEPT !.activation[c].at = "activate"]
  BY DEF VerificationEnds
<1>2. CASE plug' # [plug EXCEPT !.activation[c].at = "activate"]
  BY <1>1, <1>2, MarksKeep
<1>3. CASE plug' = [plug EXCEPT !.activation[c].at = "activate"]
  <2>1. /\ p \in Plugins /\ plug \in PlugType /\ plug.activation \in [Callers -> Activation]
        /\ \A d \in Callers : plug.activation[d].at # "none" => plug.activation[d].of \in Plugins
    BY <1>1, UnderWayFacts
  <2>2. a \in Activation /\ a.of = p
    BY <2>1 DEF Activation
  <2>3. plug' = [plug EXCEPT !.activation[c] = a]
    BY <1>3, <2>1 DEF PlugType
  <2>4. plug.activation[c].of = p
    OBVIOUS
  <2> HIDE DEF a, p
  <2>5. plug \in PlugType /\ a \in Activation /\ plug.activation[c] \in Activation
    BY <2>1, <2>2 DEF PlugType
  <2>6. /\ plug' \in PlugType
        /\ plug'.activation[c] = a /\ \A d \in Callers \ {c} : plug'.activation[d] = plug.activation[d]
        /\ plug'.tools = plug.tools /\ plug'.provider = plug.provider /\ plug'.stored = plug.stored
        /\ plug'.unread = plug.unread /\ plug'.rt = plug.rt
    BY <2>3, <2>5, OverFields
  <2>7. /\ p \in plug.tools <=> plug.rt[p].listed
        /\ plug.provider = p => plug.rt[p].listed
        /\ plug.rt[p].listed => plug.rt[p].status # "absent"
    BY <2>1, PluginFacts
  <2> QED BY <2>1, <2>2, <2>4, <2>6, <2>7, ActivationKeeps
<1> QED BY <1>2, <1>3

LEMMA RegistersKeeps ==
  ASSUME PluginInv, NEW c \in Callers, Registers(c), UNCHANGED <<life, cut, passedOver>>
  PROVE  PluginInv'
<1> DEFINE p == plug.activation[c].of
           r == [plug.rt[p] EXCEPT !.listed = TRUE]
           rt == [plug.rt EXCEPT ![p] = r]
           tools == plug.tools \cup {p}
<1>1. /\ plug.activation[c].at = "activate" /\ Present(p)
      /\ plug' = [plug EXCEPT !.tools = @ \cup {p}, !.provider = p, !.rt[p].listed = TRUE]
  BY DEF Registers
<1>2. /\ p \in Plugins /\ plug \in PlugType
      /\ \A d \in Callers : plug.activation[d].at # "none" => plug.activation[d].of \in Plugins
  BY <1>1, UnderWayFacts
<1>3. plug' = [plug EXCEPT !.tools = tools, !.provider = p, !.rt = rt]
  BY <1>1, <1>2 DEF PlugType
<1>4. plug.activation[c].of = p /\ Present(p)
  BY <1>1
<1> HIDE DEF p
<1>5. /\ r \in PluginRuntime /\ r.listed /\ r.status = plug.rt[p].status
      /\ r.enabled = plug.rt[p].enabled /\ r.granted = plug.rt[p].granted
  <2>1. plug.rt[p] \in PluginRuntime
    BY <1>2 DEF PlugType
  <2> QED BY <2>1 DEF PluginRuntime
<1> HIDE DEF r
<1>6. /\ rt \in [Plugins -> PluginRuntime] /\ rt[p] = r /\ \A q \in Plugins \ {p} : rt[q] = plug.rt[q]
      /\ tools \subseteq Plugins /\ p \in tools
      /\ \A q \in Plugins \ {p} : q \in tools <=> q \in plug.tools
  BY <1>2, <1>5 DEF PlugType
<1> HIDE DEF rt, tools
<1>7. /\ plug' \in PlugType /\ plug'.rt = rt /\ plug'.tools = tools /\ plug'.provider = p
      /\ plug'.stored = plug.stored /\ plug'.unread = plug.unread /\ plug'.activation = plug.activation
  BY <1>2, <1>3, <1>6 DEF PlugType
<1>8. plug.rt[p].status # "absent"
  BY <1>4 DEF Present
<1> QED BY <1>2, <1>4, <1>5, <1>6, <1>7, <1>8, ActivationKeeps

LEMMA ActivationEndsKeeps ==
  ASSUME PluginInv, NEW c \in Callers, ActivationEnds(c), UNCHANGED <<life, cut, passedOver>>
  PROVE  PluginInv'
<1>1. plug.activation[c].at = "activate"
  BY DEF ActivationEnds
<1>2. PICK s \in {"loaded", "failed"} :
         plug' = Marked([plug EXCEPT !.activation[c] = NoActivation], plug.activation[c].of, s)
  BY DEF ActivationEnds
<1> QED BY <1>1, <1>2, MarksKeep

LEMMA SkipStoredPluginKeeps ==
  ASSUME PluginInv, NEW e \in plug.unread, SkipStoredPlugin(e)
  PROVE  PluginInv'
<1> DEFINE rest == plug.unread \ {e}
<1>1. /\ plug' = [plug EXCEPT !.unread = rest]
      /\ passedOver' = passedOver \cup {e.id} /\ UNCHANGED <<life, cut>>
  BY DEF SkipStoredPlugin
<1>2. plug \in PlugType /\ e \in StoredPlugin /\ e.id \in Plugins
  BY DEF PluginInv, PluginTypeOK, PlugType, StoredPlugin
<1>3. rest \subseteq plug.unread /\ plug.unread = rest \cup {e}
  OBVIOUS
<1> HIDE DEF rest
<1>4. /\ plug' \in PlugType /\ plug'.unread = rest /\ plug'.rt = plug.rt /\ plug'.tools = plug.tools
      /\ plug'.provider = plug.provider /\ plug'.stored = plug.stored
      /\ plug'.activation = plug.activation
  BY <1>1, <1>2, <1>3 DEF PlugType
<1>5. PluginTypeOK'
  BY <1>1, <1>2, <1>4 DEF PluginInv, PluginTypeOK, PlugType
<1>6. RegisteredInv' /\ SwitchedOffInv' /\ ActivationsInv'
  BY <1>1, <1>4 DEF PluginInv, RegisteredInv, SwitchedOffInv, ActivationsInv, Present
<1>7. UnreadInv'
  BY <1>1, <1>3, <1>4 DEF PluginInv, UnreadInv, Present
<1>8. LivesInv'
  BY <1>1, <1>3, <1>4 DEF PluginInv, LivesInv, Present
<1>9. StoreFollowsUser'
  BY <1>1, <1>4 DEF PluginInv, StoreFollowsUser, Present
<1> QED BY <1>5, <1>6, <1>7, <1>8, <1>9 DEF PluginInv

LEMMA LoadStoredPluginKeeps ==
  ASSUME PluginInv, NEW e \in plug.unread, LoadStoredPlugin(e)
  PROVE  PluginInv'
<1> DEFINE p == e.id
           r == [AbsentPlugin EXCEPT !.enabled = e.enabled, !.granted = e.granted, !.status = "disabled"]
           rest == plug.unread \ {e}
           left == [plug EXCEPT !.unread = rest]
           read == [left EXCEPT !.rt[p] = r]
<1>1. plug \in PlugType /\ e \in StoredPlugin /\ p \in Plugins
  BY DEF PluginInv, PluginTypeOK, PlugType, StoredPlugin
<1>2. plug' = ActivationBegins(read, p, Loader) /\ UNCHANGED <<life, cut, passedOver>>
  <2>1. [plug EXCEPT !.unread = @ \ {e}, !.rt[e.id] = [AbsentPlugin EXCEPT !.enabled = e.enabled,
                                                               !.granted = e.granted,
                                                               !.status = "disabled"]] = read
    BY <1>1 DEF PlugType
  <2> QED BY <2>1 DEF LoadStoredPlugin
<1>3. /\ r \in PluginRuntime /\ r.enabled = e.enabled /\ r.granted = e.granted
      /\ ~r.listed /\ r.status = "disabled"
  BY <1>1 DEF AbsentPlugin, PluginRuntime, StoredPlugin
<1> HIDE DEF r
<1>4. rest \subseteq plug.unread /\ plug.unread = rest \cup {e} /\ e \notin rest
  OBVIOUS
<1>5. /\ left \in PlugType /\ left.unread = rest /\ left.rt = plug.rt /\ left.tools = plug.tools
      /\ left.provider = plug.provider /\ left.stored = plug.stored
      /\ left.activation = plug.activation
  BY <1>1 DEF PlugType
<1> HIDE DEF left
<1>6. left \in PlugType /\ left.rt[p] \in PluginRuntime
  BY <1>1, <1>5 DEF PlugType
<1>7. /\ read \in PlugType /\ read.rt[p] = r /\ \A q \in Plugins \ {p} : read.rt[q] = left.rt[q]
      /\ read.tools = left.tools /\ read.provider = left.provider /\ read.stored = left.stored
      /\ read.unread = left.unread /\ read.activation = left.activation
  BY <1>1, <1>3, <1>6, RowFields
<1> HIDE DEF read, rest
<1> DEFINE begun == ActivationBegins(read, p, Loader)
<1>8. /\ begun \in PlugType /\ begun.tools = read.tools /\ begun.provider = read.provider
      /\ begun.stored = read.stored /\ begun.unread = read.unread
      /\ \A q \in Plugins \ {p} : begun.rt[q] = read.rt[q]
      /\ begun.rt[p].enabled = read.rt[p].enabled /\ begun.rt[p].granted = read.rt[p].granted
      /\ begun.rt[p].listed = read.rt[p].listed
      /\ read.rt[p].enabled => begun.rt[p] = read.rt[p]
      /\ ~read.rt[p].enabled => begun.rt[p].status = "disabled" /\ begun.activation = read.activation
      /\ \A d \in Callers : \/ begun.activation[d] = read.activation[d]
                            \/ begun.activation[d].of = p /\ begun.activation[d].at = "verify"
  <2>1. read \in PlugType /\ p \in Plugins
    BY <1>1, <1>7
  <2> QED BY <2>1, BegunFields
<1>9. plug' = begun
  BY <1>2
<1> HIDE DEF begun
<1>10. /\ plug' \in PlugType /\ plug'.tools = plug.tools /\ plug'.provider = plug.provider
       /\ plug'.stored = plug.stored /\ plug'.unread = rest
       /\ \A q \in Plugins \ {p} : plug'.rt[q] = plug.rt[q]
       /\ plug'.rt[p].enabled = e.enabled /\ plug'.rt[p].granted = e.granted
       /\ ~plug'.rt[p].listed /\ plug'.rt[p].status = "disabled"
       /\ ~e.enabled => plug'.activation = plug.activation
       /\ \A d \in Callers : \/ plug'.activation[d] = plug.activation[d]
                             \/ plug'.activation[d].of = p /\ plug'.activation[d].at = "verify"
  BY <1>3, <1>5, <1>7, <1>8, <1>9
<1>11. /\ plug.rt[p].status = "absent" /\ life[p] = "installed"
       /\ \A c \in Callers : plug.activation[c].of # p
       /\ \A f \in plug.unread \cup plug.stored : f.id = p => f = e
  BY DEF PluginInv, UnreadInv, Present
<1> HIDE DEF p
<1>12. p = e.id
  BY DEF p
<1>13. /\ ~plug.rt[p].listed /\ p \notin plug.tools /\ plug.provider # p
  BY <1>1, <1>11, PluginFacts
<1>14. PluginTypeOK'
  BY <1>2, <1>10 DEF PluginInv, PluginTypeOK, PlugType
<1>15. RegisteredInv'
  BY <1>1, <1>10, <1>13 DEF PluginInv, RegisteredInv, Present
<1>16. SwitchedOffInv'
  <2> SUFFICES ASSUME NEW q \in Plugins PROVE SwitchedOff(q)'
    BY DEF SwitchedOffInv, SwitchedOff
  <2>1. SwitchedOff(q)
    BY PluginFacts
  <2>2. CASE q = p
    BY <1>10, <1>11, <2>2 DEF SwitchedOff
  <2>3. CASE q # p
    BY <1>2, <1>10, <2>1, <2>3 DEF SwitchedOff, Present
  <2> QED BY <2>2, <2>3
<1>17. UnreadInv'
  <2> SUFFICES ASSUME NEW f \in rest
               PROVE  /\ plug'.rt[f.id].status = "absent" /\ life'[f.id] = "installed"
                      /\ \A c \in Callers : plug'.activation[c].of # f.id
                      /\ \A g \in rest \cup plug'.stored : g.id = f.id => g = f
    BY <1>10 DEF UnreadInv, Present
  <2>1. /\ plug.rt[f.id].status = "absent" /\ life[f.id] = "installed"
        /\ \A c \in Callers : plug.activation[c].of # f.id
        /\ \A g \in plug.unread \cup plug.stored : g.id = f.id => g = f
    BY <1>4 DEF PluginInv, UnreadInv, Present
  <2>2. f.id # p /\ f.id \in Plugins
    BY <1>4, <1>11 DEF PluginInv, PluginTypeOK, StoredPlugin
  <2> QED BY <1>2, <1>4, <1>10, <2>1, <2>2
<1>18. LivesInv'
  BY <1>1, <1>2, <1>4, <1>10, <1>11, <1>12 DEF PluginInv, LivesInv, Present
<1>19. ActivationsInv'
  BY <1>1, <1>10 DEF PluginInv, ActivationsInv
<1>20. StoreFollowsUser'
  <2>1. \A f \in plug.stored : f.id \in Plugins
    BY DEF PluginInv, PluginTypeOK, StoredPlugin
  <2> QED BY <1>2, <1>10, <1>11, <2>1 DEF PluginInv, StoreFollowsUser, Present
<1> QED BY <1>14, <1>15, <1>16, <1>17, <1>18, <1>19, <1>20 DEF PluginInv

LEMMA PluginInitInv == PluginInit => PluginInv
<1> SUFFICES ASSUME PluginInit PROVE PluginInv
  OBVIOUS
<1>1. PICK stored \in SUBSET StoredPlugin :
        /\ \A e, f \in stored : e.id = f.id => e = f
        /\ plug = [rt |-> [p \in Plugins |-> AbsentPlugin], tools |-> {}, provider |-> NoPlugin,
                   stored |-> stored, unread |-> stored,
                   activation |-> [c \in Callers |-> NoActivation]]
        /\ life = [p \in Plugins |-> IF \E e \in stored : e.id = p THEN "installed" ELSE "new"]
        /\ cut = {} /\ passedOver = {}
  BY DEF PluginInit
<1>2. /\ AbsentPlugin \in PluginRuntime /\ ~AbsentPlugin.listed /\ AbsentPlugin.status = "absent"
      /\ NoActivation \in Activation /\ NoActivation.of = NoPlugin /\ NoActivation.at = "none"
  BY DEF AbsentPlugin, PluginRuntime, NoActivation, Activation
<1>3. /\ \A p \in Plugins : plug.rt[p] = AbsentPlugin
      /\ plug.tools = {} /\ plug.provider = NoPlugin /\ plug.stored = stored /\ plug.unread = stored
      /\ \A c \in Callers : plug.activation[c] = NoActivation
      /\ plug.rt \in [Plugins -> PluginRuntime] /\ plug.activation \in [Callers -> Activation]
  BY <1>1, <1>2
<1>4. \A e \in stored : e.id \in Plugins
  BY DEF StoredPlugin
<1>5. /\ \A p \in Plugins : life[p] = IF \E e \in stored : e.id = p THEN "installed" ELSE "new"
      /\ life \in [Plugins -> {"new", "installed", "gone"}]
  BY <1>1
<1>6. PluginTypeOK
  <2>1. plug = [rt |-> plug.rt, tools |-> {}, provider |-> NoPlugin, stored |-> stored,
                unread |-> stored, activation |-> plug.activation]
    BY <1>1
  <2> QED BY <1>1, <1>3, <1>5, <2>1 DEF PluginTypeOK
<1>7. RegisteredInv /\ SwitchedOffInv /\ ActivationsInv
  BY <1>2, <1>3, NoPluginAssumption DEF RegisteredInv, SwitchedOffInv, ActivationsInv, Present
<1>8. UnreadInv
  <2>1. \A e \in stored : life[e.id] = "installed" /\ plug.rt[e.id] = AbsentPlugin
    BY <1>3, <1>4, <1>5
  <2>2. \A e \in stored, c \in Callers : plug.activation[c].of # e.id
    BY <1>2, <1>3, <1>4, NoPluginAssumption
  <2> QED BY <1>1, <1>2, <1>3, <2>1, <2>2 DEF UnreadInv, Present
<1>9. LivesInv
  BY <1>2, <1>3, <1>5 DEF LivesInv, Present
<1>10. StoreFollowsUser
  BY <1>2, <1>3, <1>4, <1>5 DEF StoreFollowsUser, Present
<1> QED BY <1>6, <1>7, <1>8, <1>9, <1>10 DEF PluginInv

THEOREM PluginInvariant == PluginSpec => []PluginInv
<1>1. ASSUME PluginInv, [PluginNext]_pluginVars PROVE PluginInv'
  <2>1. ASSUME NEW p \in Plugins, PluginUserStep(p) PROVE PluginInv'
    BY <1>1, <2>1, InstallPluginKeeps, GrantPermissionsKeeps, EnablePluginKeeps, DisablePluginKeeps,
       UninstallPluginKeeps DEF PluginUserStep
  <2>2. ASSUME NEW e \in plug.unread, LoadStoredPlugin(e) \/ SkipStoredPlugin(e) PROVE PluginInv'
    BY <1>1, <2>2, LoadStoredPluginKeeps, SkipStoredPluginKeeps
  <2>3. ASSUME NEW c \in Callers, VerificationEnds(c) \/ Registers(c) \/ ActivationEnds(c),
               UNCHANGED <<life, cut, passedOver>>
        PROVE  PluginInv'
    BY <1>1, <2>3, VerificationEndsKeeps, RegistersKeeps, ActivationEndsKeeps
  <2>4. CASE UNCHANGED pluginVars
    BY <1>1, <2>4 DEF pluginVars, PluginInv, PluginTypeOK, RegisteredInv, SwitchedOffInv, UnreadInv,
       LivesInv, ActivationsInv, StoreFollowsUser, Present
  <2> QED BY <1>1, <2>1, <2>2, <2>3, <2>4 DEF PluginNext, PluginStep
<1> QED BY <1>1, PluginInitInv, PTL DEF PluginSpec

\* What is in the registries is what the manager lists for a plugin and takes out again;
\* a disabled plugin has nothing there unless it was disabled during an activation. For any
\* plugins, stored list and number of activations that cross (manager.ts of the plugins).
THEOREM PluginToolsAreWithdrawn == PluginSpec => []PluginToolsWithdrawn
<1>1. PluginInv => PluginToolsWithdrawn
  BY DEF PluginInv, RegisteredInv, SwitchedOffInv, PluginToolsWithdrawn
<1> QED BY <1>1, PluginInvariant, PTL

\* The stored list is what the user has done, whatever the loader and the activations are
\* at (persist() in manager.ts of the plugins).
THEOREM StoreDoesFollowUser == PluginSpec => []StoreFollowsUser
<1>1. PluginInv => StoreFollowsUser
  BY DEF PluginInv
<1> QED BY <1>1, PluginInvariant, PTL

-----------------------------------------------------------------------------
(* Memory backends                                                         *)

\* Reloads that have read the settings and not put in what they say.
Reading == {j \in Reloads : memory.call[j].at \in {"read", "answered"}}

ProperRoot == IF "localFs" \in memory.enabled THEN memory.workspace ELSE NoWorkspace

\* Only a reload under way may leave the tools behind the settings. As long as none has
\* begun beside another call, there is one at most, which has read what still holds.
MemoryInv ==
    /\ MemoryTypeOK
    /\ "obsidian" \in memory.tools <=> "obsidian" \in memory.enabled
    /\ memory.root \in {memory.workspace, NoWorkspace}
    /\ Reading = {} => memory.root = ProperRoot
    /\ ~overlapped =>
          /\ \A i, j \in Reading : i = j
          /\ \A j \in Reading :
                /\ memory.call[j].enabled = memory.enabled
                /\ memory.call[j].at = "answered" => memory.call[j].token = memory.token
          /\ Reading = {} =>
                ("notion" \in memory.tools <=> "notion" \in memory.enabled /\ memory.token)

MemoryType ==
    [enabled: SUBSET Backends, token: BOOLEAN,
     workspace: Workspaces \cup {NoWorkspace},
     tools: SUBSET {"obsidian", "notion"}, root: Workspaces \cup {NoWorkspace},
     call: [Reloads -> MemoryCall]]

\* A set of naturals has a least member, which Min() is.
LEMMA MinIsLeast ==
  ASSUME NEW S \in SUBSET Nat, S # {}
  PROVE  Min(S) \in S /\ \A n \in S : Min(S) <= n
<1> DEFINE Below(n) == 0 .. (n - 1)
           T == {Below(n) : n \in S}
           R == StrictSubsetOrdering(Nat)
<1>1. \A n \in Nat : Below(n) \in FiniteSubsetsOf(Nat)
  BY FS_Interval DEF FiniteSubsetsOf
<1>2. T \subseteq FiniteSubsetsOf(Nat) /\ T # {}
  BY <1>1
<1>3. \A m, n \in Nat : n < m => <<Below(n), Below(m)>> \in R
  <2> SUFFICES ASSUME NEW m \in Nat, NEW n \in Nat, n < m
               PROVE  <<Below(n), Below(m)>> \in R
    OBVIOUS
  <2>1. n \in Below(m) /\ n \notin Below(n)
    OBVIOUS
  <2>2. Below(n) \subseteq Below(m) /\ Below(m) \subseteq Nat
    OBVIOUS
  <2> QED BY <2>1, <2>2 DEF StrictSubsetOrdering
<1>4. IsWellFoundedOn(R, FiniteSubsetsOf(Nat))
  BY FS_StrictSubsetOrderingWellFounded
<1> HIDE DEF R, Below
<1>5. PICK x \in T : \A y \in T : ~ (<<y, x>> \in R)
  <2> HIDE DEF T
  <2> QED BY <1>2, <1>4, WFMin
<1>6. PICK m \in S : x = Below(m)
  BY <1>5
<1>7. \A n \in S : ~ (n < m)
  BY <1>3, <1>5, <1>6
<1>8. \A n \in S : m <= n
  BY <1>7
<1> QED BY <1>8 DEF Min

LEMMA ReloadBeginsFields ==
  ASSUME NEW m \in MemoryType, NEW j \in Reloads, NEW n, n = ReloadBegins(m, j)
  PROVE  /\ n \in MemoryType
         /\ n.call[j].at = "read" /\ n.call[j].enabled = m.enabled
         /\ \A i \in Reloads \ {j} : n.call[i] = m.call[i]
         /\ n.enabled = m.enabled /\ n.token = m.token /\ n.workspace = m.workspace /\ n.root = m.root
         /\ "obsidian" \in n.tools <=> "obsidian" \in m.enabled
         /\ "notion" \in n.tools <=> "notion" \in m.tools
<1> DEFINE c == [at |-> "read", enabled |-> m.enabled, token |-> FALSE]
           calls == [m.call EXCEPT ![j] = c]
           tools == IF "obsidian" \in m.enabled THEN m.tools \cup {"obsidian"} ELSE m.tools \ {"obsidian"}
<1>1. n = [m EXCEPT !.call = calls, !.tools = tools]
  BY DEF ReloadBegins, With, MemoryType
<1>2. c \in MemoryCall /\ c.at = "read" /\ c.enabled = m.enabled
  BY DEF MemoryCall, MemoryType
<1> HIDE DEF c
<1>3. /\ calls \in [Reloads -> MemoryCall] /\ calls[j] = c
      /\ \A i \in Reloads \ {j} : calls[i] = m.call[i]
  BY <1>2 DEF MemoryType
<1>4. /\ tools \subseteq {"obsidian", "notion"}
      /\ "obsidian" \in tools <=> "obsidian" \in m.enabled
      /\ "notion" \in tools <=> "notion" \in m.tools
  BY DEF MemoryType
<1> HIDE DEF calls, tools
<1>5. /\ n \in MemoryType /\ n.call = calls /\ n.tools = tools
      /\ n.enabled = m.enabled /\ n.token = m.token /\ n.workspace = m.workspace /\ n.root = m.root
  BY <1>1, <1>3, <1>4 DEF MemoryType
<1> QED BY <1>2, <1>3, <1>4, <1>5

LEMMA ApplyLocalFields ==
  ASSUME NEW m \in MemoryType, NEW n, n = ApplyLocalFsBackend(m)
  PROVE  /\ n \in MemoryType
         /\ n.root = IF "localFs" \in m.enabled THEN m.workspace ELSE NoWorkspace
         /\ n.call = m.call /\ n.tools = m.tools
         /\ n.enabled = m.enabled /\ n.token = m.token /\ n.workspace = m.workspace
<1> DEFINE r == IF "localFs" \in m.enabled THEN m.workspace ELSE NoWorkspace
<1>1. n = [m EXCEPT !.root = r] /\ r \in Workspaces \cup {NoWorkspace}
  BY DEF ApplyLocalFsBackend, MemoryType
<1> HIDE DEF r
<1>2. /\ n \in MemoryType /\ n.root = r /\ n.call = m.call /\ n.tools = m.tools
      /\ n.enabled = m.enabled /\ n.token = m.token /\ n.workspace = m.workspace
  BY <1>1 DEF MemoryType
<1> QED BY <1>2 DEF r

\* One call rewritten.
LEMMA CallFields ==
  ASSUME NEW m \in MemoryType, NEW j \in Reloads, NEW c \in MemoryCall, NEW n, n = [m EXCEPT !.call[j] = c]
  PROVE  /\ n \in MemoryType
         /\ n.call[j] = c /\ \A i \in Reloads \ {j} : n.call[i] = m.call[i]
         /\ n.tools = m.tools /\ n.root = m.root
         /\ n.enabled = m.enabled /\ n.token = m.token /\ n.workspace = m.workspace
<1> DEFINE calls == [m.call EXCEPT ![j] = c]
<1>1. n = [m EXCEPT !.call = calls]
  BY DEF MemoryType
<1>2. /\ calls \in [Reloads -> MemoryCall] /\ calls[j] = c
      /\ \A i \in Reloads \ {j} : calls[i] = m.call[i]
  BY DEF MemoryType
<1> HIDE DEF calls
<1> QED BY <1>1, <1>2 DEF MemoryType

\* A reload that begins reads the settings as they are from then on.
LEMMA ReloadingKeeps ==
  ASSUME MemoryInv, NEW j \in Reloads, NEW m \in MemoryType, Reloading(m, j),
         m.call = memory.call, m.root = memory.root, m.workspace = memory.workspace
  PROVE  MemoryInv'
<1> DEFINE n == ReloadBegins(m, j)
<1>1. memory' = n /\ overlapped' = (UnderWay(m) \ {j} # {})
  BY DEF Reloading
<1>2. /\ n \in MemoryType
      /\ n.call[j].at = "read" /\ n.call[j].enabled = m.enabled
      /\ \A i \in Reloads \ {j} : n.call[i] = m.call[i]
      /\ n.enabled = m.enabled /\ n.token = m.token /\ n.workspace = m.workspace /\ n.root = m.root
      /\ "obsidian" \in n.tools <=> "obsidian" \in m.enabled
      /\ "notion" \in n.tools <=> "notion" \in m.tools
  BY ReloadBeginsFields
<1> HIDE DEF n
<1>3. /\ memory' \in MemoryType /\ overlapped' \in BOOLEAN
      /\ "obsidian" \in memory'.tools <=> "obsidian" \in memory'.enabled
      /\ memory'.root \in {memory'.workspace, NoWorkspace}
      /\ memory'.call[j].at = "read" /\ memory'.call[j].enabled = memory'.enabled
      /\ \A i \in Reloads \ {j} : memory'.call[i] = memory.call[i]
  BY <1>1, <1>2 DEF MemoryInv
<1>4. j \in Reading'
  BY <1>3 DEF Reading
<1>5. ASSUME ~overlapped' PROVE \A i \in Reading' : i = j
  <2>1. \A i \in Reloads \ {j} : memory.call[i].at = "none"
    BY <1>1, <1>5 DEF UnderWay
  <2> QED BY <1>3, <2>1 DEF Reading
<1>6. MemoryTypeOK'
  BY <1>3 DEF MemoryTypeOK, MemoryType
<1> QED BY <1>3, <1>4, <1>5, <1>6 DEF MemoryInv

\* An idle call is there if Idle is not empty, the first.
LEMMA IdleCall ==
  ASSUME Idle # {}
  PROVE  Min(Idle) \in Reloads /\ memory.call[Min(Idle)].at = "none"
<1>1. Idle \in SUBSET Nat
  BY MemoryAssumption DEF Idle, Reloads
<1>2. Min(Idle) \in Idle
  BY <1>1, MinIsLeast
<1> QED BY <1>2 DEF Idle, UnderWay

LEMMA MemoryFacts ==
  ASSUME MemoryInv
  PROVE  memory \in MemoryType /\ overlapped \in BOOLEAN
  BY DEF MemoryInv, MemoryTypeOK, MemoryType

LEMMA ApplyMemoryConfigKeeps ==
  ASSUME MemoryInv, ApplyMemoryConfig
  PROVE  MemoryInv'
<1>1. PICK enabled \in SUBSET Backends :
         Idle # {} /\ Reloading([memory EXCEPT !.enabled = enabled], Min(Idle))
  BY DEF ApplyMemoryConfig
<1> DEFINE m == [memory EXCEPT !.enabled = enabled]
<1>2. /\ m \in MemoryType /\ m.call = memory.call /\ m.root = memory.root
      /\ m.workspace = memory.workspace
  BY MemoryFacts DEF MemoryType
<1>3. Reloading(m, Min(Idle)) /\ Min(Idle) \in Reloads
  BY <1>1, IdleCall
<1> HIDE DEF m
<1> QED BY <1>2, <1>3, ReloadingKeeps

LEMMA TokenWrittenKeeps ==
  ASSUME MemoryInv, NEW j \in Reloads, TokenWritten(j)
  PROVE  MemoryInv'
<1> DEFINE m == [memory EXCEPT !.token = memory.call[j].token]
<1>1. memory \in MemoryType /\ memory.call[j].token \in BOOLEAN
  BY MemoryFacts DEF MemoryType, MemoryCall
<1>2. /\ m \in MemoryType /\ m.call = memory.call /\ m.root = memory.root
      /\ m.workspace = memory.workspace
  BY <1>1 DEF MemoryType
<1>3. Reloading(m, j)
  BY DEF TokenWritten
<1> HIDE DEF m
<1> QED BY <1>2, <1>3, ReloadingKeeps

LEMMA ChangeNotionTokenKeeps ==
  ASSUME MemoryInv, ChangeNotionToken
  PROVE  MemoryInv'
<1>1. PICK token \in BOOLEAN :
         /\ Idle # {}
         /\ memory' = [memory EXCEPT !.call[Min(Idle)] = [at |-> "write", enabled |-> {}, token |-> token]]
         /\ UNCHANGED overlapped
  BY DEF ChangeNotionToken
<1> DEFINE c == [at |-> "write", enabled |-> {}, token |-> token]
           j == Min(Idle)
<1>2. c \in MemoryCall /\ c.at = "write"
  BY DEF MemoryCall, Backends
<1>3. j \in Reloads /\ memory.call[j].at = "none" /\ memory \in MemoryType /\ memory.call[j] \in MemoryCall
  BY <1>1, IdleCall, MemoryFacts DEF MemoryType
<1>4. memory' = [memory EXCEPT !.call[j] = c]
  BY <1>1
<1> HIDE DEF c, j
<1>5. /\ memory' \in MemoryType
      /\ memory'.call[j] = c /\ \A i \in Reloads \ {j} : memory'.call[i] = memory.call[i]
      /\ memory'.tools = memory.tools /\ memory'.root = memory.root
      /\ memory'.enabled = memory.enabled /\ memory'.token = memory.token
      /\ memory'.workspace = memory.workspace
  BY <1>2, <1>3, <1>4, CallFields
<1>6. Reading' = Reading /\ \A i \in Reading : memory'.call[i] = memory.call[i]
  BY <1>2, <1>3, <1>5 DEF Reading
<1>7. MemoryTypeOK'
  BY <1>1, <1>5, MemoryFacts DEF MemoryTypeOK, MemoryType
<1> QED BY <1>1, <1>5, <1>6, <1>7 DEF MemoryInv, ProperRoot

LEMMA SwitchWorkspaceKeeps ==
  ASSUME MemoryInv, SwitchWorkspace
  PROVE  MemoryInv'
<1>1. PICK workspace \in Workspaces \cup {NoWorkspace} :
         /\ memory' = ApplyLocalFsBackend([memory EXCEPT !.workspace = workspace])
         /\ UNCHANGED overlapped
  BY DEF SwitchWorkspace
<1> DEFINE m == [memory EXCEPT !.workspace = workspace]
<1>2. /\ m \in MemoryType /\ m.call = memory.call /\ m.tools = memory.tools
      /\ m.enabled = memory.enabled /\ m.token = memory.token
  BY MemoryFacts DEF MemoryType
<1>3. memory' = ApplyLocalFsBackend(m)
  BY <1>1
<1> HIDE DEF m
<1>4. /\ memory' \in MemoryType
      /\ memory'.root = IF "localFs" \in m.enabled THEN m.workspace ELSE NoWorkspace
      /\ memory'.call = m.call /\ memory'.tools = m.tools
      /\ memory'.enabled = m.enabled /\ memory'.token = m.token /\ memory'.workspace = m.workspace
  BY <1>2, <1>3, ApplyLocalFields
<1>5. Reading' = Reading
  BY <1>2, <1>4 DEF Reading
<1>6. memory'.root = ProperRoot' /\ memory'.root \in {memory'.workspace, NoWorkspace}
  BY <1>4 DEF ProperRoot
<1>7. MemoryTypeOK'
  BY <1>1, <1>4, MemoryFacts DEF MemoryTypeOK, MemoryType
<1> QED BY <1>1, <1>2, <1>4, <1>5, <1>6, <1>7 DEF MemoryInv

LEMMA TokenReadKeeps ==
  ASSUME MemoryInv, NEW j \in Reloads, TokenRead(j)
  PROVE  MemoryInv'
<1> DEFINE c == [memory.call[j] EXCEPT !.at = "answered", !.token = memory.token]
<1>1. /\ memory.call[j].at = "read" /\ UNCHANGED overlapped
      /\ memory' = [memory EXCEPT !.call[j].at = "answered", !.call[j].token = memory.token]
  BY DEF TokenRead
<1>2. memory \in MemoryType /\ memory.call[j] \in MemoryCall
  BY MemoryFacts DEF MemoryType
<1>3. memory' = [memory EXCEPT !.call[j] = c]
  BY <1>1, <1>2 DEF MemoryType
<1>4. /\ c \in MemoryCall /\ c.at = "answered" /\ c.enabled = memory.call[j].enabled
      /\ c.token = memory.token
  BY <1>2 DEF MemoryCall, MemoryType
<1> HIDE DEF c
<1>5. /\ memory' \in MemoryType
      /\ memory'.call[j] = c /\ \A i \in Reloads \ {j} : memory'.call[i] = memory.call[i]
      /\ memory'.tools = memory.tools /\ memory'.root = memory.root
      /\ memory'.enabled = memory.enabled /\ memory'.token = memory.token
      /\ memory'.workspace = memory.workspace
  BY <1>2, <1>3, <1>4, CallFields
<1>6. Reading' = Reading
  BY <1>1, <1>4, <1>5 DEF Reading
<1>7. MemoryTypeOK'
  BY <1>1, <1>5, MemoryFacts DEF MemoryTypeOK, MemoryType
<1>8. ASSUME ~overlapped
      PROVE  /\ \A i \in Reading' :
                   /\ memory'.call[i].enabled = memory'.enabled
                   /\ memory'.call[i].at = "answered" => memory'.call[i].token = memory'.token
  BY <1>4, <1>5, <1>6, <1>8 DEF MemoryInv, Reading
<1> QED BY <1>1, <1>5, <1>6, <1>7, <1>8 DEF MemoryInv, ProperRoot

LEMMA ReloadEndsKeeps ==
  ASSUME MemoryInv, NEW j \in Reloads, ReloadEnds(j)
  PROVE  MemoryInv'
<1> DEFINE call == memory.call[j]
           on == "notion" \in call.enabled /\ call.token
           over == [memory EXCEPT !.call[j] = NoCall]
           tools == IF on THEN over.tools \cup {"notion"} ELSE over.tools \ {"notion"}
           m == [over EXCEPT !.tools = tools]
<1>1. call.at = "answered" /\ UNCHANGED overlapped /\ memory' = ApplyLocalFsBackend(m)
  BY DEF ReloadEnds, With
<1>2. memory \in MemoryType /\ call \in MemoryCall /\ NoCall \in MemoryCall /\ NoCall.at = "none"
  BY MemoryFacts DEF MemoryType, NoCall, MemoryCall, Backends
<1>3. /\ over \in MemoryType
      /\ over.call[j] = NoCall /\ \A i \in Reloads \ {j} : over.call[i] = memory.call[i]
      /\ over.tools = memory.tools /\ over.root = memory.root
      /\ over.enabled = memory.enabled /\ over.token = memory.token
      /\ over.workspace = memory.workspace
  BY <1>2, CallFields
<1> HIDE DEF over, on
<1>4. /\ tools \subseteq {"obsidian", "notion"} /\ ("notion" \in tools <=> on)
      /\ "obsidian" \in tools <=> "obsidian" \in memory.tools
  BY <1>2, <1>3 DEF MemoryType
<1> HIDE DEF tools
<1>5. /\ m \in MemoryType /\ m.tools = tools /\ m.call = over.call
      /\ m.enabled = over.enabled /\ m.token = over.token /\ m.workspace = over.workspace
  BY <1>3, <1>4 DEF MemoryType
<1> HIDE DEF m
<1>6. /\ memory' \in MemoryType
      /\ memory'.root = IF "localFs" \in m.enabled THEN m.workspace ELSE NoWorkspace
      /\ memory'.call = m.call /\ memory'.tools = m.tools
      /\ memory'.enabled = m.enabled /\ memory'.token = m.token /\ memory'.workspace = m.workspace
  BY <1>1, <1>5, ApplyLocalFields
<1>7. Reading' = Reading \ {j} /\ j \in Reading /\ \A i \in Reading' : memory'.call[i] = memory.call[i]
  BY <1>1, <1>2, <1>3, <1>5, <1>6 DEF Reading
<1>8. memory'.root = ProperRoot' /\ memory'.root \in {memory'.workspace, NoWorkspace}
  BY <1>6 DEF ProperRoot
<1>9. MemoryTypeOK'
  BY <1>1, <1>6, MemoryFacts DEF MemoryTypeOK, MemoryType
<1>10. "obsidian" \in memory'.tools <=> "obsidian" \in memory'.enabled
  BY <1>3, <1>4, <1>5, <1>6 DEF MemoryInv
<1>11. ASSUME ~overlapped
       PROVE  Reading' = {} /\ ("notion" \in memory'.tools <=> "notion" \in memory'.enabled /\ memory'.token)
  <2>1. /\ \A i \in Reading : i = j
        /\ call.enabled = memory.enabled /\ call.token = memory.token
    BY <1>1, <1>7, <1>11 DEF MemoryInv
  <2>2. "notion" \in memory'.tools <=> on
    BY <1>4, <1>5, <1>6
  <2>3. memory'.enabled = memory.enabled /\ memory'.token = memory.token
    BY <1>3, <1>5, <1>6
  <2>4. on <=> "notion" \in memory.enabled /\ memory.token
    BY <2>1 DEF on
  <2> QED BY <1>7, <2>1, <2>2, <2>3, <2>4
<1> QED BY <1>1, <1>7, <1>8, <1>9, <1>10, <1>11 DEF MemoryInv

LEMMA MemoryInitInv == MemoryInit => MemoryInv
<1> SUFFICES ASSUME MemoryInit PROVE MemoryInv
  OBVIOUS
<1>1. PICK enabled \in SUBSET Backends, token \in BOOLEAN, workspace \in Workspaces \cup {NoWorkspace} :
        /\ memory = ApplyLocalFsBackend(ReloadBegins(
                        [enabled |-> enabled, token |-> token, workspace |-> workspace,
                         tools |-> {}, root |-> NoWorkspace,
                         call |-> [j \in Reloads |-> NoCall]], 1))
        /\ overlapped = FALSE
  BY DEF MemoryInit
<1> DEFINE new == [enabled |-> enabled, token |-> token, workspace |-> workspace,
                   tools |-> {}, root |-> NoWorkspace, call |-> [j \in Reloads |-> NoCall]]
           m == ReloadBegins(new, 1)
<1>2. 1 \in Reloads
  BY MemoryAssumption DEF Reloads
<1>3. NoCall \in MemoryCall /\ NoCall.at = "none"
  BY DEF NoCall, MemoryCall, Backends
<1>4. new \in MemoryType /\ \A i \in Reloads : new.call[i] = NoCall
  BY <1>3 DEF MemoryType
<1> HIDE DEF new
<1>5. /\ m \in MemoryType
      /\ m.call[1].at = "read" /\ m.call[1].enabled = new.enabled
      /\ \A i \in Reloads \ {1} : m.call[i] = new.call[i]
      /\ m.enabled = new.enabled
      /\ "obsidian" \in m.tools <=> "obsidian" \in new.enabled
  BY <1>2, <1>4, ReloadBeginsFields
<1>6. memory = ApplyLocalFsBackend(m)
  BY <1>1 DEF new
<1> HIDE DEF m
<1>7. /\ memory \in MemoryType
      /\ memory.root = IF "localFs" \in m.enabled THEN m.workspace ELSE NoWorkspace
      /\ memory.call = m.call /\ memory.tools = m.tools
      /\ memory.enabled = m.enabled /\ memory.token = m.token /\ memory.workspace = m.workspace
  BY <1>5, <1>6, ApplyLocalFields
<1>8. Reading = {1}
  BY <1>2, <1>3, <1>4, <1>5, <1>7 DEF Reading
<1>9. MemoryTypeOK
  BY <1>1, <1>7 DEF MemoryTypeOK, MemoryType
<1> QED BY <1>1, <1>5, <1>7, <1>8, <1>9 DEF MemoryInv

\* When no call is under way the registered memory tools are those of the settings as they
\* are, and the local ones never work on another workspace: for any number of calls that
\* cross (reloadMemory() in manager.ts of the memory).
THEOREM MemoryDoesFollowSettings == MemorySpec => []MemoryFollowsSettings
<1>1. ASSUME MemoryInv, [MemoryUserStep \/ MemoryStep]_memoryVars PROVE MemoryInv'
  <2>1. CASE UNCHANGED memoryVars
    BY <1>1, <2>1 DEF memoryVars, MemoryInv, MemoryTypeOK, Reading, ProperRoot
  <2> QED BY <1>1, <2>1, ApplyMemoryConfigKeeps, ChangeNotionTokenKeeps, SwitchWorkspaceKeeps,
             TokenWrittenKeeps, TokenReadKeeps, ReloadEndsKeeps DEF MemoryUserStep, MemoryStep
<1>2. MemoryInv => MemoryFollowsSettings
  <2> SUFFICES ASSUME MemoryInv PROVE MemoryFollowsSettings
    OBVIOUS
  <2>1. UnderWay(memory) = {} => Reading = {}
    BY DEF UnderWay, Reading
  <2> QED BY <2>1 DEF MemoryInv, MemoryFollowsSettings, ProperRoot
<1> QED BY <1>1, <1>2, MemoryInitInv, PTL DEF MemorySpec

-----------------------------------------------------------------------------
(* The client of an MCP server                                             *)

ClientState ==
    [kind : {"stdio", "sse", "http"}, connected : BOOLEAN, usable : BOOLEAN,
     at : {"new", "start", "initialize", "notify", "stop", "up", "rejected"},
     link : {"none", "open", "closing", "closed"}, cause : BOOLEAN,
     call : [RpcIds -> {"none", "waiting", "answered", "failed"}]]

(* Nothing but initialize has been asked before connect() is through.     *)
Unasked(r) == \A id \in RpcIds \ {Initialize} : r.call[id] = "none"

(* Who has waited is told.                                                *)
Told(r) == [id \in RpcIds |-> IF r.call[id] = "waiting" THEN "failed" ELSE r.call[id]]

(* The places of connect() and what the transport is at each.             *)
ConnectInv ==
    /\ rpc.at \in {"new", "start"} => rpc.link = "none" /\ rpc.call[Initialize] = "none"
    /\ rpc.at = "start" => rpc.kind = "sse"
    /\ rpc.at \in {"initialize", "notify", "stop", "up"} => rpc.kind # "sse"
    /\ rpc.at = "initialize" => rpc.link = "open" /\ rpc.call[Initialize] = "waiting"
    /\ rpc.at # "initialize" => rpc.call[Initialize] # "waiting"
    /\ rpc.at = "notify" => rpc.link \in {"open", "closed"} /\ rpc.call[Initialize] = "answered"
    /\ rpc.at = "stop" => rpc.kind = "stdio" /\ rpc.link = "closing"
    /\ rpc.at = "up" => rpc.link # "none" /\ rpc.call[Initialize] = "answered"
    /\ rpc.at = "rejected" => rpc.link # "open"
    /\ rpc.at \notin {"up"} => Unasked(rpc)
    /\ rpc.at = "up" /\ rpc.connected => rpc.link = "open"

ClientInv == ClientTypeOK /\ ConnectInv

LEMMA InitializeIsId == Initialize \in RpcIds
BY ClientAssumption DEF Initialize, RpcIds

LEMMA ClosedFields ==
    ASSUME NEW r \in ClientState
    PROVE  LET s == TransportClosed(r) IN
           /\ s \in ClientState
           /\ s.kind = r.kind /\ s.at = r.at /\ s.usable = r.usable /\ s.cause = r.cause
           /\ s.link = "closed" /\ s.connected = FALSE /\ s.call = Told(r)
BY DEF TransportClosed, ClientState, Told

LEMMA StoppedFields ==
    ASSUME NEW r \in ClientState
    PROVE  LET s == TransportStopped(r) IN
           /\ s \in ClientState
           /\ s.kind = r.kind /\ s.at = r.at /\ s.cause = r.cause
           /\ s.connected = (r.connected /\ r.kind # "http")
           /\ s.link = IF r.kind = "http" THEN "closed"
                       ELSE IF r.link = "open" THEN "closing" ELSE r.link
           /\ s.call = IF r.kind = "http" THEN Told(r) ELSE r.call
<1> DEFINE going == [r EXCEPT !.link = IF @ = "open" THEN "closing" ELSE @]
           quiet == [going EXCEPT !.usable = FALSE]
<1>1. /\ going \in ClientState
      /\ going.kind = r.kind /\ going.at = r.at /\ going.cause = r.cause
      /\ going.connected = r.connected /\ going.call = r.call
      /\ going.link = IF r.link = "open" THEN "closing" ELSE r.link
  BY DEF ClientState
<1> HIDE DEF going
<1>2. /\ quiet \in ClientState
      /\ quiet.kind = r.kind /\ quiet.at = r.at /\ quiet.cause = r.cause
      /\ quiet.connected = r.connected /\ quiet.call = r.call
      /\ quiet.link = going.link
  BY <1>1 DEF ClientState
<1>3. r.kind \in {"stdio", "sse", "http"} /\ r.connected \in BOOLEAN
  BY DEF ClientState
<1>4. TransportStopped(r) = CASE r.kind = "stdio" -> quiet
                              [] r.kind = "sse" -> going
                              [] r.kind = "http" -> TransportClosed(quiet)
  BY DEF TransportStopped, going
<1> HIDE DEF quiet
<1>5. LET s == TransportClosed(quiet) IN
      /\ s \in ClientState
      /\ s.kind = quiet.kind /\ s.at = quiet.at /\ s.usable = quiet.usable /\ s.cause = quiet.cause
      /\ s.link = "closed" /\ s.connected = FALSE /\ s.call = Told(quiet)
  BY <1>2, ClosedFields
<1>6. Told(quiet) = Told(r)
  BY <1>2 DEF Told
<1>7. QED
  BY <1>1, <1>2, <1>3, <1>4, <1>5, <1>6

LEMMA ThrowsFields ==
    ASSUME NEW r \in ClientState
    PROVE  LET s == ConnectThrows(r) IN
           /\ s \in ClientState
           /\ s.kind = r.kind /\ s.cause = r.cause /\ s.connected = FALSE
           /\ s.link = IF r.kind = "http" THEN "closed"
                       ELSE IF r.link = "open" THEN "closing" ELSE r.link
           /\ s.call = IF r.kind = "http" THEN Told(r) ELSE r.call
           /\ s.at = IF s.kind = "stdio" /\ s.link = "closing" THEN "stop" ELSE "rejected"
<1> DEFINE q == [r EXCEPT !.connected = FALSE]
           s == TransportStopped(q)
<1>1. /\ q \in ClientState
      /\ q.kind = r.kind /\ q.at = r.at /\ q.cause = r.cause /\ q.link = r.link
      /\ q.connected = FALSE /\ q.call = r.call
  BY DEF ClientState
<1>2. ConnectThrows(r) =
        [s EXCEPT !.at = IF s.kind = "stdio" /\ s.link = "closing" THEN "stop" ELSE "rejected"]
  BY DEF ConnectThrows
<1> HIDE DEF q
<1>3. /\ s \in ClientState
      /\ s.kind = q.kind /\ s.at = q.at /\ s.cause = q.cause
      /\ s.connected = (q.connected /\ q.kind # "http")
      /\ s.link = IF q.kind = "http" THEN "closed"
                  ELSE IF q.link = "open" THEN "closing" ELSE q.link
      /\ s.call = IF q.kind = "http" THEN Told(q) ELSE q.call
  BY <1>1, StoppedFields
<1>4. Told(q) = Told(r)
  BY <1>1 DEF Told
<1> HIDE DEF s
<1>5. QED
  BY <1>1, <1>2, <1>3, <1>4 DEF ClientState

LEMMA InitEstablishesClient ==
    ASSUME ClientInit
    PROVE  ClientInv /\ Link!Init
<1> USE InitializeIsId
<1>1. PICK kind \in {"stdio", "sse", "http"} :
        rpc = [kind |-> kind, at |-> "new", link |-> "none", usable |-> FALSE,
               connected |-> FALSE, cause |-> FALSE, call |-> [id \in RpcIds |-> "none"]]
  BY DEF ClientInit
<1>2. /\ rpc.at = "new" /\ rpc.link = "none" /\ rpc.connected = FALSE
      /\ rpc.call = [id \in RpcIds |-> "none"]
  BY <1>1
<1>3. ClientTypeOK
  BY <1>1 DEF ClientTypeOK
<1>4. ConnectInv
  BY <1>2 DEF ConnectInv, Unasked
<1>5. Link!Init
  BY <1>2 DEF Link!Init, LinkSeen
<1>6. QED
  BY <1>3, <1>4, <1>5 DEF ClientInv

(* A step of the client, and what the manager sees of it.                  *)
ClientKept == ClientInv' /\ (Link!Next \/ UNCHANGED Link!vars)

LEMMA RpcIsState ==
    ASSUME ClientInv
    PROVE  /\ rpc \in ClientState
           /\ rpc.kind \in {"stdio", "sse", "http"}
           /\ rpc.at \in {"new", "start", "initialize", "notify", "stop", "up", "rejected"}
           /\ rpc.link \in {"none", "open", "closing", "closed"}
           /\ rpc.call \in [RpcIds -> {"none", "waiting", "answered", "failed"}]
           /\ rpc.connected \in BOOLEAN
BY DEF ClientInv, ClientTypeOK, ClientState

(* The fields of the next state are enough.                                *)
LEMMA ConnectBeginsKept ==
    ASSUME ClientInv, ConnectBegins
    PROVE  ClientKept
<1> USE InitializeIsId
<1>1. CASE rpc.kind = "sse"
  <2>1. /\ rpc' \in ClientState
        /\ rpc'.kind = "sse" /\ rpc'.at = "start" /\ rpc'.link = rpc.link /\ rpc'.call = rpc.call
    BY <1>1, RpcIsState DEF ConnectBegins, ClientState
  <2>2. rpc.at = "new" /\ ConnectInv
    BY DEF ConnectBegins, ClientInv
  <2>3. ConnectInv'
    BY <2>1, <2>2 DEF ConnectInv, Unasked
  <2>4. ClientTypeOK'
    BY <2>1 DEF ClientTypeOK, ClientState
  <2>5. LinkSeen' = LinkSeen /\ rpc'.call = rpc.call
    BY <2>1, <2>2 DEF LinkSeen, ConnectInv
  <2>6. QED
    BY <2>3, <2>4, <2>5 DEF ClientKept, ClientInv, Link!vars
<1>2. CASE rpc.kind # "sse"
  <2>1. /\ rpc' \in ClientState
        /\ rpc'.kind = rpc.kind /\ rpc'.at = "initialize" /\ rpc'.link = "open"
        /\ rpc'.call = [rpc.call EXCEPT ![Initialize] = "waiting"]
    BY <1>2, RpcIsState DEF ConnectBegins, ClientState
  <2>2. rpc.at = "new" /\ ConnectInv
    BY DEF ConnectBegins, ClientInv
  <2>3. /\ rpc'.call[Initialize] = "waiting"
        /\ \A id \in RpcIds \ {Initialize} : rpc'.call[id] = rpc.call[id]
    BY <2>1, RpcIsState
  <2>4. ConnectInv'
    BY <1>2, <2>1, <2>2, <2>3 DEF ConnectInv, Unasked
  <2>5. ClientTypeOK'
    BY <2>1 DEF ClientTypeOK, ClientState
  <2>6. LinkSeen = "starting" /\ LinkSeen' = "starting" /\ rpc.call[Initialize] = "none"
    BY <2>1, <2>2 DEF LinkSeen, ConnectInv
  <2>7. Link!Begin
    BY <2>1, <2>6 DEF Link!Begin
  <2>8. QED
    BY <2>4, <2>5, <2>7 DEF ClientKept, ClientInv, Link!Next
<1>3. QED
  BY <1>1, <1>2

LEMMA StreamRefusedKept ==
    ASSUME ClientInv, StreamRefused
    PROVE  ClientKept
<1> USE InitializeIsId
<1>1. /\ rpc' \in ClientState
      /\ rpc'.kind = rpc.kind /\ rpc'.at = "rejected" /\ rpc'.link = rpc.link
      /\ rpc'.call = rpc.call
  BY RpcIsState DEF StreamRefused, ClientState
<1>2. rpc.at = "start" /\ ConnectInv
  BY DEF StreamRefused, ClientInv
<1>3. ConnectInv'
  BY <1>1, <1>2 DEF ConnectInv, Unasked
<1>4. ClientTypeOK'
  BY <1>1 DEF ClientTypeOK, ClientState
<1>5. LinkSeen = "starting" /\ LinkSeen' = "gone" /\ rpc.call[Initialize] # "waiting"
  BY <1>1, <1>2 DEF LinkSeen, ConnectInv
<1>6. Link!GiveUp
  BY <1>1, <1>5 DEF Link!GiveUp
<1>7. QED
  BY <1>3, <1>4, <1>6 DEF ClientKept, ClientInv, Link!Next

LEMMA StreamStartsKept ==
    ASSUME ClientInv, StreamStarts
    PROVE  ClientKept
<1> USE InitializeIsId
<1> DEFINE r == [rpc EXCEPT !.link = "open", !.call[Initialize] = "failed"]
<1>1. /\ r \in ClientState
      /\ r.kind = rpc.kind /\ r.link = "open"
      /\ r.call = [rpc.call EXCEPT ![Initialize] = "failed"]
  BY RpcIsState DEF ClientState
<1>2. rpc.at = "start" /\ ConnectInv /\ rpc' = ConnectThrows(r)
  BY DEF StreamStarts, ClientInv
<1> HIDE DEF r
<1>3. LET s == ConnectThrows(r) IN
      /\ s \in ClientState
      /\ s.kind = r.kind /\ s.cause = r.cause /\ s.connected = FALSE
      /\ s.link = IF r.kind = "http" THEN "closed"
                  ELSE IF r.link = "open" THEN "closing" ELSE r.link
      /\ s.call = IF r.kind = "http" THEN Told(r) ELSE r.call
      /\ s.at = IF s.kind = "stdio" /\ s.link = "closing" THEN "stop" ELSE "rejected"
  BY <1>1, ThrowsFields
<1>4. rpc.kind = "sse"
  BY <1>2 DEF ConnectInv
<1>5. /\ rpc' \in ClientState
      /\ rpc'.kind = "sse" /\ rpc'.at = "rejected" /\ rpc'.link = "closing"
      /\ rpc'.call = [rpc.call EXCEPT ![Initialize] = "failed"]
  BY <1>1, <1>2, <1>3, <1>4
<1>6. /\ rpc'.call[Initialize] = "failed"
      /\ \A id \in RpcIds \ {Initialize} : rpc'.call[id] = rpc.call[id]
  BY <1>5, RpcIsState
<1>7. ConnectInv'
  BY <1>2, <1>5, <1>6 DEF ConnectInv, Unasked
<1>8. ClientTypeOK'
  BY <1>5 DEF ClientTypeOK, ClientState
<1>9. LinkSeen = "starting" /\ LinkSeen' = "stopping"
  BY <1>2, <1>5 DEF LinkSeen, ConnectInv
<1>10. Link!GiveUp
  BY <1>5, <1>6, <1>9 DEF Link!GiveUp
<1>11. QED
  BY <1>7, <1>8, <1>10 DEF ClientKept, ClientInv, Link!Next

LEMMA InitializeAcceptedKept ==
    ASSUME ClientInv, InitializeAccepted
    PROVE  ClientKept
<1> USE InitializeIsId
<1>1. /\ rpc' \in ClientState
      /\ rpc'.kind = rpc.kind /\ rpc'.at = "notify" /\ rpc'.link = rpc.link
      /\ rpc'.call = [rpc.call EXCEPT ![Initialize] = "answered"]
  BY RpcIsState DEF InitializeAccepted, ClientState
<1>2. rpc.at = "initialize" /\ ConnectInv
  BY DEF InitializeAccepted, ClientInv
<1>3. /\ rpc'.call[Initialize] = "answered"
      /\ \A id \in RpcIds \ {Initialize} : rpc'.call[id] = rpc.call[id]
  BY <1>1, RpcIsState
<1>4. ConnectInv'
  BY <1>1, <1>2, <1>3 DEF ConnectInv, Unasked
<1>5. ClientTypeOK'
  BY <1>1 DEF ClientTypeOK, ClientState
<1>6. LinkSeen = "starting" /\ LinkSeen' = "starting" /\ rpc.call[Initialize] = "waiting"
  BY <1>1, <1>2 DEF LinkSeen, ConnectInv
<1>7. Link!Answer(Initialize)
  BY <1>1, <1>6 DEF Link!Answer
<1>8. QED
  BY <1>4, <1>5, <1>7 DEF ClientKept, ClientInv, Link!Next

LEMMA InitializeRejectedKept ==
    ASSUME ClientInv, InitializeRejected
    PROVE  ClientKept
<1> USE InitializeIsId
<1> DEFINE r == [rpc EXCEPT !.cause = TRUE, !.call[Initialize] = "failed"]
<1>1. /\ r \in ClientState
      /\ r.kind = rpc.kind /\ r.link = rpc.link
      /\ r.call = [rpc.call EXCEPT ![Initialize] = "failed"]
  BY RpcIsState DEF ClientState
<1>2. rpc.at = "initialize" /\ ConnectInv /\ rpc' = ConnectThrows(r)
  BY DEF InitializeRejected, ClientInv
<1> HIDE DEF r
<1>3. LET s == ConnectThrows(r) IN
      /\ s \in ClientState
      /\ s.kind = r.kind /\ s.cause = r.cause /\ s.connected = FALSE
      /\ s.link = IF r.kind = "http" THEN "closed"
                  ELSE IF r.link = "open" THEN "closing" ELSE r.link
      /\ s.call = IF r.kind = "http" THEN Told(r) ELSE r.call
      /\ s.at = IF s.kind = "stdio" /\ s.link = "closing" THEN "stop" ELSE "rejected"
  BY <1>1, ThrowsFields
<1>4. rpc.kind \in {"stdio", "http"} /\ rpc.link = "open" /\ Unasked(rpc)
  BY <1>2, RpcIsState DEF ConnectInv
<1>5. Told(r) = r.call
  <2>1. \A id \in RpcIds : r.call[id] # "waiting"
    BY <1>1, <1>4, RpcIsState DEF Unasked
  <2>2. Told(r) = [id \in RpcIds |-> r.call[id]]
    BY <2>1 DEF Told
  <2>3. QED
    BY <1>1, <2>2 DEF ClientState
<1>6. /\ rpc' \in ClientState
      /\ rpc'.kind = rpc.kind
      /\ rpc'.at = IF rpc.kind = "stdio" THEN "stop" ELSE "rejected"
      /\ rpc'.link = IF rpc.kind = "stdio" THEN "closing" ELSE "closed"
      /\ rpc'.call = [rpc.call EXCEPT ![Initialize] = "failed"]
  BY <1>1, <1>2, <1>3, <1>4, <1>5
<1>7. /\ rpc'.call[Initialize] = "failed"
      /\ \A id \in RpcIds \ {Initialize} : rpc'.call[id] = rpc.call[id]
  BY <1>6, RpcIsState
<1>8. ConnectInv'
  BY <1>2, <1>4, <1>6, <1>7 DEF ConnectInv, Unasked
<1>9. ClientTypeOK'
  BY <1>6 DEF ClientTypeOK, ClientState
<1>10. LinkSeen = "starting" /\ LinkSeen' \in {"stopping", "gone"}
  BY <1>2, <1>4, <1>6 DEF LinkSeen
<1>11. Link!GiveUp
  BY <1>6, <1>7, <1>10 DEF Link!GiveUp
<1>12. QED
  BY <1>8, <1>9, <1>11 DEF ClientKept, ClientInv, Link!Next

LEMMA NotifiedKept ==
    ASSUME ClientInv, Notified
    PROVE  ClientKept
<1> USE InitializeIsId
<1>1. /\ rpc' \in ClientState
      /\ rpc'.kind = rpc.kind /\ rpc'.at = "up" /\ rpc'.link = rpc.link
      /\ rpc'.call = rpc.call
  BY RpcIsState DEF Notified, ClientState
<1>2. rpc.at = "notify" /\ rpc.link = "open" /\ ConnectInv
  BY DEF Notified, ClientInv
<1>3. ConnectInv'
  BY <1>1, <1>2 DEF ConnectInv, Unasked
<1>4. ClientTypeOK'
  BY <1>1 DEF ClientTypeOK, ClientState
<1>5. LinkSeen = "starting" /\ LinkSeen' = "up" /\ rpc.call[Initialize] = "answered"
  BY <1>1, <1>2 DEF LinkSeen, ConnectInv
<1>6. Link!Ready
  BY <1>1, <1>5 DEF Link!Ready
<1>7. QED
  BY <1>3, <1>4, <1>6 DEF ClientKept, ClientInv, Link!Next

LEMMA NotifyFailsKept ==
    ASSUME ClientInv, NotifyFails
    PROVE  ClientKept
<1> USE InitializeIsId
<1> DEFINE r == [rpc EXCEPT !.cause = TRUE]
<1>1. /\ r \in ClientState
      /\ r.kind = rpc.kind /\ r.link = rpc.link /\ r.call = rpc.call
  BY RpcIsState DEF ClientState
<1>2. rpc.at = "notify" /\ ConnectInv /\ rpc' = ConnectThrows(r)
  BY DEF NotifyFails, ClientInv
<1> HIDE DEF r
<1>3. LET s == ConnectThrows(r) IN
      /\ s \in ClientState
      /\ s.kind = r.kind /\ s.cause = r.cause /\ s.connected = FALSE
      /\ s.link = IF r.kind = "http" THEN "closed"
                  ELSE IF r.link = "open" THEN "closing" ELSE r.link
      /\ s.call = IF r.kind = "http" THEN Told(r) ELSE r.call
      /\ s.at = IF s.kind = "stdio" /\ s.link = "closing" THEN "stop" ELSE "rejected"
  BY <1>1, ThrowsFields
<1>4. /\ rpc.kind \in {"stdio", "http"} /\ rpc.link \in {"open", "closed"} /\ Unasked(rpc)
      /\ rpc.call[Initialize] = "answered"
  BY <1>2, RpcIsState DEF ConnectInv
<1>5. Told(r) = rpc.call
  <2>1. \A id \in RpcIds : rpc.call[id] # "waiting"
    BY <1>4, RpcIsState DEF Unasked
  <2>2. Told(r) = [id \in RpcIds |-> rpc.call[id]]
    BY <1>1, <2>1 DEF Told
  <2>3. QED
    BY <2>2, RpcIsState
<1>6. /\ rpc' \in ClientState
      /\ rpc'.kind = rpc.kind
      /\ rpc'.at = IF rpc'.kind = "stdio" /\ rpc'.link = "closing" THEN "stop" ELSE "rejected"
      /\ rpc'.link = IF rpc.kind = "http" THEN "closed"
                     ELSE IF rpc.link = "open" THEN "closing" ELSE rpc.link
      /\ rpc'.call = rpc.call
  BY <1>1, <1>2, <1>3, <1>5
<1>7. ConnectInv'
  BY <1>2, <1>4, <1>6 DEF ConnectInv, Unasked
<1>8. ClientTypeOK'
  BY <1>6 DEF ClientTypeOK, ClientState
<1>9. Link!GiveUp \/ UNCHANGED Link!vars
  <2>1. CASE rpc.link = "open"
    <3>1. LinkSeen = "starting" /\ LinkSeen' \in {"stopping", "gone"}
      BY <1>2, <1>4, <1>6, <2>1 DEF LinkSeen
    <3>2. QED
      BY <1>4, <1>6, <3>1 DEF Link!GiveUp
  <2>2. CASE rpc.link = "closed"
    <3>1. LinkSeen = "gone" /\ LinkSeen' = "gone"
      BY <1>2, <1>4, <1>6, <2>2 DEF LinkSeen
    <3>2. QED
      BY <1>6, <3>1 DEF Link!vars
  <2>3. QED
    BY <1>4, <2>1, <2>2
<1>10. QED
  BY <1>7, <1>8, <1>9 DEF ClientKept, ClientInv, Link!Next

LEMMA StopGivesUpKept ==
    ASSUME ClientInv, StopGivesUp
    PROVE  ClientKept
<1> USE InitializeIsId
<1>1. /\ rpc' \in ClientState
      /\ rpc'.kind = rpc.kind /\ rpc'.at = "rejected" /\ rpc'.link = rpc.link
      /\ rpc'.call = rpc.call
  BY RpcIsState DEF StopGivesUp, ClientState
<1>2. rpc.at = "stop" /\ rpc.link = "closing" /\ ConnectInv
  BY DEF StopGivesUp, ClientInv, ConnectInv
<1>3. ConnectInv'
  BY <1>1, <1>2 DEF ConnectInv, Unasked
<1>4. ClientTypeOK'
  BY <1>1 DEF ClientTypeOK, ClientState
<1>5. LinkSeen = "stopping" /\ LinkSeen' = "stopping"
  BY <1>1, <1>2 DEF LinkSeen
<1>6. QED
  BY <1>1, <1>3, <1>4, <1>5 DEF ClientKept, ClientInv, Link!vars

LEMMA RequestKept ==
    ASSUME ClientInv, NEW id \in RpcIds \ {Initialize}, Request(id)
    PROVE  ClientKept
<1> USE InitializeIsId
<1> DEFINE told == IF rpc.usable THEN "waiting" ELSE "failed"
<1>1. /\ rpc' \in ClientState
      /\ rpc'.kind = rpc.kind /\ rpc'.at = rpc.at /\ rpc'.link = rpc.link
      /\ rpc'.connected = rpc.connected
      /\ rpc'.call = [rpc.call EXCEPT ![id] = told]
  BY RpcIsState DEF Request, ClientState
<1>2. rpc.at = "up" /\ rpc.call[id] = "none" /\ ConnectInv
  BY DEF Request, ClientInv
<1>3. rpc'.call[Initialize] = rpc.call[Initialize] /\ told \in {"waiting", "failed"}
  BY <1>1, RpcIsState
<1>4. ConnectInv'
  BY <1>1, <1>2, <1>3 DEF ConnectInv
<1>5. ClientTypeOK'
  BY <1>1 DEF ClientTypeOK, ClientState
<1>6. LinkSeen # "starting" /\ LinkSeen' = LinkSeen
  BY <1>1, <1>2, RpcIsState DEF LinkSeen
<1>7. Link!Call(id)
  BY <1>1, <1>2, <1>3, <1>6 DEF Link!Call
<1>8. QED
  BY <1>4, <1>5, <1>7 DEF ClientKept, ClientInv, Link!Next

LEMMA ResultArrivesKept ==
    ASSUME ClientInv, NEW id \in RpcIds \ {Initialize}, ResultArrives(id)
    PROVE  ClientKept
<1> USE InitializeIsId
<1>1. /\ rpc' \in ClientState
      /\ rpc'.kind = rpc.kind /\ rpc'.at = rpc.at /\ rpc'.link = rpc.link
      /\ rpc'.connected = rpc.connected
      /\ rpc'.call = [rpc.call EXCEPT ![id] = "answered"]
  BY RpcIsState DEF ResultArrives, ClientState
<1>2. /\ rpc.call[id] = "waiting" /\ rpc.link \in {"open", "closing"}
      /\ ConnectInv
  BY DEF ResultArrives, ClientInv
<1>3. rpc.at = "up"
  BY <1>2 DEF ConnectInv, Unasked
<1>4. rpc'.call[Initialize] = rpc.call[Initialize]
  BY <1>1, RpcIsState
<1>5. ConnectInv'
  BY <1>1, <1>2, <1>3, <1>4 DEF ConnectInv
<1>6. ClientTypeOK'
  BY <1>1 DEF ClientTypeOK, ClientState
<1>7. LinkSeen # "gone" /\ LinkSeen' = LinkSeen
  BY <1>1, <1>2, <1>3 DEF LinkSeen
<1>8. Link!Answer(id)
  BY <1>1, <1>2, <1>7 DEF Link!Answer
<1>9. QED
  BY <1>5, <1>6, <1>8 DEF ClientKept, ClientInv, Link!Next

LEMMA CallFailsKept ==
    ASSUME ClientInv, NEW id \in RpcIds \ {Initialize}, CallFails(id)
    PROVE  ClientKept
<1> USE InitializeIsId
<1>1. /\ rpc' \in ClientState
      /\ rpc'.kind = rpc.kind /\ rpc'.at = rpc.at /\ rpc'.link = rpc.link
      /\ rpc'.connected = rpc.connected
      /\ rpc'.call = [rpc.call EXCEPT ![id] = "failed"]
  BY RpcIsState DEF CallFails, ClientState
<1>2. rpc.call[id] = "waiting" /\ ConnectInv
  BY DEF CallFails, ClientInv
<1>3. rpc.at = "up"
  BY <1>2 DEF ConnectInv, Unasked
<1>4. rpc'.call[Initialize] = rpc.call[Initialize]
  BY <1>1, RpcIsState
<1>5. ConnectInv'
  BY <1>1, <1>2, <1>3, <1>4 DEF ConnectInv
<1>6. ClientTypeOK'
  BY <1>1 DEF ClientTypeOK, ClientState
<1>7. LinkSeen' = LinkSeen
  BY <1>1 DEF LinkSeen
<1>8. Link!Fail(id)
  BY <1>1, <1>2, <1>7 DEF Link!Fail
<1>9. QED
  BY <1>5, <1>6, <1>8 DEF ClientKept, ClientInv, Link!Next

LEMMA TransportEndsKept ==
    ASSUME ClientInv, TransportEnds
    PROVE  ClientKept
<1> USE InitializeIsId
<1> DEFINE q == [rpc EXCEPT !.cause = TRUE]
           ended == TransportClosed(q)
<1>1. /\ q \in ClientState
      /\ q.kind = rpc.kind /\ q.at = rpc.at /\ q.link = rpc.link /\ q.call = rpc.call
  BY RpcIsState DEF ClientState
<1>2. /\ rpc.kind # "http" /\ rpc.link \in {"open", "closing"} /\ ConnectInv
      /\ rpc' = IF rpc.at \in {"initialize", "stop"} THEN ConnectThrows(ended) ELSE ended
  BY DEF TransportEnds, ClientInv
<1> HIDE DEF q
<1>3. LET s == TransportClosed(q) IN
      /\ s \in ClientState
      /\ s.kind = q.kind /\ s.at = q.at /\ s.usable = q.usable /\ s.cause = q.cause
      /\ s.link = "closed" /\ s.connected = FALSE /\ s.call = Told(q)
  BY <1>1, ClosedFields
<1>4. Told(q) = Told(rpc)
  BY <1>1 DEF Told
<1>5. /\ ended \in ClientState
      /\ ended.kind = rpc.kind /\ ended.at = rpc.at /\ ended.link = "closed"
      /\ ended.connected = FALSE /\ ended.call = Told(rpc)
  BY <1>1, <1>3, <1>4
<1> HIDE DEF ended
<1>6. LET s == ConnectThrows(ended) IN
      /\ s \in ClientState
      /\ s.kind = ended.kind /\ s.cause = ended.cause /\ s.connected = FALSE
      /\ s.link = IF ended.kind = "http" THEN "closed"
                  ELSE IF ended.link = "open" THEN "closing" ELSE ended.link
      /\ s.call = IF ended.kind = "http" THEN Told(ended) ELSE ended.call
      /\ s.at = IF s.kind = "stdio" /\ s.link = "closing" THEN "stop" ELSE "rejected"
  BY <1>5, ThrowsFields
<1>7. /\ rpc' \in ClientState
      /\ rpc'.kind = rpc.kind /\ rpc'.link = "closed" /\ rpc'.connected = FALSE
      /\ rpc'.call = Told(rpc)
      /\ rpc'.at = IF rpc.at \in {"initialize", "stop"} THEN "rejected" ELSE rpc.at
  BY <1>2, <1>5, <1>6
<1>8. /\ \A id \in RpcIds : rpc'.call[id] # "waiting"
      /\ \A id \in RpcIds : rpc.call[id] # "waiting" => rpc'.call[id] = rpc.call[id]
  BY <1>7 DEF Told
<1>9. Unasked(rpc) => Unasked(rpc')
  BY <1>8 DEF Unasked
<1>10. ConnectInv'
  BY <1>2, <1>7, <1>8, <1>9, RpcIsState DEF ConnectInv
<1>11. ClientTypeOK'
  BY <1>7 DEF ClientTypeOK, ClientState
<1>12. LinkSeen # "gone" /\ LinkSeen' = "gone"
  BY <1>2, <1>7 DEF LinkSeen, ConnectInv
<1>13. Link!AllTold = Told(rpc)
  BY DEF Link!AllTold, Told
<1>14. Link!End
  BY <1>7, <1>12, <1>13 DEF Link!End
<1>15. QED
  BY <1>10, <1>11, <1>14 DEF ClientKept, ClientInv, Link!Next

LEMMA DisconnectKept ==
    ASSUME ClientInv, Disconnect
    PROVE  ClientKept
<1> USE InitializeIsId
<1> DEFINE q == [rpc EXCEPT !.connected = FALSE]
<1>1. /\ q \in ClientState
      /\ q.kind = rpc.kind /\ q.at = rpc.at /\ q.link = rpc.link /\ q.call = rpc.call
      /\ q.connected = FALSE
  BY RpcIsState DEF ClientState
<1>2. /\ rpc.at = "up" /\ rpc.connected /\ ConnectInv
      /\ rpc' = TransportStopped(q)
  BY DEF Disconnect, ClientInv
<1> HIDE DEF q
<1>3. LET s == TransportStopped(q) IN
      /\ s \in ClientState
      /\ s.kind = q.kind /\ s.at = q.at /\ s.cause = q.cause
      /\ s.connected = (q.connected /\ q.kind # "http")
      /\ s.link = IF q.kind = "http" THEN "closed"
                  ELSE IF q.link = "open" THEN "closing" ELSE q.link
      /\ s.call = IF q.kind = "http" THEN Told(q) ELSE q.call
  BY <1>1, StoppedFields
<1>4. Told(q) = Told(rpc)
  BY <1>1 DEF Told
<1>5. rpc.link = "open" /\ rpc.call[Initialize] = "answered"
  BY <1>2 DEF ConnectInv
<1>6. /\ rpc' \in ClientState
      /\ rpc'.kind = rpc.kind /\ rpc'.at = "up" /\ rpc'.connected = FALSE
      /\ rpc'.link = IF rpc.kind = "http" THEN "closed" ELSE "closing"
      /\ rpc'.call = IF rpc.kind = "http" THEN Told(rpc) ELSE rpc.call
  BY <1>1, <1>2, <1>3, <1>4, <1>5
<1>7. rpc'.call[Initialize] = "answered"
  BY <1>5, <1>6 DEF Told
<1>8. ConnectInv'
  BY <1>2, <1>6, <1>7 DEF ConnectInv
<1>9. ClientTypeOK'
  BY <1>6 DEF ClientTypeOK, ClientState
<1>10. /\ LinkSeen = "up"
       /\ LinkSeen' = IF rpc.kind = "http" THEN "gone" ELSE "stopping"
  BY <1>2, <1>5, <1>6 DEF LinkSeen
<1>11. Link!AllTold = Told(rpc)
  BY DEF Link!AllTold, Told
<1>12. Link!Stop
  BY <1>6, <1>10, <1>11 DEF Link!Stop, Link!Goes
<1>13. QED
  BY <1>8, <1>9, <1>12 DEF ClientKept, ClientInv, Link!Next

LEMMA ClientStepKept ==
    ClientInv /\ [ClientStep]_rpc => ClientKept
<1> SUFFICES ASSUME ClientInv, [ClientStep]_rpc
             PROVE  ClientKept
  OBVIOUS
<1>1. CASE ConnectBegins
  BY <1>1, ConnectBeginsKept
<1>2. CASE StreamRefused
  BY <1>2, StreamRefusedKept
<1>3. CASE StreamStarts
  BY <1>3, StreamStartsKept
<1>4. CASE InitializeAccepted
  BY <1>4, InitializeAcceptedKept
<1>5. CASE InitializeRejected
  BY <1>5, InitializeRejectedKept
<1>6. CASE Notified
  BY <1>6, NotifiedKept
<1>7. CASE NotifyFails
  BY <1>7, NotifyFailsKept
<1>8. CASE StopGivesUp
  BY <1>8, StopGivesUpKept
<1>9. CASE \E id \in RpcIds \ {Initialize} : Request(id) \/ ResultArrives(id) \/ CallFails(id)
  BY <1>9, RequestKept, ResultArrivesKept, CallFailsKept
<1>10. CASE TransportEnds
  BY <1>10, TransportEndsKept
<1>11. CASE Disconnect
  BY <1>11, DisconnectKept
<1>12. CASE UNCHANGED rpc
  BY <1>12 DEF ClientKept, ClientInv, ClientTypeOK, ConnectInv, Unasked, Link!vars, LinkSeen
<1>13. QED
  BY <1>1, <1>2, <1>3, <1>4, <1>5, <1>6, <1>7, <1>8, <1>9, <1>10, <1>11, <1>12 DEF ClientStep

(* The client is what the manager takes it for, whichever answers, timers, *)
(* failing sends, ends of the transport and disconnects compete: whoever   *)
(* waits is told when the link goes, and a connect() that has failed       *)
(* leaves nothing running (client.ts:94).                                  *)
THEOREM ClientImplementsServerLink == ClientSpec => ImplementsServerLink
<1>1. ClientInit => ClientInv /\ Link!Init
  BY InitEstablishesClient
<1>2. ClientInv /\ [ClientStep]_rpc => ClientInv'
  BY ClientStepKept DEF ClientKept
<1>3. ClientInv /\ [ClientStep]_rpc => [Link!Next]_(Link!vars)
  BY ClientStepKept DEF ClientKept
<1>4. QED
  BY <1>1, <1>2, <1>3, PTL DEF ClientSpec, ImplementsServerLink, Link!Spec

-----------------------------------------------------------------------------
(* The streams of the providers                                            *)

Silent(type) == \A k \in DOMAIN chat.told : chat.told[k].type # type

(* No call is left that was begun and is not whole.                        *)
NothingCut == \A c \in Calls : chat.sent[c] # "part"

(* Until the generator yields its last words no error is told, a call that *)
(* is told has left the entries, and is whole if the server sent it so.    *)
OpenInv ==
    chat.pc \in {"request", "sleep", "open"} =>
        /\ Silent("error")
        /\ \A i, j \in DOMAIN chat.pending : chat.pending[i] = chat.pending[j] => i = j
        /\ \A i \in DOMAIN chat.pending : chat.sent[chat.pending[i]] # "none"
        /\ \A k \in DOMAIN chat.told : chat.told[k].type = "tool_call" =>
              /\ chat.sent[chat.told[k].id] # "none"
              /\ chat.told[k].whole = (chat.sent[chat.told[k].id] = "whole")
              /\ \A i \in DOMAIN chat.pending : chat.pending[i] # chat.told[k].id
        /\ chat.provider \in {"google", "ollama"} => NothingCut
        /\ chat.reason = "calls" => NothingCut
        /\ chat.reason \in {"none"} \cup ReasonsOf(chat.provider)

(* What remains to be yielded: an error and the done that owns up to it,   *)
ErrorLeft ==
    \/ /\ Len(chat.outbox) = 2 /\ chat.outbox[1] = Error /\ Silent("error")
       /\ chat.outbox[2] \in {Done("error"), Done("content_filter")}
    \/ /\ Len(chat.outbox) = 1 /\ ~Silent("error")
       /\ chat.outbox[1] \in {Done("error"), Done("content_filter")}

(* or calls nobody was told of, and the done.                              *)
CallsLeft ==
    LET n == Len(chat.outbox) IN
    /\ n > 0 /\ Silent("error")
    /\ \A i \in 1 .. (n - 1) : \E c \in Calls, whole \in BOOLEAN : chat.outbox[i] = Call(c, whole)
    /\ \A i, j \in 1 .. (n - 1) : chat.outbox[i].id = chat.outbox[j].id => i = j
    /\ \A i \in 1 .. (n - 1) : \A k \in DOMAIN chat.told :
          chat.told[k].type = "tool_call" => chat.told[k].id # chat.outbox[i].id
    /\ chat.outbox[n] \in {Done("end_turn"), Done("max_tokens"), Done("tool_use"), Done("content_filter")}
    /\ chat.provider # "responses" /\ chat.outbox[n] = Done("tool_use") =>
          /\ \A i \in 1 .. (n - 1) : chat.outbox[i].whole
          /\ \A k \in DOMAIN chat.told : chat.told[k].type = "tool_call" => chat.told[k].whole

LastWordsInv == chat.pc = "yield" => ErrorLeft \/ CallsLeft

NotOverInv == chat.pc # "over" => ~chat.thrown /\ Silent("done")

RetryInv == chat.pc = "sleep" => chat.attempt < MaxRequests

StreamInv == StreamTypeOK /\ RetryInv /\ NotOverInv /\ OpenInv /\ LastWordsInv

StreamState ==
    [provider : Providers, pc : {"request", "sleep", "open", "yield", "over"},
     attempt : 1 .. MaxRequests, texts : 0 .. MaxTexts,
     sent : [Calls -> {"none", "part", "whole"}], pending : Seq(Calls),
     reason : Reasons, outbox : Seq(StreamEvents), told : Seq(StreamEvents),
     thrown : BOOLEAN]

(* A step of the stream, and what the loop hears of it.                    *)
StreamKept == StreamInv' /\ (Heard!Next \/ UNCHANGED Heard!vars)

LEMMA EventKinds ==
    /\ Text \in StreamEvents /\ Text.type = "text_delta"
    /\ Error \in StreamEvents /\ Error.type = "error"
    /\ \A c \in Calls, whole \in BOOLEAN :
          /\ Call(c, whole) \in StreamEvents /\ Call(c, whole).type = "tool_call"
          /\ Call(c, whole).id = c /\ Call(c, whole).whole = whole
    /\ \A stop \in StopReasons :
          /\ Done(stop) \in StreamEvents /\ Done(stop).type = "done" /\ Done(stop).stop = stop
    /\ \A e \in StreamEvents : e.type = "tool_call" => e.id \in Calls /\ e.whole \in BOOLEAN
<1>1. \A c \in Calls, whole \in BOOLEAN :
          /\ Call(c, whole).type = "tool_call"
          /\ Call(c, whole).id = c /\ Call(c, whole).whole = whole
  BY DEF Call
<1>2. \A stop \in StopReasons : Done(stop).type = "done" /\ Done(stop).stop = stop
  BY DEF Done
<1>3. Text.type = "text_delta" /\ Error.type = "error"
  BY DEF Text, Error
<1>4. Text \in StreamEvents /\ Error \in StreamEvents
  BY DEF StreamEvents
<1>5. \A c \in Calls, whole \in BOOLEAN : Call(c, whole) \in StreamEvents
  BY DEF StreamEvents
<1>6. \A stop \in StopReasons : Done(stop) \in StreamEvents
  BY DEF StreamEvents
<1>7. \A e \in StreamEvents : e.type = "tool_call" => e.id \in Calls /\ e.whole \in BOOLEAN
  BY <1>1, <1>2, <1>3 DEF StreamEvents
<1>8. QED
  BY <1>1, <1>2, <1>3, <1>4, <1>5, <1>6, <1>7

LEMMA AppendFacts ==
    ASSUME NEW S, NEW s \in Seq(S), NEW e \in S
    PROVE  /\ Append(s, e) \in Seq(S)
           /\ Len(s) \in Nat
           /\ DOMAIN s = 1 .. Len(s)
           /\ DOMAIN Append(s, e) = DOMAIN s \cup {Len(s) + 1}
           /\ \A k \in DOMAIN s : Append(s, e)[k] = s[k]
           /\ Append(s, e)[Len(s) + 1] = e
OBVIOUS

LEMMA ChatIsState ==
    ASSUME StreamInv
    PROVE  /\ chat \in StreamState
           /\ chat.provider \in Providers
           /\ chat.pc \in {"request", "sleep", "open", "yield", "over"}
           /\ chat.attempt \in 1 .. MaxRequests
           /\ chat.texts \in 0 .. MaxTexts
           /\ chat.sent \in [Calls -> {"none", "part", "whole"}]
           /\ chat.pending \in Seq(Calls)
           /\ chat.reason \in Reasons
           /\ chat.outbox \in Seq(StreamEvents)
           /\ chat.told \in Seq(StreamEvents)
           /\ chat.thrown \in BOOLEAN
           /\ \A k \in DOMAIN chat.told : chat.told[k] \in StreamEvents
           /\ \A i \in DOMAIN chat.pending : chat.pending[i] \in Calls
BY DEF StreamInv, StreamTypeOK, StreamState

LEMMA ToldEvents ==
    /\ \A type : Silent(type) <=> Heard!Told(type) = {}
    /\ \A type : \A e \in Heard!Told(type) : \E k \in DOMAIN chat.told :
          e = chat.told[k] /\ chat.told[k].type = type
BY DEF Silent, Heard!Told

(* An event is told.                                                       *)
LEMMA Tells ==
    ASSUME StreamInv, NEW e, chat.pc # "over",
           chat'.told = Append(chat.told, e),
           chat'.thrown = chat.thrown, chat'.provider = chat.provider
    PROVE  Heard!Tell(e)
BY ToldEvents DEF StreamInv, NotOverInv, Heard!Tell

(* A step that tells nothing is none for the loop.                         *)
LEMMA Stutters ==
    ASSUME chat'.told = chat.told, chat'.thrown = chat.thrown, chat'.provider = chat.provider
    PROVE  UNCHANGED Heard!vars
BY DEF Heard!vars

LEMMA TypeFromState ==
    ASSUME chat' \in StreamState
    PROVE  StreamTypeOK'
BY DEF StreamState, StreamTypeOK

(* The request: nothing changes that the loop could tell.                  *)
LEMMA QuietKept ==
    ASSUME StreamInv, chat' \in StreamState,
           chat.pc \in {"request", "sleep", "open"}, chat'.pc \in {"request", "sleep", "open"},
           chat'.told = chat.told, chat'.thrown = chat.thrown, chat'.provider = chat.provider,
           chat'.pending = chat.pending, chat'.sent = chat.sent, chat'.reason = chat.reason,
           RetryInv'
    PROVE  StreamKept
<1>1. OpenInv'
  BY DEF StreamInv, OpenInv, Silent, NothingCut
<1>2. NotOverInv' /\ LastWordsInv'
  BY DEF StreamInv, NotOverInv, LastWordsInv, Silent
<1>3. QED
  BY <1>1, <1>2, TypeFromState, Stutters DEF StreamKept, StreamInv

LEMMA RequestStepKept ==
    ASSUME StreamInv, AnswerOk \/ AnswerBusy \/ Resend
    PROVE  StreamKept
<1>1. CASE AnswerOk
  <2>1. /\ chat' \in StreamState /\ chat.pc = "request" /\ chat'.pc = "open"
        /\ chat'.told = chat.told /\ chat'.thrown = chat.thrown /\ chat'.provider = chat.provider
        /\ chat'.pending = chat.pending /\ chat'.sent = chat.sent /\ chat'.reason = chat.reason
        /\ RetryInv'
    BY <1>1, ChatIsState DEF AnswerOk, StreamState, RetryInv
  <2>2. QED
    BY <2>1, QuietKept
<1>2. CASE AnswerBusy
  <2>1. /\ chat' \in StreamState /\ chat.pc = "request" /\ chat'.pc = "sleep"
        /\ chat'.told = chat.told /\ chat'.thrown = chat.thrown /\ chat'.provider = chat.provider
        /\ chat'.pending = chat.pending /\ chat'.sent = chat.sent /\ chat'.reason = chat.reason
        /\ RetryInv'
    BY <1>2, ChatIsState DEF AnswerBusy, StreamState, RetryInv
  <2>2. QED
    BY <2>1, QuietKept
<1>3. CASE Resend
  <2>1. chat.attempt + 1 \in 1 .. MaxRequests
    BY <1>3, ChatIsState, StreamAssumption DEF Resend, RetryInv, StreamInv
  <2>2. /\ chat' \in StreamState /\ chat.pc = "sleep" /\ chat'.pc = "request"
        /\ chat'.told = chat.told /\ chat'.thrown = chat.thrown /\ chat'.provider = chat.provider
        /\ chat'.pending = chat.pending /\ chat'.sent = chat.sent /\ chat'.reason = chat.reason
        /\ RetryInv'
    BY <1>3, <2>1, ChatIsState DEF Resend, StreamState, RetryInv
  <2>3. QED
    BY <2>2, QuietKept
<1>4. QED
  BY <1>1, <1>2, <1>3

LEMMA BreaksKept ==
    ASSUME StreamInv, Breaks
    PROVE  StreamKept
<1>1. /\ chat' \in StreamState /\ chat.pc \in {"request", "sleep", "open"}
      /\ chat'.pc = "over" /\ chat'.thrown = TRUE
      /\ chat'.told = chat.told /\ chat'.provider = chat.provider
  BY ChatIsState DEF Breaks, StreamState
<1>2. StreamInv'
  BY <1>1, TypeFromState DEF StreamInv, RetryInv, NotOverInv, OpenInv, LastWordsInv
<1>3. Heard!Throw
  BY <1>1, ToldEvents DEF StreamInv, NotOverInv, Heard!Throw
<1>4. QED
  BY <1>2, <1>3 DEF StreamKept, Heard!Next

(* Last words that begin with an error.                                    *)
LEMMA ErrorYieldKept ==
    ASSUME StreamInv, chat.pc \in {"request", "open"}, NEW stop \in {"error", "content_filter"},
           chat' = Yielding(<<Error, Done(stop)>>)
    PROVE  StreamKept
<1> DEFINE words == <<Error, Done(stop)>>
<1>1. /\ words \in Seq(StreamEvents) /\ Len(words) = 2 /\ words[1] = Error /\ words[2] = Done(stop)
  BY EventKinds DEF StopReasons
<1> HIDE DEF words
<1>2. /\ chat' \in StreamState /\ chat'.pc = "yield" /\ chat'.outbox = words
      /\ chat'.told = chat.told /\ chat'.thrown = chat.thrown /\ chat'.provider = chat.provider
  BY <1>1, ChatIsState DEF Yielding, StreamState, words
<1>3. Silent("error")' /\ NotOverInv'
  BY <1>2 DEF StreamInv, NotOverInv, OpenInv, Silent
<1>4. ErrorLeft'
  BY <1>1, <1>2, <1>3 DEF ErrorLeft
<1>5. OpenInv' /\ LastWordsInv'
  BY <1>2, <1>4 DEF OpenInv, LastWordsInv
<1>6. RetryInv'
  BY <1>2 DEF RetryInv
<1>7. QED
  BY <1>2, <1>3, <1>5, <1>6, TypeFromState, Stutters DEF StreamKept, StreamInv

LEMMA TextPieceKept ==
    ASSUME StreamInv, TextPiece
    PROVE  StreamKept
<1> DEFINE told == Append(chat.told, Text)
           texts == chat.texts + 1
<1>1. told \in Seq(StreamEvents)
  BY ChatIsState, EventKinds
<1>2. texts \in 0 .. MaxTexts
  BY ChatIsState, StreamAssumption DEF TextPiece
<1>3. chat.pc = "open" /\ chat' = [chat EXCEPT !.texts = texts, !.told = told]
  BY DEF TextPiece, Receiving
<1> HIDE DEF told, texts
<1>4. /\ chat.pc = "open" /\ chat' \in StreamState
      /\ chat'.pc = "open" /\ chat'.told = told
      /\ chat'.thrown = chat.thrown /\ chat'.provider = chat.provider
      /\ chat'.pending = chat.pending /\ chat'.sent = chat.sent /\ chat'.reason = chat.reason
  BY <1>1, <1>2, <1>3, ChatIsState DEF StreamState
<1>5. chat'.told = Append(chat.told, Text)
  BY <1>4 DEF told
<1>6. /\ DOMAIN chat'.told = DOMAIN chat.told \cup {Len(chat.told) + 1}
      /\ \A k \in DOMAIN chat.told : chat'.told[k] = chat.told[k]
      /\ chat'.told[Len(chat.told) + 1] = Text
  BY <1>5, ChatIsState, EventKinds, AppendFacts
<1>7. \A type : type # "text_delta" /\ Silent(type) => Silent(type)'
  BY <1>6, EventKinds DEF Silent
<1>8. NotOverInv'
  BY <1>4, <1>7 DEF StreamInv, NotOverInv
<1>9. OpenInv'
  <2>1. \A k \in DOMAIN chat'.told : chat'.told[k].type = "tool_call" =>
           k \in DOMAIN chat.told /\ chat'.told[k] = chat.told[k]
    BY <1>6, EventKinds
  <2>2. QED
    BY <1>4, <1>7, <2>1 DEF StreamInv, OpenInv, NothingCut
<1>10. LastWordsInv' /\ RetryInv'
  BY <1>4 DEF LastWordsInv, RetryInv
<1>11. Silent("error")
  BY <1>4 DEF StreamInv, OpenInv
<1>12. Heard!TellText
  BY <1>5, <1>4, <1>11, Tells, ToldEvents DEF Heard!TellText, Text
<1>13. QED
  BY <1>4, <1>8, <1>9, <1>10, <1>12, TypeFromState DEF StreamKept, StreamInv, Heard!Next

(* A call that is told: how the events and the entries change.             *)
LEMMA CallToldKept ==
    ASSUME StreamInv, NEW c \in Calls, NEW whole \in BOOLEAN,
           chat.pc = "open", chat' \in StreamState,
           chat'.pc = "open", chat'.told = Append(chat.told, Call(c, whole)),
           chat'.thrown = chat.thrown, chat'.provider = chat.provider,
           chat'.reason = chat.reason,
           \A d \in Calls \ {c} : chat'.sent[d] = chat.sent[d],
           chat'.sent[c] # "none", whole = (chat'.sent[c] = "whole"),
           NothingCut => NothingCut',
           \A k \in DOMAIN chat.told :
              chat.told[k].type = "tool_call" => chat.told[k].id # c,
           \A i \in DOMAIN chat'.pending : chat'.pending[i] # c,
           \A i, j \in DOMAIN chat'.pending : chat'.pending[i] = chat'.pending[j] => i = j,
           \A i \in DOMAIN chat'.pending : \E j \in DOMAIN chat.pending :
              chat'.pending[i] = chat.pending[j]
    PROVE  StreamKept
<1> DEFINE e == Call(c, whole)
<1>1. /\ e \in StreamEvents /\ e.type = "tool_call" /\ e.id = c /\ e.whole = whole
  BY EventKinds
<1>2. e = [type |-> "tool_call", id |-> c, whole |-> whole]
  BY DEF Call
<1> HIDE DEF e
<1>3. chat'.told = Append(chat.told, e)
  BY DEF e
<1>4. /\ DOMAIN chat'.told = DOMAIN chat.told \cup {Len(chat.told) + 1}
      /\ \A k \in DOMAIN chat.told : chat'.told[k] = chat.told[k]
      /\ chat'.told[Len(chat.told) + 1] = e
  BY <1>1, <1>3, ChatIsState, AppendFacts
<1>5. \A type : type # "tool_call" /\ Silent(type) => Silent(type)'
  BY <1>1, <1>4 DEF Silent
<1>6. NotOverInv'
  BY <1>5 DEF StreamInv, NotOverInv
<1>7. OpenInv
  BY DEF StreamInv
<1>8. OpenInv'
  <2>1. \A i \in DOMAIN chat'.pending : chat'.sent[chat'.pending[i]] # "none"
    BY <1>7, ChatIsState DEF OpenInv
  <2>2. \A k \in DOMAIN chat.told : chat.told[k].type = "tool_call" =>
           /\ chat'.sent[chat.told[k].id] # "none"
           /\ chat.told[k].whole = (chat'.sent[chat.told[k].id] = "whole")
           /\ \A i \in DOMAIN chat'.pending : chat'.pending[i] # chat.told[k].id
    <3>1. TAKE k \in DOMAIN chat.told
    <3>2. HAVE chat.told[k].type = "tool_call"
    <3>3. chat.told[k].id \in Calls \ {c}
      BY <3>2, ChatIsState, EventKinds
    <3>4. QED
      BY <1>7, <3>2, <3>3 DEF OpenInv
  <2>3. \A k \in DOMAIN chat'.told : chat'.told[k].type = "tool_call" =>
           /\ chat'.sent[chat'.told[k].id] # "none"
           /\ chat'.told[k].whole = (chat'.sent[chat'.told[k].id] = "whole")
           /\ \A i \in DOMAIN chat'.pending : chat'.pending[i] # chat'.told[k].id
    BY <1>1, <1>4, <2>2
  <2>4. Silent("error")'
    BY <1>5, <1>7 DEF OpenInv
  <2>5. QED
    BY <1>7, <2>1, <2>3, <2>4 DEF OpenInv
<1>9. LastWordsInv' /\ RetryInv'
  BY DEF LastWordsInv, RetryInv
<1>10. Silent("error")
  BY <1>7 DEF OpenInv
<1>11. \A d \in Heard!Told("tool_call") : d.id # c
  BY ToldEvents
<1>12. Heard!Tell(e)
  BY <1>3, Tells
<1>13. Heard!TellCall(c, whole)
  BY <1>2, <1>10, <1>11, <1>12, ToldEvents DEF Heard!TellCall
<1>14. QED
  BY <1>6, <1>8, <1>9, <1>13, TypeFromState DEF StreamKept, StreamInv, Heard!Next

LEMMA WholeCallKept ==
    ASSUME StreamInv, NEW c \in Calls, WholeCall(c)
    PROVE  StreamKept
<1> DEFINE told == Append(chat.told, Call(c, TRUE))
           sent == [chat.sent EXCEPT ![c] = "whole"]
<1>1. told \in Seq(StreamEvents) /\ sent \in [Calls -> {"none", "part", "whole"}]
  <2>1. Call(c, TRUE) \in StreamEvents
    BY EventKinds
  <2>2. sent \in [Calls -> {"none", "part", "whole"}]
    BY ChatIsState
  <2>3. QED
    BY <2>1, <2>2, ChatIsState, AppendFacts
<1>2. /\ chat.pc = "open" /\ chat.sent[c] = "none"
      /\ chat' = [chat EXCEPT !.sent = sent, !.told = told]
  BY DEF WholeCall, Receiving
<1> HIDE DEF told, sent
<1>3. /\ chat' \in StreamState /\ chat'.pc = "open" /\ chat'.told = told
      /\ chat'.thrown = chat.thrown /\ chat'.provider = chat.provider
      /\ chat'.pending = chat.pending /\ chat'.reason = chat.reason
      /\ chat'.sent = sent
  BY <1>1, <1>2, ChatIsState DEF StreamState
<1>4. /\ chat.pc = "open" /\ chat' \in StreamState
      /\ chat'.pc = "open" /\ chat'.told = Append(chat.told, Call(c, TRUE))
      /\ chat'.thrown = chat.thrown /\ chat'.provider = chat.provider
      /\ chat'.pending = chat.pending /\ chat'.reason = chat.reason
      /\ chat'.sent = [chat.sent EXCEPT ![c] = "whole"] /\ chat.sent[c] = "none"
  BY <1>2, <1>3 DEF told, sent
<1>5. /\ \A d \in Calls \ {c} : chat'.sent[d] = chat.sent[d]
      /\ chat'.sent[c] = "whole"
  BY <1>4, ChatIsState
<1>6. NothingCut => NothingCut'
  BY <1>5 DEF NothingCut
<1>7. OpenInv
  BY DEF StreamInv
<1>8. \A k \in DOMAIN chat.told : chat.told[k].type = "tool_call" => chat.told[k].id # c
  BY <1>4, <1>7 DEF OpenInv
<1>9. /\ \A i \in DOMAIN chat'.pending : chat'.pending[i] # c
      /\ \A i, j \in DOMAIN chat'.pending : chat'.pending[i] = chat'.pending[j] => i = j
      /\ \A i \in DOMAIN chat'.pending : \E j \in DOMAIN chat.pending :
            chat'.pending[i] = chat.pending[j]
  BY <1>4, <1>7 DEF OpenInv
<1>10. QED
  BY <1>4, <1>5, <1>6, <1>8, <1>9, CallToldKept

LEMMA CallBeginsKept ==
    ASSUME StreamInv, NEW c \in Calls, CallBegins(c)
    PROVE  StreamKept
<1> DEFINE pending == Append(chat.pending, c)
           sent == [chat.sent EXCEPT ![c] = "part"]
<1>1. pending \in Seq(Calls) /\ sent \in [Calls -> {"none", "part", "whole"}]
  BY ChatIsState
<1>2. /\ chat.pc = "open" /\ chat.reason = "none" /\ chat.sent[c] = "none"
      /\ chat.provider \notin {"google", "ollama"}
      /\ chat' = [chat EXCEPT !.sent = sent, !.pending = pending]
  BY DEF CallBegins, Receiving, Assembles
<1> HIDE DEF pending, sent
<1>3. /\ chat' \in StreamState /\ chat'.pc = "open" /\ chat'.told = chat.told
      /\ chat'.thrown = chat.thrown /\ chat'.provider = chat.provider
      /\ chat'.pending = pending /\ chat'.reason = chat.reason
      /\ chat'.sent = sent
  BY <1>1, <1>2, ChatIsState DEF StreamState
<1>4. /\ chat.pc = "open" /\ chat.reason = "none" /\ chat' \in StreamState
      /\ chat.provider \notin {"google", "ollama"}
      /\ chat'.pc = "open" /\ chat'.told = chat.told
      /\ chat'.thrown = chat.thrown /\ chat'.provider = chat.provider
      /\ chat'.pending = Append(chat.pending, c) /\ chat'.reason = chat.reason
      /\ chat'.sent = [chat.sent EXCEPT ![c] = "part"] /\ chat.sent[c] = "none"
  BY <1>2, <1>3 DEF pending, sent
<1>5. /\ \A d \in Calls \ {c} : chat'.sent[d] = chat.sent[d]
      /\ chat'.sent[c] = "part"
  BY <1>4, ChatIsState
<1>6. /\ DOMAIN chat'.pending = DOMAIN chat.pending \cup {Len(chat.pending) + 1}
      /\ \A i \in DOMAIN chat.pending : chat'.pending[i] = chat.pending[i]
      /\ chat'.pending[Len(chat.pending) + 1] = c
  BY <1>4, ChatIsState, AppendFacts
<1>7. OpenInv
  BY DEF StreamInv
<1>8. \A i \in DOMAIN chat.pending : chat.pending[i] \in Calls \ {c}
  BY <1>4, <1>7, ChatIsState DEF OpenInv
<1>9. \A k \in DOMAIN chat.told :
         chat.told[k].type = "tool_call" => chat.told[k].id \in Calls \ {c}
  BY <1>4, <1>7, ChatIsState, EventKinds DEF OpenInv
<1>10. Silent("error")' /\ NotOverInv'
  BY <1>4, <1>7 DEF StreamInv, NotOverInv, OpenInv, Silent
<1>11. /\ \A i, j \in DOMAIN chat'.pending : chat'.pending[i] = chat'.pending[j] => i = j
       /\ \A i \in DOMAIN chat'.pending : chat'.sent[chat'.pending[i]] # "none"
  BY <1>4, <1>5, <1>6, <1>7, <1>8 DEF OpenInv
<1>12. \A k \in DOMAIN chat'.told : chat'.told[k].type = "tool_call" =>
          /\ chat'.sent[chat'.told[k].id] # "none"
          /\ chat'.told[k].whole = (chat'.sent[chat'.told[k].id] = "whole")
          /\ \A i \in DOMAIN chat'.pending : chat'.pending[i] # chat'.told[k].id
  BY <1>4, <1>5, <1>6, <1>7, <1>9 DEF OpenInv
<1>13. OpenInv'
  BY <1>4, <1>10, <1>11, <1>12 DEF OpenInv
<1>14. LastWordsInv' /\ RetryInv'
  BY <1>4 DEF LastWordsInv, RetryInv
<1>15. QED
  BY <1>4, <1>10, <1>13, <1>14, TypeFromState, Stutters DEF StreamKept, StreamInv

LEMMA CallCompletesKept ==
    ASSUME StreamInv, NEW c \in Calls, CallCompletes(c)
    PROVE  StreamKept
<1>1. /\ chat.pc = "open" /\ chat.reason = "none" /\ chat' \in StreamState
      /\ chat'.pc = "open" /\ chat'.told = chat.told
      /\ chat'.thrown = chat.thrown /\ chat'.provider = chat.provider
      /\ chat'.pending = chat.pending /\ chat'.reason = chat.reason
      /\ chat'.sent = [chat.sent EXCEPT ![c] = "whole"]
      /\ \E i \in DOMAIN chat.pending : chat.pending[i] = c
  <2> DEFINE sent == [chat.sent EXCEPT ![c] = "whole"]
  <2>1. /\ chat.pc = "open" /\ chat.reason = "none"
        /\ \E i \in DOMAIN chat.pending : chat.pending[i] = c
    BY DEF CallCompletes, Receiving, ToSet
  <2>2. chat \in StreamState /\ sent \in [Calls -> {"none", "part", "whole"}]
    BY ChatIsState
  <2>3. chat' = [chat EXCEPT !.sent = sent]
    BY DEF CallCompletes
  <2> HIDE DEF sent
  <2>4. /\ chat' \in StreamState /\ chat'.sent = sent
        /\ chat'.pc = chat.pc /\ chat'.told = chat.told
        /\ chat'.thrown = chat.thrown /\ chat'.provider = chat.provider
        /\ chat'.pending = chat.pending /\ chat'.reason = chat.reason
    BY <2>2, <2>3 DEF StreamState
  <2> QED BY <2>1, <2>4 DEF sent
<1>2. /\ \A d \in Calls \ {c} : chat'.sent[d] = chat.sent[d]
      /\ chat'.sent[c] = "whole"
  BY <1>1, ChatIsState
<1>3. OpenInv
  BY DEF StreamInv
<1>4. \A k \in DOMAIN chat.told :
         chat.told[k].type = "tool_call" => chat.told[k].id \in Calls \ {c}
  <2> SUFFICES ASSUME NEW k \in DOMAIN chat.told, chat.told[k].type = "tool_call"
               PROVE  chat.told[k].id \in Calls /\ chat.told[k].id # c
    OBVIOUS
  <2>1. chat.told[k] \in StreamEvents
    BY ChatIsState
  <2>2. chat.told[k].id \in Calls
    BY <2>1, EventKinds
  <2>3. \A i \in DOMAIN chat.pending : chat.pending[i] # chat.told[k].id
    BY <1>1, <1>3 DEF OpenInv
  <2> QED BY <1>1, <2>2, <2>3
<1>5. Silent("error")' /\ NotOverInv'
  BY <1>1, <1>3 DEF StreamInv, NotOverInv, OpenInv, Silent
<1>6. NothingCut => NothingCut'
  BY <1>2 DEF NothingCut
<1>7. OpenInv'
  <2>1. /\ \A i, j \in DOMAIN chat.pending : chat.pending[i] = chat.pending[j] => i = j
        /\ \A i \in DOMAIN chat.pending : chat.sent[chat.pending[i]] # "none"
        /\ \A k \in DOMAIN chat.told : chat.told[k].type = "tool_call" =>
              /\ chat.sent[chat.told[k].id] # "none"
              /\ chat.told[k].whole = (chat.sent[chat.told[k].id] = "whole")
              /\ \A i \in DOMAIN chat.pending : chat.pending[i] # chat.told[k].id
        /\ chat.provider \in {"google", "ollama"} => NothingCut
        /\ chat.reason \in {"none"} \cup ReasonsOf(chat.provider)
    BY <1>1, <1>3 DEF OpenInv
  <2>2. \A i \in DOMAIN chat.pending : chat.pending[i] \in Calls
    BY ChatIsState
  <2>3. \A i \in DOMAIN chat.pending : chat'.sent[chat.pending[i]] # "none"
    BY <1>2, <2>1, <2>2
  <2>4. ASSUME NEW k \in DOMAIN chat.told, chat.told[k].type = "tool_call"
        PROVE  /\ chat'.sent[chat.told[k].id] # "none"
               /\ chat.told[k].whole = (chat'.sent[chat.told[k].id] = "whole")
               /\ \A i \in DOMAIN chat.pending : chat.pending[i] # chat.told[k].id
    <3>1. chat'.sent[chat.told[k].id] = chat.sent[chat.told[k].id]
      BY <1>2, <1>4, <2>4
    <3> QED BY <2>1, <2>4, <3>1
  <2>5. chat'.reason # "calls"
    BY <1>1
  <2>6. Silent("error")' /\ (chat'.provider \in {"google", "ollama"} => NothingCut')
    BY <1>1, <1>5, <1>6, <2>1
  <2> QED BY <1>1, <2>1, <2>3, <2>4, <2>5, <2>6 DEF OpenInv
<1>8. LastWordsInv' /\ RetryInv'
  <2>1. chat'.pc = "open"
    BY <1>1
  <2> QED BY <2>1 DEF LastWordsInv, RetryInv
<1>9. QED
  BY <1>1, <1>5, <1>7, <1>8, TypeFromState, Stutters DEF StreamKept, StreamInv

LEMMA RemoveAtFacts ==
    ASSUME NEW S, NEW s \in Seq(S), NEW i \in DOMAIN s
    PROVE  /\ RemoveAt(s, i) \in Seq(S)
           /\ DOMAIN RemoveAt(s, i) = 1 .. (Len(s) - 1)
           /\ DOMAIN s = 1 .. Len(s) /\ Len(s) \in Nat
           /\ \A j \in 1 .. (Len(s) - 1) :
                 RemoveAt(s, i)[j] = IF j < i THEN s[j] ELSE s[j + 1]
<1> DEFINE a == SubSeq(s, 1, i - 1)
           b == SubSeq(s, i + 1, Len(s))
<1>1. Len(s) \in Nat /\ i \in 1 .. Len(s) /\ DOMAIN s = 1 .. Len(s)
  BY LenProperties
<1>2. \A j \in 1 .. Len(s) : s[j] \in S
  BY ElementOfSeq
<1>3. /\ a \in Seq(S) /\ Len(a) = i - 1
      /\ \A j \in 1 .. (i - 1) : a[j] = s[j]
  BY <1>1, <1>2
<1>4. /\ b \in Seq(S) /\ Len(b) = Len(s) - i
      /\ \A j \in 1 .. (Len(s) - i) : b[j] = s[i + j]
  <2>1. i + 1 \in Int /\ Len(s) \in Int /\ \A j \in (i + 1) .. Len(s) : s[j] \in S
    <3>1. \A j \in (i + 1) .. Len(s) : j \in 1 .. Len(s)
      BY <1>1
    <3> QED BY <1>1, <1>2, <3>1
  <2>2. /\ b \in Seq(S)
        /\ Len(b) = IF i + 1 <= Len(s) THEN Len(s) - (i + 1) + 1 ELSE 0
        /\ \A j \in 1 .. (Len(s) - (i + 1) + 1) : b[j] = s[(i + 1) + j - 1]
    <3> DEFINE lo == i + 1
               hi == Len(s)
    <3>1. lo \in Int /\ hi \in Int /\ \A j \in lo .. hi : s[j] \in S
      BY <2>1
    <3> HIDE DEF lo, hi
    <3>2. /\ SubSeq(s, lo, hi) \in Seq(S)
          /\ Len(SubSeq(s, lo, hi)) = IF lo <= hi THEN hi - lo + 1 ELSE 0
          /\ \A j \in 1 .. (hi - lo + 1) : SubSeq(s, lo, hi)[j] = s[lo + j - 1]
      BY <3>1, SubSeqProperties
    <3> QED BY <3>2 DEF lo, hi
  <2> HIDE DEF b
  <2>3. \A j \in 1 .. (Len(s) - i) : j \in 1 .. (Len(s) - (i + 1) + 1) /\ (i + 1) + j - 1 = i + j
    BY <1>1
  <2>4. Len(b) = Len(s) - i
    BY <1>1, <2>2
  <2>5. ASSUME NEW j \in 1 .. (Len(s) - i)
        PROVE  b[j] = s[i + j]
    <3>1. b[j] = s[(i + 1) + j - 1] /\ (i + 1) + j - 1 = i + j
      BY <2>2, <2>3
    <3> QED BY <3>1
  <2>6. QED
    BY <2>2, <2>4, <2>5
<1>5. RemoveAt(s, i) = a \o b
  BY DEF RemoveAt
<1> HIDE DEF a, b
<1>6. /\ a \o b \in Seq(S) /\ Len(a \o b) = Len(a) + Len(b)
      /\ \A j \in 1 .. Len(a) + Len(b) : (a \o b)[j] = IF j <= Len(a) THEN a[j] ELSE b[j - Len(a)]
  <2>1. a \in Seq(S) /\ b \in Seq(S)
    BY <1>3, <1>4
  <2>2. QED
    BY <2>1, ConcatProperties
<1>7. DOMAIN (a \o b) = 1 .. (Len(s) - 1)
  <2>1. Len(a \o b) = Len(s) - 1
    BY <1>1, <1>3, <1>4, <1>6
  <2>2. DOMAIN (a \o b) = 1 .. Len(a \o b)
    BY <1>6, LenProperties
  <2>3. QED
    BY <2>1, <2>2
<1>8. \A j \in 1 .. (Len(s) - 1) : (a \o b)[j] = IF j < i THEN s[j] ELSE s[j + 1]
  <2>1. SUFFICES ASSUME NEW j \in 1 .. (Len(s) - 1)
                 PROVE  (a \o b)[j] = IF j < i THEN s[j] ELSE s[j + 1]
    OBVIOUS
  <2>2. /\ j \in 1 .. Len(a) + Len(b)
        /\ j <= Len(a) <=> j < i
        /\ j - Len(a) = j - (i - 1)
    BY <1>1, <1>3, <1>4
  <2>3. (a \o b)[j] = IF j < i THEN a[j] ELSE b[j - (i - 1)]
    BY <1>6, <2>2
  <2>4. CASE j < i
    <3>1. j \in 1 .. (i - 1)
      BY <1>1, <2>4
    <3>2. QED
      BY <1>3, <2>3, <2>4, <3>1
  <2>5. CASE ~(j < i)
    <3>1. j - (i - 1) \in 1 .. (Len(s) - i) /\ i + (j - (i - 1)) = j + 1
      BY <1>1, <2>5
    <3>2. b[j - (i - 1)] = s[i + (j - (i - 1))]
      BY <1>4, <3>1
    <3>3. QED
      BY <2>3, <2>5, <3>1, <3>2
  <2>6. QED
    BY <2>4, <2>5
<1>9. QED
  BY <1>1, <1>5, <1>6, <1>7, <1>8

LEMMA BlockStopsKept ==
    ASSUME StreamInv, NEW c \in Calls, BlockStops(c)
    PROVE  StreamKept
<1> DEFINE whole == chat.sent[c] = "whole"
<1>1. PICK i \in DOMAIN chat.pending :
        /\ chat.pending[i] = c
        /\ chat' = [chat EXCEPT !.told = Append(@, Call(c, whole)), !.pending = RemoveAt(@, i)]
  BY DEF BlockStops
<1> DEFINE left == RemoveAt(chat.pending, i)
<1>2. /\ left \in Seq(Calls)
      /\ DOMAIN left = 1 .. (Len(chat.pending) - 1)
      /\ DOMAIN chat.pending = 1 .. Len(chat.pending) /\ Len(chat.pending) \in Nat
      /\ \A j \in 1 .. (Len(chat.pending) - 1) :
            left[j] = IF j < i THEN chat.pending[j] ELSE chat.pending[j + 1]
  <2>1. chat.pending \in Seq(Calls)
    BY ChatIsState
  <2> QED BY <2>1, RemoveAtFacts
<1>3. chat.pc = "open" /\ Call(c, whole) \in StreamEvents
  BY EventKinds DEF BlockStops, Receiving
<1> DEFINE told == Append(chat.told, Call(c, whole))
<1> HIDE DEF whole, left
<1>4. told \in Seq(StreamEvents)
  BY <1>3, ChatIsState
<1> HIDE DEF told
<1>5. chat' = [chat EXCEPT !.told = told, !.pending = left]
  BY <1>1 DEF told, left
<1>6. /\ chat' \in StreamState /\ chat'.pc = "open" /\ chat'.told = told
      /\ chat'.thrown = chat.thrown /\ chat'.provider = chat.provider
      /\ chat'.pending = left /\ chat'.reason = chat.reason /\ chat'.sent = chat.sent
  BY <1>4, <1>5, <1>2, <1>3, ChatIsState DEF StreamState
<1>7. /\ chat' \in StreamState /\ chat'.pc = "open" /\ chat'.told = Append(chat.told, Call(c, whole))
      /\ chat'.thrown = chat.thrown /\ chat'.provider = chat.provider
      /\ chat'.pending = left /\ chat'.reason = chat.reason /\ chat'.sent = chat.sent
  BY <1>6 DEF told
<1>8. OpenInv
  BY DEF StreamInv
<1>9. \A j \in DOMAIN left :
         /\ left[j] = chat.pending[IF j < i THEN j ELSE j + 1]
         /\ (IF j < i THEN j ELSE j + 1) \in DOMAIN chat.pending \ {i}
  BY <1>2
<1>10. /\ \A j \in DOMAIN left : left[j] # c
       /\ \A j \in DOMAIN left : \E k \in DOMAIN chat.pending : left[j] = chat.pending[k]
  <2>1. \A j \in DOMAIN left : \E k \in DOMAIN chat.pending \ {i} : left[j] = chat.pending[k]
    BY <1>9
  <2>2. \A k \in DOMAIN chat.pending \ {i} : chat.pending[k] # c
    BY <1>1, <1>3, <1>8 DEF OpenInv
  <2>3. QED
    BY <2>1, <2>2
<1>11. \A j, k \in DOMAIN left : left[j] = left[k] => j = k
  <2>1. \A m, n \in DOMAIN chat.pending : chat.pending[m] = chat.pending[n] => m = n
    BY <1>3, <1>8 DEF OpenInv
  <2>2. \A j, k \in DOMAIN left : left[j] = left[k] =>
           (IF j < i THEN j ELSE j + 1) = (IF k < i THEN k ELSE k + 1)
    BY <1>9, <2>1
  <2>3. SUFFICES ASSUME NEW j \in DOMAIN left, NEW k \in DOMAIN left, left[j] = left[k] PROVE j = k
    OBVIOUS
  <2>4. (IF j < i THEN j ELSE j + 1) = (IF k < i THEN k ELSE k + 1)
    BY <2>2, <2>3
  <2>5. j \in Int /\ k \in Int /\ i \in Int
    BY <1>2
  <2> HIDE DEF left
  <2>6. QED
    BY <2>4, <2>5
<1>12. chat.sent[c] # "none" /\ whole \in BOOLEAN /\ whole = (chat.sent[c] = "whole")
  BY <1>1, <1>3, <1>8 DEF OpenInv, whole
<1>13. \A k \in DOMAIN chat.told : chat.told[k].type = "tool_call" => chat.told[k].id # c
  BY <1>1, <1>3, <1>8 DEF OpenInv
<1>14. NothingCut => NothingCut'
  BY <1>7 DEF NothingCut
<1>15. /\ chat' \in StreamState /\ chat'.pc = "open" /\ chat'.told = Append(chat.told, Call(c, whole))
       /\ chat'.thrown = chat.thrown /\ chat'.provider = chat.provider /\ chat'.reason = chat.reason
       /\ \A d \in Calls \ {c} : chat'.sent[d] = chat.sent[d]
       /\ chat'.sent[c] # "none" /\ whole \in BOOLEAN /\ whole = (chat'.sent[c] = "whole")
  BY <1>3, <1>7, <1>12 DEF told
<1>16. /\ \A j \in DOMAIN chat'.pending : chat'.pending[j] # c
       /\ \A j, k \in DOMAIN chat'.pending : chat'.pending[j] = chat'.pending[k] => j = k
       /\ \A j \in DOMAIN chat'.pending : \E k \in DOMAIN chat.pending :
             chat'.pending[j] = chat.pending[k]
  BY <1>7, <1>10, <1>11
<1>17. QED
  BY <1>3, <1>13, <1>14, <1>15, <1>16, CallToldKept

LEMMA ReasonPieceKept ==
    ASSUME StreamInv, ReasonPiece
    PROVE  StreamKept
<1>1. PICK r \in ReasonsOf(chat.provider) :
         /\ r \in {"stop", "calls"} => \A c \in Calls : chat.sent[c] # "part"
         /\ chat' = [chat EXCEPT !.reason = r]
  BY DEF ReasonPiece
<1>2. chat.pc = "open" /\ r \in Reasons
  BY DEF ReasonPiece, Receiving, ReasonsOf, Reasons
<1>3. /\ chat' \in StreamState /\ chat'.pc = "open" /\ chat'.told = chat.told
      /\ chat'.thrown = chat.thrown /\ chat'.provider = chat.provider
      /\ chat'.pending = chat.pending /\ chat'.sent = chat.sent /\ chat'.reason = r
  BY <1>1, <1>2, ChatIsState DEF StreamState
<1>4. OpenInv'
  BY <1>1, <1>2, <1>3 DEF StreamInv, OpenInv, NothingCut, Silent
<1>5. NotOverInv' /\ LastWordsInv' /\ RetryInv'
  BY <1>2, <1>3 DEF StreamInv, NotOverInv, Silent, LastWordsInv, RetryInv
<1>6. QED
  BY <1>3, <1>4, <1>5, TypeFromState, Stutters DEF StreamKept, StreamInv

(* What is told at the end: the entries that were put together, each once. *)
LEMMA FlushFacts ==
    ASSUME StreamInv, chat.pc = "open"
    PROVE  /\ Flush \in Seq(StreamEvents)
           /\ Len(Flush) \in Nat /\ DOMAIN Flush = 1 .. Len(Flush)
           /\ \A i \in 1 .. Len(Flush) : Flush[i] \in {Call(c, whole) : c \in Calls, whole \in BOOLEAN}
           /\ \A i \in 1 .. Len(Flush) : \A k \in DOMAIN chat.told :
                 chat.told[k].type = "tool_call" => chat.told[k].id # Flush[i].id
           /\ \A i, j \in 1 .. Len(Flush) : Flush[i].id = Flush[j].id => i = j
           /\ NothingCut => \A i \in 1 .. Len(Flush) : Flush[i].whole
<1>1. OpenInv
  BY DEF StreamInv
<1>2. CASE chat.provider \notin Assembles
  <2>1. Flush = <<>>
    BY <1>2 DEF Flush
  <2>2. /\ Flush \in Seq(StreamEvents) /\ Len(Flush) = 0 /\ DOMAIN Flush = 1 .. 0
    BY <2>1
  <2>3. QED
    BY <2>2
<1>3. CASE chat.provider \in Assembles
  <2> DEFINE n == Len(chat.pending)
             whole(i) == chat.sent[chat.pending[i]] = "whole"
             piece(i) == Call(chat.pending[i], whole(i))
             pieces == [i \in 1 .. n |-> piece(i)]
  <2>1. n \in Nat /\ DOMAIN chat.pending = 1 .. n
    BY ChatIsState, LenProperties
  <2>2. Flush = pieces
    BY <1>3, <2>1 DEF Flush
  <2>3. \A i \in 1 .. n : chat.pending[i] \in Calls /\ whole(i) \in BOOLEAN
    BY <2>1, ChatIsState
  <2>4. \A i \in 1 .. n : /\ piece(i) \in StreamEvents
                          /\ piece(i) \in {Call(c, w) : c \in Calls, w \in BOOLEAN}
                          /\ piece(i).id = chat.pending[i] /\ piece(i).whole = whole(i)
    <3>1. TAKE i \in 1 .. n
    <3>2. chat.pending[i] \in Calls /\ whole(i) \in BOOLEAN
      BY <2>3
    <3> HIDE DEF whole, n
    <3>3. QED
      BY <3>2, EventKinds
  <2> HIDE DEF piece
  <2>5. pieces \in [1 .. n -> StreamEvents]
    BY <2>4
  <2>6. \A i \in 1 .. n : /\ pieces[i] \in {Call(c, w) : c \in Calls, w \in BOOLEAN}
                          /\ pieces[i].id = chat.pending[i] /\ pieces[i].whole = whole(i)
    BY <2>4
  <2> HIDE DEF pieces
  <2>7. pieces \in Seq(StreamEvents) /\ Len(pieces) = n /\ DOMAIN pieces = 1 .. n
    BY <2>1, <2>5
  <2>8. \A i \in 1 .. n : \A k \in DOMAIN chat.told :
           chat.told[k].type = "tool_call" => chat.told[k].id # pieces[i].id
    BY <1>1, <2>1, <2>6 DEF OpenInv
  <2>9. \A i, j \in 1 .. n : pieces[i].id = pieces[j].id => i = j
    BY <1>1, <2>1, <2>6 DEF OpenInv
  <2>10. NothingCut => \A i \in 1 .. n : pieces[i].whole
    <3>1. SUFFICES ASSUME NothingCut, NEW i \in 1 .. n
                   PROVE  pieces[i].whole
      OBVIOUS
    <3>2. chat.sent[chat.pending[i]] \in {"none", "part", "whole"}
      BY <2>3, ChatIsState
    <3>3. chat.sent[chat.pending[i]] # "none" /\ chat.sent[chat.pending[i]] # "part"
      BY <1>1, <2>1, <2>3, <3>1 DEF OpenInv, NothingCut
    <3>4. whole(i) = TRUE
      BY <3>2, <3>3
    <3> HIDE DEF whole
    <3>5. pieces[i].whole = TRUE
      BY <2>6, <3>1, <3>4
    <3>6. QED
      BY <3>5
  <2>11. QED
    BY <2>1, <2>2, <2>6, <2>7, <2>8, <2>9, <2>10
<1>4. QED
  BY <1>2, <1>3

(* The reason that is told, and what it takes for it to ask for tools.      *)
LEMMA StopFacts ==
    ASSUME StreamInv, chat.pc = "open", ~Faulted
    PROVE  /\ StopReason \in {"end_turn", "max_tokens", "tool_use", "content_filter"}
           /\ StopReason = "tool_use" /\ chat.provider # "responses" => NothingCut
<1>1. chat.reason \in {"none"} \cup ReasonsOf(chat.provider) /\ chat.reason # "fault"
  BY DEF StreamInv, OpenInv, Faulted
<1>2. chat.reason \in {"none", "stop", "length", "calls", "filter"}
  BY <1>1 DEF ReasonsOf
<1>3. /\ MapReason[chat.reason] \in {"end_turn", "max_tokens", "tool_use", "content_filter"}
      /\ MapReason[chat.reason] = "tool_use" => chat.reason = "calls"
  BY <1>2 DEF MapReason
<1>4. chat.provider \in {"google", "ollama"} \/ chat.reason = "calls" => NothingCut
  BY DEF StreamInv, OpenInv
<1>5. QED
  BY <1>3, <1>4 DEF StopReason, CallsSayIt

LEMMA BodyEndsKept ==
    ASSUME StreamInv, BodyEnds
    PROVE  StreamKept
<1>1. chat.pc = "open" /\ chat' = Yielding(LastWords)
  BY DEF BodyEnds
<1>2. CASE Blocked \/ Faulted
  <2>1. \E stop \in {"error", "content_filter"} : LastWords = <<Error, Done(stop)>>
    BY <1>2 DEF LastWords
  <2>2. QED
    BY <1>1, <2>1, ErrorYieldKept
<1>3. CASE ~Blocked /\ ~Faulted
  <2> DEFINE d == Done(StopReason)
             words == Flush \o <<d>>
             n == Len(Flush)
  <2>1. LastWords = words
    BY <1>3 DEF LastWords
  <2>2. /\ StopReason \in {"end_turn", "max_tokens", "tool_use", "content_filter"}
        /\ StopReason = "tool_use" /\ chat.provider # "responses" => NothingCut
    BY <1>1, <1>3, StopFacts
  <2>3. /\ d \in StreamEvents /\ d.stop = StopReason /\ d.type = "done"
    BY <2>2, EventKinds DEF StopReasons
  <2>4. /\ d \in {Done("end_turn"), Done("max_tokens"), Done("tool_use"), Done("content_filter")}
        /\ d = Done("tool_use") => StopReason = "tool_use"
    <3>1. Done("tool_use").stop = "tool_use"
      BY EventKinds DEF StopReasons
    <3>2. QED
      BY <2>2, <2>3, <3>1
  <2>5. /\ Flush \in Seq(StreamEvents) /\ n \in Nat
        /\ \A i \in 1 .. n : Flush[i] \in {Call(c, whole) : c \in Calls, whole \in BOOLEAN}
        /\ \A i \in 1 .. n : \A k \in DOMAIN chat.told :
              chat.told[k].type = "tool_call" => chat.told[k].id # Flush[i].id
        /\ \A i, j \in 1 .. n : Flush[i].id = Flush[j].id => i = j
        /\ NothingCut => \A i \in 1 .. n : Flush[i].whole
    BY <1>1, FlushFacts
  <2> HIDE DEF d, n
  <2>6. <<d>> \in Seq(StreamEvents) /\ Len(<<d>>) = 1 /\ <<d>>[1] = d
    BY <2>3
  <2>7. /\ words \in Seq(StreamEvents) /\ Len(words) = n + 1
        /\ \A i \in 1 .. n : words[i] = Flush[i]
        /\ words[n + 1] = d
    <3>1. /\ words \in Seq(StreamEvents)
          /\ Len(words) = Len(Flush) + Len(<<d>>)
          /\ \A i \in 1 .. Len(Flush) + Len(<<d>>) :
                words[i] = IF i <= Len(Flush) THEN Flush[i] ELSE <<d>>[i - Len(Flush)]
      BY <2>5, <2>6, ConcatProperties
    <3> HIDE DEF words
    <3>2. /\ Len(words) = n + 1
          /\ \A i \in 1 .. n + 1 : words[i] = IF i <= n THEN Flush[i] ELSE <<d>>[i - n]
      BY <2>6, <3>1 DEF n
    <3>3. n + 1 \in 1 .. n + 1 /\ ~(n + 1 <= n) /\ (n + 1) - n = 1
      BY <2>5
    <3>4. \A i \in 1 .. n : i \in 1 .. n + 1 /\ i <= n
      BY <2>5
    <3>5. QED
      BY <2>6, <3>1, <3>2, <3>3, <3>4
  <2> HIDE DEF words
  <2>8. /\ chat' \in StreamState /\ chat'.pc = "yield" /\ chat'.outbox = words
        /\ chat'.told = chat.told /\ chat'.thrown = chat.thrown /\ chat'.provider = chat.provider
    BY <1>1, <2>1, <2>7, ChatIsState DEF Yielding, StreamState
  <2>9. Silent("error")' /\ NotOverInv'
    BY <1>1, <2>8 DEF StreamInv, NotOverInv, OpenInv, Silent
  <2>10. chat.provider # "responses" /\ d = Done("tool_use") =>
           /\ \A i \in 1 .. n : Flush[i].whole
           /\ \A k \in DOMAIN chat.told : chat.told[k].type = "tool_call" => chat.told[k].whole
    <3>1. SUFFICES ASSUME NothingCut, NEW k \in DOMAIN chat.told, chat.told[k].type = "tool_call"
                   PROVE  chat.told[k].whole
      BY <2>2, <2>4, <2>5
    <3>2. chat.told[k].id \in Calls
      BY <3>1, ChatIsState, EventKinds
    <3>3. chat.sent[chat.told[k].id] \in {"none", "part", "whole"}
      BY <3>2, ChatIsState
    <3>4. QED
      BY <1>1, <3>1, <3>2, <3>3 DEF StreamInv, OpenInv, NothingCut
  <2>11. CallsLeft'
    <3>1. Len(words) > 0 /\ Len(words) - 1 = n
      BY <2>5, <2>7
    <3>2. \A i \in 1 .. n : \E c \in Calls, whole \in BOOLEAN : words[i] = Call(c, whole)
      BY <2>5, <2>7
    <3>3. /\ \A i, j \in 1 .. n : words[i].id = words[j].id => i = j
          /\ \A i \in 1 .. n : \A k \in DOMAIN chat.told :
                chat.told[k].type = "tool_call" => chat.told[k].id # words[i].id
      BY <2>5, <2>7
    <3>4. words[Len(words)] = d
      BY <2>7
    <3>5. chat.provider # "responses" /\ d = Done("tool_use") =>
             /\ \A i \in 1 .. n : words[i].whole
             /\ \A k \in DOMAIN chat.told : chat.told[k].type = "tool_call" => chat.told[k].whole
      BY <2>7, <2>10
    <3>6. QED
      BY <2>4, <2>8, <2>9, <3>1, <3>2, <3>3, <3>4, <3>5 DEF CallsLeft
  <2>12. OpenInv' /\ LastWordsInv' /\ RetryInv'
    BY <2>8, <2>11 DEF OpenInv, LastWordsInv, RetryInv
  <2>13. QED
    BY <2>8, <2>9, <2>12, TypeFromState, Stutters DEF StreamKept, StreamInv
<1>4. QED
  BY <1>2, <1>3

(* An event that is yielded: how the invariant and the loop take it.        *)
LEMMA YieldFacts ==
    ASSUME StreamInv, Yield
    PROVE  /\ chat.pc = "yield" /\ chat' \in StreamState
           /\ Len(chat.outbox) \in Nat \ {0} /\ chat.outbox[1] \in StreamEvents
           /\ chat'.told = Append(chat.told, chat.outbox[1])
           /\ chat'.thrown = chat.thrown /\ chat'.provider = chat.provider
           /\ Len(chat'.outbox) = Len(chat.outbox) - 1
           /\ \A i \in 1 .. (Len(chat.outbox) - 1) : chat'.outbox[i] = chat.outbox[i + 1]
           /\ chat'.pc = IF Len(chat.outbox) = 1 THEN "over" ELSE "yield"
           /\ DOMAIN chat'.told = DOMAIN chat.told \cup {Len(chat.told) + 1}
           /\ \A k \in DOMAIN chat.told : chat'.told[k] = chat.told[k]
           /\ chat'.told[Len(chat.told) + 1] = chat.outbox[1]
<1> DEFINE out == chat.outbox
           told == Append(chat.told, Head(out))
           rest == Tail(out)
<1>1. chat.pc = "yield" /\ LastWordsInv
  BY DEF Yield, StreamInv
<1>2. out \in Seq(StreamEvents) /\ Len(out) > 0
  BY <1>1, ChatIsState DEF LastWordsInv, ErrorLeft, CallsLeft
<1>3. out # <<>> /\ Len(out) \in Nat \ {0} /\ Head(out) = out[1]
  BY <1>2
<1>4. /\ Head(out) \in StreamEvents
      /\ rest \in Seq(StreamEvents) /\ Len(rest) = Len(out) - 1
      /\ \A i \in 1 .. Len(rest) : rest[i] = out[i + 1]
  BY <1>2, <1>3, HeadTailProperties
<1>5. told \in Seq(StreamEvents)
  BY <1>4, ChatIsState, AppendFacts
<1>6. chat' = [chat EXCEPT !.told = told, !.outbox = rest,
                           !.pc = IF Len(out) = 1 THEN "over" ELSE @]
  BY DEF Yield
<1> HIDE DEF told, rest, out
<1>7. /\ chat' \in StreamState /\ chat'.told = told /\ chat'.outbox = rest
      /\ chat'.thrown = chat.thrown /\ chat'.provider = chat.provider
      /\ chat'.pc = IF Len(out) = 1 THEN "over" ELSE "yield"
  BY <1>1, <1>4, <1>5, <1>6, ChatIsState DEF StreamState
<1>8. /\ DOMAIN told = DOMAIN chat.told \cup {Len(chat.told) + 1}
      /\ \A k \in DOMAIN chat.told : told[k] = chat.told[k]
      /\ told[Len(chat.told) + 1] = Head(out)
  BY <1>4, ChatIsState, AppendFacts DEF told
<1>9. told = Append(chat.told, out[1])
  BY <1>3 DEF told
<1>10. QED
  BY <1>1, <1>3, <1>4, <1>7, <1>8, <1>9 DEF out

LEMMA YieldKept ==
    ASSUME StreamInv, Yield
    PROVE  StreamKept
<1> DEFINE n == Len(chat.outbox)
           e == chat.outbox[1]
<1>1. /\ chat.pc = "yield" /\ chat' \in StreamState
      /\ n \in Nat \ {0} /\ e \in StreamEvents
      /\ chat'.told = Append(chat.told, e)
      /\ chat'.thrown = chat.thrown /\ chat'.provider = chat.provider
      /\ Len(chat'.outbox) = n - 1
      /\ \A i \in 1 .. (n - 1) : chat'.outbox[i] = chat.outbox[i + 1]
      /\ chat'.pc = IF n = 1 THEN "over" ELSE "yield"
  BY YieldFacts
<1>2. /\ DOMAIN chat'.told = DOMAIN chat.told \cup {Len(chat.told) + 1}
      /\ \A k \in DOMAIN chat.told : chat'.told[k] = chat.told[k]
      /\ chat'.told[Len(chat.told) + 1] = e
  BY YieldFacts
<1>3. n \in Nat \ {0}
  BY <1>1
<1> HIDE DEF n, e
<1>4. \A type : e.type # type /\ Silent(type) => Silent(type)'
  BY <1>2 DEF Silent
<1>5. StreamTypeOK' /\ OpenInv' /\ RetryInv'
  BY <1>1, TypeFromState DEF OpenInv, RetryInv
<1>6. Heard!Tell(e)
  BY <1>1, Tells
<1>7. Silent("done")
  BY <1>1 DEF StreamInv, NotOverInv
<1>8. CASE ErrorLeft /\ n = 2
  <2>1. /\ e = Error /\ Silent("error")
        /\ chat.outbox[2] \in {Done("error"), Done("content_filter")}
    BY <1>8 DEF ErrorLeft, n, e
  <2>2. Heard!TellError
    BY <1>6, <2>1, ToldEvents DEF Heard!TellError, Error
  <2>3. e.type = "error"
    BY <2>1, EventKinds
  <2>4. ~Silent("error")'
    BY <1>2, <2>3 DEF Silent
  <2>5. ErrorLeft'
    BY <1>1, <1>8, <2>1, <2>4 DEF ErrorLeft
  <2>6. NotOverInv'
    BY <1>1, <1>4, <1>7, <2>3 DEF StreamInv, NotOverInv
  <2>7. QED
    BY <1>5, <2>2, <2>5, <2>6 DEF StreamKept, StreamInv, LastWordsInv, Heard!Next
<1>9. CASE n = 1
  <2>1. /\ NotOverInv' /\ LastWordsInv'
    BY <1>1, <1>9 DEF NotOverInv, LastWordsInv
  <2>2. PICK stop \in {"end_turn", "max_tokens", "tool_use", "content_filter", "error"} :
          /\ e = Done(stop)
          /\ IF ~Silent("error") THEN stop \in {"error", "content_filter"} ELSE stop # "error"
          /\ chat.provider # "responses" /\ stop = "tool_use" =>
                \A k \in DOMAIN chat.told : chat.told[k].type = "tool_call" => chat.told[k].whole
    <3>1. CASE ErrorLeft
      BY <1>9, <3>1 DEF ErrorLeft, n, e
    <3>2. CASE CallsLeft
      BY <1>9, <3>2 DEF CallsLeft, n, e
    <3>3. QED
      BY <1>1, <3>1, <3>2 DEF StreamInv, LastWordsInv
  <2>3. IF Heard!Told("error") # {} THEN stop \in {"error", "content_filter"} ELSE stop # "error"
    BY <2>2, ToldEvents
  <2>4. chat.provider # "responses" /\ stop = "tool_use" =>
           \A d \in Heard!Told("tool_call") : d.whole
    BY <2>2, ToldEvents
  <2>5. Heard!TellDone(stop)
    BY <1>6, <2>2, <2>3, <2>4 DEF Heard!TellDone, Done
  <2>6. Heard!Next
    BY <2>5 DEF Heard!Next
  <2>7. QED
    BY <1>5, <2>1, <2>6 DEF StreamKept, StreamInv
<1>10. CASE CallsLeft /\ n # 1
  <2>1. n - 1 \in Nat \ {0} /\ 1 \in 1 .. (n - 1)
    BY <1>3, <1>10
  <2>2. /\ Silent("error")
        /\ \A i \in 1 .. (n - 1) : \E c \in Calls, whole \in BOOLEAN : chat.outbox[i] = Call(c, whole)
        /\ \A i, j \in 1 .. (n - 1) : chat.outbox[i].id = chat.outbox[j].id => i = j
        /\ \A i \in 1 .. (n - 1) : \A k \in DOMAIN chat.told :
              chat.told[k].type = "tool_call" => chat.told[k].id # chat.outbox[i].id
        /\ chat.outbox[n] \in {Done("end_turn"), Done("max_tokens"), Done("tool_use"),
                               Done("content_filter")}
        /\ chat.provider # "responses" /\ chat.outbox[n] = Done("tool_use") =>
              /\ \A i \in 1 .. (n - 1) : chat.outbox[i].whole
              /\ \A k \in DOMAIN chat.told : chat.told[k].type = "tool_call" => chat.told[k].whole
    BY <1>10 DEF CallsLeft, n
  <2>3. PICK c \in Calls, whole \in BOOLEAN : e = Call(c, whole)
    BY <2>2, <2>1 DEF e
  <2>4. e.type = "tool_call" /\ e.id = c /\ e.whole = whole
    BY <2>3, EventKinds
  <2>5. Silent("error") /\ Silent("error")'
    <3>1. e.type # "error"
      BY <2>4
    <3>2. Silent("error")
      BY <2>2
    <3>3. QED
      BY <1>4, <3>1, <3>2
  <2>6. \A k \in DOMAIN chat.told : chat.told[k].type = "tool_call" => chat.told[k].id # c
    BY <2>2, <2>4, <2>1 DEF e
  <2>7. \A d \in Heard!Told("tool_call") : d.id # c
    BY <2>6, ToldEvents
  <2>8. Heard!TellCall(c, whole)
    BY <1>6, <2>3, <2>5, <2>7, ToldEvents DEF Heard!TellCall, Call
  <2>9. NotOverInv'
    BY <1>1, <1>4, <1>7, <2>4 DEF StreamInv, NotOverInv
  <2>10. CallsLeft'
    <3> DEFINE m == n - 1
    <3>1. /\ m \in Nat \ {0} /\ Len(chat'.outbox) = m
          /\ \A i \in 1 .. m : chat'.outbox[i] = chat.outbox[i + 1]
          /\ \A i \in 1 .. (m - 1) : i + 1 \in 1 .. (n - 1)
          /\ chat'.outbox[m] = chat.outbox[n]
      <4>1. /\ m \in Nat \ {0} /\ Len(chat'.outbox) = m
            /\ \A i \in 1 .. m : chat'.outbox[i] = chat.outbox[i + 1]
            /\ \A i \in 1 .. (m - 1) : i + 1 \in 1 .. (n - 1)
        BY <1>1, <1>3, <1>10
      <4>2. m \in 1 .. m /\ m + 1 = n
        BY <1>3, <2>1
      <4>3. QED
        BY <4>1, <4>2
    <3>2. \A i \in 1 .. (m - 1) : chat'.outbox[i] = chat.outbox[i + 1]
      BY <3>1
    <3>3. ASSUME NEW i \in 1 .. (m - 1)
          PROVE  \E d \in Calls, w \in BOOLEAN : chat'.outbox[i] = Call(d, w)
      <4>1. i + 1 \in 1 .. (n - 1) /\ chat'.outbox[i] = chat.outbox[i + 1]
        BY <3>1, <3>2
      <4>2. \A j \in 1 .. (n - 1) : \E d \in Calls, w \in BOOLEAN : chat.outbox[j] = Call(d, w)
        BY <2>2
      <4>3. QED
        BY <4>1, <4>2
    <3>4. \A i, j \in 1 .. (m - 1) : chat'.outbox[i].id = chat'.outbox[j].id => i = j
      <4>1. \A i, j \in 1 .. (n - 1) : chat.outbox[i].id = chat.outbox[j].id => i = j
        BY <2>2
      <4>2. \A i, j \in 1 .. (m - 1) : chat'.outbox[i].id = chat'.outbox[j].id => i + 1 = j + 1
        <5>1. TAKE i, j \in 1 .. (m - 1)
        <5>2. HAVE chat'.outbox[i].id = chat'.outbox[j].id
        <5>3. /\ i + 1 \in 1 .. (n - 1) /\ j + 1 \in 1 .. (n - 1)
              /\ chat.outbox[i + 1].id = chat.outbox[j + 1].id
          BY <3>1, <3>2, <5>2
        <5>4. QED
          BY <4>1, <5>3
      <4>3. \A i, j \in 1 .. (m - 1) : i + 1 = j + 1 => i = j
        BY <3>1
      <4>4. QED
        BY <4>2, <4>3
    <3>5. \A i \in 1 .. (m - 1) : \A k \in DOMAIN chat'.told :
             chat'.told[k].type = "tool_call" => chat'.told[k].id # chat'.outbox[i].id
      <4>1. ASSUME NEW i \in 1 .. (m - 1), NEW k \in DOMAIN chat.told, chat.told[k].type = "tool_call"
            PROVE  chat.told[k].id # chat'.outbox[i].id
        <5>1. i + 1 \in 1 .. (n - 1) /\ chat'.outbox[i] = chat.outbox[i + 1]
          BY <3>1, <3>2
        <5>2. \A j \in 1 .. (n - 1) : chat.told[k].id # chat.outbox[j].id
          BY <2>2, <4>1
        <5>3. QED
          BY <5>1, <5>2
      <4>2. \A i \in 1 .. (m - 1) : e.id # chat'.outbox[i].id
        <5>1. \A i \in 1 .. (m - 1) : i + 1 \in 1 .. (n - 1) /\ 1 \in 1 .. (n - 1) /\ i + 1 # 1
          BY <1>3, <2>1
        <5>2. QED
          BY <2>2, <3>2, <5>1 DEF e
      <4>3. QED
        BY <1>2, <4>1, <4>2
    <3>6. chat'.outbox[m] \in {Done("end_turn"), Done("max_tokens"), Done("tool_use"),
                               Done("content_filter")}
      BY <2>2, <3>1
    <3>7. chat'.provider # "responses" /\ chat'.outbox[m] = Done("tool_use") =>
             /\ \A i \in 1 .. (m - 1) : chat'.outbox[i].whole
             /\ \A k \in DOMAIN chat'.told :
                   chat'.told[k].type = "tool_call" => chat'.told[k].whole
      <4>1. SUFFICES ASSUME chat'.provider # "responses", chat'.outbox[m] = Done("tool_use")
                     PROVE  /\ \A i \in 1 .. (m - 1) : chat'.outbox[i].whole
                            /\ \A k \in DOMAIN chat'.told :
                                  chat'.told[k].type = "tool_call" => chat'.told[k].whole
        OBVIOUS
      <4>2. /\ \A i \in 1 .. (n - 1) : chat.outbox[i].whole
            /\ \A k \in DOMAIN chat.told : chat.told[k].type = "tool_call" => chat.told[k].whole
        BY <1>1, <2>2, <3>1, <4>1
      <4>3. e.whole
        BY <2>1, <4>2 DEF e
      <4>4. QED
        BY <1>2, <3>1, <3>2, <4>2, <4>3
    <3> HIDE DEF m
    <3>8. QED
      BY <2>5, <3>1, <3>3, <3>4, <3>5, <3>6, <3>7 DEF CallsLeft
  <2>11. QED
    BY <1>5, <2>8, <2>9, <2>10 DEF StreamKept, StreamInv, LastWordsInv, Heard!Next
<1>11. QED
  BY <1>1, <1>8, <1>9, <1>10 DEF StreamInv, LastWordsInv, ErrorLeft, n

LEMMA StreamInitInv == StreamInit => StreamInv /\ Heard!Init
<1> SUFFICES ASSUME StreamInit
             PROVE  StreamInv /\ Heard!Init
  OBVIOUS
<1>1. PICK p \in Providers :
        chat = [provider |-> p, pc |-> "request", attempt |-> 1, texts |-> 0,
                sent |-> [c \in Calls |-> "none"], pending |-> <<>>, reason |-> "none",
                outbox |-> <<>>, told |-> <<>>, thrown |-> FALSE]
  BY DEF StreamInit
<1>2. /\ chat.pc = "request" /\ chat.told = <<>> /\ chat.pending = <<>> /\ chat.reason = "none"
      /\ chat.thrown = FALSE /\ chat.sent = [c \in Calls |-> "none"]
  BY <1>1
<1>3. 1 \in 1 .. MaxRequests /\ 0 \in 0 .. MaxTexts
  BY StreamAssumption
<1>4. StreamTypeOK
  BY <1>1, <1>3 DEF StreamTypeOK, Reasons
<1>5. DOMAIN chat.told = {} /\ DOMAIN chat.pending = {}
  BY <1>2
<1>6. OpenInv /\ NotOverInv /\ LastWordsInv /\ RetryInv
  BY <1>2, <1>5 DEF OpenInv, NotOverInv, LastWordsInv, RetryInv, Silent, NothingCut
<1>7. Heard!Init
  BY <1>2 DEF Heard!Init
<1>8. QED
  BY <1>4, <1>6, <1>7 DEF StreamInv

LEMMA StreamStepKept ==
    StreamInv /\ [StreamStep]_chat => StreamKept
<1> SUFFICES ASSUME StreamInv, [StreamStep]_chat
             PROVE  StreamKept
  OBVIOUS
<1>1. CASE AnswerOk \/ AnswerBusy \/ Resend
  BY <1>1, RequestStepKept
<1>2. CASE AnswerRefused
  BY <1>2, ErrorYieldKept DEF AnswerRefused
<1>3. CASE Breaks
  BY <1>3, BreaksKept
<1>4. CASE TextPiece
  BY <1>4, TextPieceKept
<1>5. CASE ReasonPiece
  BY <1>5, ReasonPieceKept
<1>6. CASE ErrorPiece
  BY <1>6, ErrorYieldKept DEF ErrorPiece
<1>7. CASE BodyEnds
  BY <1>7, BodyEndsKept
<1>8. CASE Yield
  BY <1>8, YieldKept
<1>9. CASE \E c \in Calls : WholeCall(c) \/ CallBegins(c) \/ CallCompletes(c) \/ BlockStops(c)
  BY <1>9, WholeCallKept, CallBeginsKept, CallCompletesKept, BlockStopsKept
<1>10. CASE UNCHANGED chat
  BY <1>10 DEF StreamKept, StreamInv, StreamTypeOK, RetryInv, NotOverInv, OpenInv, LastWordsInv,
               ErrorLeft, CallsLeft, Silent, NothingCut, Heard!vars
<1>11. QED
  BY <1>1, <1>2, <1>3, <1>4, <1>5, <1>6, <1>7, <1>8, <1>9, <1>10 DEF StreamStep

(* Whatever the server sends and wherever it stops, each adapter keeps to   *)
(* what the loop takes for granted (ChatStream): one done, last of all,     *)
(* nothing but it after an error, each call once, and tools asked for only  *)
(* with calls that are whole (runner.ts:437-500, translate-stream.ts).      *)
THEOREM StreamsImplementChatStream == StreamSpec => ImplementsChatStream
<1>1. StreamInit => StreamInv /\ Heard!Init
  BY StreamInitInv
<1>2. StreamInv /\ [StreamStep]_chat => StreamInv'
  BY StreamStepKept DEF StreamKept
<1>3. StreamInv /\ [StreamStep]_chat => [Heard!Next]_(Heard!vars)
  BY StreamStepKept DEF StreamKept
<1>4. QED
  BY <1>1, <1>2, <1>3, PTL DEF StreamSpec, ImplementsChatStream, Heard!Spec

-----------------------------------------------------------------------------
(* The connection to an MCP server                                         *)

MgrState == [rt : Runtime, client : [Ids -> Client], tools : Ids \cup {None}, loose : Nat]

LiveIn(m, c) == m.client[c].link # "gone"

BusyIn(m) ==
    \E c \in Ids : m.client[c].link \in {"starting", "stopping"} \/ m.client[c].listing

\* What is called connected has a process that has not ended.
PlaceInv(m) ==
    /\ m.rt.status = "connected" <=> m.rt.client # None
    /\ m.rt.client # None => m.client[m.rt.client].link \in {"up", "stopping"}

\* As long as nothing has crossed there is one process at most, which belongs to the record
\* in the map, and the record knows it from the answer to initialize to its end.
OneProcess(m) ==
    /\ \A c, d \in Ids : LiveIn(m, c) /\ LiveIn(m, d) => c = d
    /\ \A c \in Ids : LiveIn(m, c) => m.client[c].mine
    /\ \A c \in Ids : m.client[c].link = "starting" => m.rt.client = None
    /\ \A c \in Ids : m.client[c].link = "up" => m.rt.client = c
    /\ \A c \in Ids : m.client[c].link = "stopping" =>
          m.rt.client = IF m.client[c].then = "fail" THEN None ELSE c
    /\ \A c \in Ids : m.client[c].listing => m.client[c].link = "up"
    /\ m.tools # None => m.tools = m.rt.client /\ m.rt.listed

\* Who awaits the end of a process that is told to, and what the settings are by then.
Awaited(m, e) ==
    \A c \in Ids :
        /\ m.client[c].link \in {"starting", "up"} => m.client[c].then = "nobody"
        /\ m.client[c].link = "stopping" =>
              \/ m.client[c].then \in {"connect", "fail"}
              \/ m.client[c].then = "disable" /\ e = "disabled"
              \/ m.client[c].then = "remove" /\ e = "absent"

Served(m) ==
    \/ InPlaceUp(m)
    \/ m.rt.timer
    \/ m.loose > 0
    \/ \E c \in Ids : \/ m.client[c].link = "starting"
                      \/ m.client[c].link = "stopping" /\ m.client[c].then \in {"connect", "fail"}

QuietInv(m, e) == OneProcess(m) /\ Awaited(m, e) /\ (e = "enabled" => Served(m))

McpInv == TypeOK /\ PlaceInv(mgr) /\ (~crossed => QuietInv(mgr, entry))

Thens == {"nobody", "connect", "disable", "remove", "fail"}
Links == {"starting", "up", "stopping", "gone"}

LEMMA MgrFields ==
    ASSUME NEW m \in MgrState
    PROVE  /\ m.rt \in Runtime /\ m.client \in [Ids -> Client]
           /\ m.tools \in Ids \cup {None} /\ m.loose \in Nat
           /\ m.rt.client \in Ids \cup {None} /\ m.rt.status \in Statuses
           /\ m.rt.timer \in BOOLEAN /\ m.rt.listed \in BOOLEAN
           /\ \A c \in Ids :
                 /\ m.client[c] \in Client /\ m.client[c].link \in Links
                 /\ m.client[c].then \in Thens
                 /\ m.client[c].mine \in BOOLEAN /\ m.client[c].listing \in BOOLEAN
BY DEF MgrState, Runtime, Client, Thens, Links

LEMMA ClientFields ==
    ASSUME NEW m \in MgrState, NEW c \in Ids
    PROVE  m.client[c] \in Client
BY MgrFields

LEMMA NoneIsNoId == None \notin Ids
BY DEF None, Ids

LEMMA UnregisterFields ==
    ASSUME NEW m \in MgrState
    PROVE  /\ Unregister(m) \in MgrState
           /\ Unregister(m).rt.client = m.rt.client
           /\ Unregister(m).rt.status = m.rt.status
           /\ Unregister(m).rt.timer = m.rt.timer
           /\ Unregister(m).rt.listed = FALSE
           /\ Unregister(m).client = m.client
           /\ Unregister(m).tools = IF m.rt.listed THEN None ELSE m.tools
           /\ Unregister(m).loose = m.loose
BY DEF Unregister, MgrState, Runtime

LEMMA ReconnectFields ==
    ASSUME NEW m \in MgrState
    PROVE  /\ Reconnect(m) \in MgrState
           /\ Reconnect(m).rt.client = m.rt.client
           /\ Reconnect(m).rt.status = m.rt.status
           /\ Reconnect(m).rt.timer = TRUE
           /\ Reconnect(m).rt.listed = m.rt.listed
           /\ Reconnect(m).client = m.client
           /\ Reconnect(m).tools = m.tools
           /\ Reconnect(m).loose = IF m.rt.timer THEN m.loose + 1 ELSE m.loose
<1> DEFINE loose == IF m.rt.timer THEN m.loose + 1 ELSE m.loose
<1>1. loose \in Nat
  BY MgrFields
<1>2. Reconnect(m) = [m EXCEPT !.loose = loose, !.rt.timer = TRUE]
  BY DEF Reconnect
<1> HIDE DEF loose
<1>3. /\ Reconnect(m) \in MgrState /\ Reconnect(m).loose = loose
      /\ Reconnect(m).client = m.client /\ Reconnect(m).tools = m.tools
      /\ Reconnect(m).rt = [m.rt EXCEPT !.timer = TRUE]
  <2> DEFINE rt == [m.rt EXCEPT !.timer = TRUE]
  <2>1. rt \in Runtime
    BY MgrFields DEF Runtime
  <2>2. Reconnect(m) = [m EXCEPT !.loose = loose, !.rt = rt]
    BY <1>2 DEF MgrState
  <2> HIDE DEF rt
  <2>3. /\ Reconnect(m) \in MgrState /\ Reconnect(m).loose = loose
        /\ Reconnect(m).client = m.client /\ Reconnect(m).tools = m.tools
        /\ Reconnect(m).rt = rt
    BY <1>1, <2>1, <2>2 DEF MgrState
  <2> QED BY <2>3 DEF rt
<1>4. QED
  BY <1>3, MgrFields DEF Runtime, loose

LEMMA DroppedFields ==
    ASSUME NEW m \in MgrState, NEW c \in Ids
    PROVE  /\ Dropped(m, c) \in MgrState
           /\ m.rt.client # c => Dropped(m, c) = m
           /\ Dropped(m, c).client = m.client
           /\ m.rt.client = c =>
                 /\ Dropped(m, c).rt.client = None
                 /\ Dropped(m, c).rt.status = "disconnected"
                 /\ Dropped(m, c).rt.timer = TRUE
                 /\ Dropped(m, c).rt.listed = FALSE
                 /\ Dropped(m, c).tools = IF m.rt.listed THEN None ELSE m.tools
<1> DEFINE severed == [m EXCEPT !.rt.client = None, !.rt.status = "disconnected"]
<1>1. /\ severed \in MgrState /\ severed.rt.client = None /\ severed.rt.status = "disconnected"
      /\ severed.client = m.client /\ severed.rt.listed = m.rt.listed /\ severed.tools = m.tools
  BY DEF MgrState, Runtime, Statuses
<1>2. Dropped(m, c) = IF m.rt.client # c THEN m ELSE Reconnect(Unregister(severed))
  BY DEF Dropped
<1> HIDE DEF severed
<1> DEFINE bare == Unregister(severed)
<1>3. /\ bare \in MgrState
      /\ bare.rt.client = severed.rt.client /\ bare.rt.status = severed.rt.status
      /\ bare.rt.listed = FALSE /\ bare.client = severed.client
      /\ bare.tools = IF severed.rt.listed THEN None ELSE severed.tools
  BY <1>1, UnregisterFields
<1> HIDE DEF bare
<1>4. /\ Reconnect(bare) \in MgrState
      /\ Reconnect(bare).rt.client = bare.rt.client /\ Reconnect(bare).rt.status = bare.rt.status
      /\ Reconnect(bare).rt.timer = TRUE /\ Reconnect(bare).rt.listed = bare.rt.listed
      /\ Reconnect(bare).client = bare.client /\ Reconnect(bare).tools = bare.tools
  BY <1>3, ReconnectFields
<1>5. Dropped(m, c) = IF m.rt.client # c THEN m ELSE Reconnect(bare)
  BY <1>2 DEF bare
<1>6. QED
  BY <1>1, <1>3, <1>4, <1>5

LEMMA DeletedFields ==
    ASSUME NEW m \in MgrState
    PROVE  /\ Deleted(m) \in MgrState
           /\ Deleted(m).rt = NewRuntime
           /\ NewRuntime.client = None /\ NewRuntime.status = "disconnected"
           /\ NewRuntime.timer = FALSE /\ NewRuntime.listed = FALSE
           /\ Deleted(m).loose = IF m.rt.timer THEN m.loose + 1 ELSE m.loose
           /\ Deleted(m).tools = m.tools
           /\ \A c \in Ids : /\ Deleted(m).client[c].link = m.client[c].link
                             /\ Deleted(m).client[c].listing = m.client[c].listing
                             /\ Deleted(m).client[c].then = m.client[c].then
<1> DEFINE strangers == [c \in Ids |-> [m.client[c] EXCEPT !.mine = FALSE]]
           loose == IF m.rt.timer THEN m.loose + 1 ELSE m.loose
<1>1. \A c \in Ids : m.client[c] \in Client
  BY MgrFields
<1>2. \A c \in Ids : /\ [m.client[c] EXCEPT !.mine = FALSE] \in Client
                     /\ strangers[c].link = m.client[c].link
                     /\ strangers[c].listing = m.client[c].listing
                     /\ strangers[c].then = m.client[c].then
  BY <1>1 DEF Client
<1>3. strangers \in [Ids -> Client]
  BY <1>2
<1>4. loose \in Nat
  BY MgrFields
<1>5. /\ NewRuntime \in Runtime /\ NewRuntime.client = None /\ NewRuntime.status = "disconnected"
      /\ NewRuntime.timer = FALSE /\ NewRuntime.listed = FALSE
  BY DEF NewRuntime, Runtime, Statuses
<1>6. Deleted(m) = [m EXCEPT !.rt = NewRuntime, !.loose = loose, !.client = strangers]
  BY DEF Deleted
<1> HIDE DEF strangers, loose
<1>7. /\ Deleted(m) \in MgrState /\ Deleted(m).rt = NewRuntime /\ Deleted(m).loose = loose
      /\ Deleted(m).client = strangers /\ Deleted(m).tools = m.tools
  BY <1>3, <1>4, <1>5, <1>6 DEF MgrState
<1>8. QED
  BY <1>2, <1>5, <1>7 DEF loose

(* The client that is taken is one that nothing depends on.                *)
Spawning(m, mine, n, s) ==
    /\ n \in Ids /\ m.client[n].link = "gone" /\ m.tools # n
    /\ s \in MgrState
    /\ \A c \in Ids \ {n} : s.client[c] = m.client[c]
    /\ s.client[n].link = "starting" /\ s.client[n].listing = FALSE
    /\ s.client[n].mine = mine /\ s.client[n].then = "nobody"
    /\ s.rt.client = m.rt.client
    /\ s.rt.status = IF mine THEN "connecting" ELSE m.rt.status
    /\ s.rt.timer = m.rt.timer /\ s.rt.listed = m.rt.listed
    /\ s.tools = m.tools /\ s.loose = m.loose

LEMMA SpawnFields ==
    ASSUME NEW m \in MgrState, NEW mine \in BOOLEAN, Free(m) # {}
    PROVE  Spawning(m, mine, Min(Free(m)), Spawn(m, mine))
<1> DEFINE n == Min(Free(m))
           fresh == [link |-> "starting", listing |-> FALSE, mine |-> mine, then |-> "nobody"]
           status == IF mine THEN "connecting" ELSE m.rt.status
<1>1. Free(m) \in SUBSET Nat /\ Free(m) # {}
  BY DEF Free, Ids
<1>2. n \in Free(m)
  BY <1>1, MinIsLeast
<1>3. n \in Ids /\ m.client[n].link = "gone" /\ m.tools # n
  BY <1>2 DEF Free
<1>4. /\ fresh \in Client /\ fresh.link = "starting" /\ fresh.listing = FALSE
      /\ fresh.mine = mine /\ fresh.then = "nobody"
  BY DEF Client
<1>5. status \in Statuses
  BY MgrFields DEF Statuses
<1>6. Spawn(m, mine) = [m EXCEPT !.client[n] = fresh, !.rt.status = status]
  BY DEF Spawn
<1> HIDE DEF n, fresh, status
<1>7. /\ Spawn(m, mine) \in MgrState
      /\ Spawn(m, mine).client = [m.client EXCEPT ![n] = fresh]
      /\ Spawn(m, mine).rt = [m.rt EXCEPT !.status = status]
      /\ Spawn(m, mine).tools = m.tools /\ Spawn(m, mine).loose = m.loose
  <2> DEFINE client == [m.client EXCEPT ![n] = fresh]
             rt == [m.rt EXCEPT !.status = status]
  <2>1. client \in [Ids -> Client] /\ rt \in Runtime
    BY <1>3, <1>4, <1>5, MgrFields DEF Runtime
  <2>2. Spawn(m, mine) = [m EXCEPT !.client = client, !.rt = rt]
    BY <1>6 DEF MgrState
  <2> HIDE DEF client, rt
  <2>3. /\ Spawn(m, mine) \in MgrState /\ Spawn(m, mine).client = client
        /\ Spawn(m, mine).rt = rt
        /\ Spawn(m, mine).tools = m.tools /\ Spawn(m, mine).loose = m.loose
    BY <2>1, <2>2 DEF MgrState
  <2>4. QED
    BY <2>3 DEF client, rt
<1>8. /\ \A c \in Ids \ {n} : Spawn(m, mine).client[c] = m.client[c]
      /\ Spawn(m, mine).client[n] = fresh
  BY <1>3, <1>7, MgrFields
<1>9. /\ Spawn(m, mine).rt.client = m.rt.client /\ Spawn(m, mine).rt.status = status
      /\ Spawn(m, mine).rt.timer = m.rt.timer /\ Spawn(m, mine).rt.listed = m.rt.listed
  BY <1>7, MgrFields DEF Runtime
<1>10. Spawning(m, mine, n, Spawn(m, mine))
  BY <1>3, <1>4, <1>7, <1>8, <1>9 DEF Spawning, status
<1>11. QED
  BY <1>10 DEF n

(* Client c is told to stop, and for what.                                 *)
Stopping(m, c, then, s) ==
    /\ s \in MgrState
    /\ \A d \in Ids \ {c} : s.client[d] = m.client[d]
    /\ s.client[c].link = "stopping" /\ s.client[c].listing = m.client[c].listing
    /\ s.client[c].mine = TRUE /\ s.client[c].then = then
    /\ s.rt = m.rt /\ s.tools = m.tools /\ s.loose = m.loose

LEMMA StopFields ==
    ASSUME NEW m \in MgrState, NEW c \in Ids, NEW then \in Thens
    PROVE  Stopping(m, c, then, Stop(m, c, then))
<1> DEFINE told == [m.client[c] EXCEPT !.link = "stopping", !.mine = TRUE, !.then = then]
<1>1. /\ told \in Client /\ told.link = "stopping" /\ told.mine = TRUE /\ told.then = then
      /\ told.listing = m.client[c].listing
  <2>1. m.client[c] \in Client
    BY ClientFields
  <2>2. QED
    BY <2>1 DEF Client, Thens
<1>2. Stop(m, c, then) = [m EXCEPT !.client[c] = told]
  BY DEF Stop
<1> HIDE DEF told
<1>3. /\ Stop(m, c, then) \in MgrState
      /\ Stop(m, c, then).client = [m.client EXCEPT ![c] = told]
      /\ Stop(m, c, then).rt = m.rt /\ Stop(m, c, then).tools = m.tools
      /\ Stop(m, c, then).loose = m.loose
  BY <1>1, <1>2 DEF MgrState
<1>4. QED
  BY <1>1, <1>3, MgrFields DEF Stopping

LEMMA FailedFields ==
    ASSUME NEW m \in MgrState, NEW mine \in BOOLEAN
    PROVE  /\ Failed(m, mine) \in MgrState
           /\ Failed(m, mine).client = m.client /\ Failed(m, mine).tools = m.tools
           /\ Failed(m, mine).rt.client = IF mine THEN None ELSE m.rt.client
           /\ Failed(m, mine).rt.status = IF mine THEN "error" ELSE m.rt.status
           /\ Failed(m, mine).rt.timer = TRUE /\ Failed(m, mine).rt.listed = m.rt.listed
<1> DEFINE f == IF mine THEN [m EXCEPT !.rt.status = "error", !.rt.client = None] ELSE m
<1>1. /\ f \in MgrState /\ f.client = m.client /\ f.tools = m.tools
      /\ f.rt.client = IF mine THEN None ELSE m.rt.client
      /\ f.rt.status = IF mine THEN "error" ELSE m.rt.status
      /\ f.rt.listed = m.rt.listed
  BY DEF MgrState, Runtime, Statuses
<1>2. Failed(m, mine) = Reconnect(f)
  BY DEF Failed
<1> HIDE DEF f
<1>3. /\ Reconnect(f) \in MgrState
      /\ Reconnect(f).rt.client = f.rt.client /\ Reconnect(f).rt.status = f.rt.status
      /\ Reconnect(f).rt.timer = TRUE /\ Reconnect(f).rt.listed = f.rt.listed
      /\ Reconnect(f).client = f.client /\ Reconnect(f).tools = f.tools
  BY <1>1, ReconnectFields
<1>4. QED
  BY <1>1, <1>2, <1>3

(* Only these parts of the manager's state matter to what is in place.     *)
SamePlace(m, s) ==
    /\ s.client = m.client /\ s.tools = m.tools
    /\ s.rt.client = m.rt.client /\ s.rt.status = m.rt.status /\ s.rt.listed = m.rt.listed

LEMMA SamePlaceCarries ==
    ASSUME NEW m, NEW s, SamePlace(m, s)
    PROVE  /\ PlaceInv(m) => PlaceInv(s)
           /\ OneProcess(m) => OneProcess(s)
           /\ \A e : Awaited(m, e) => Awaited(s, e)
           /\ BusyIn(s) = BusyIn(m) /\ InPlaceUp(s) = InPlaceUp(m) /\ Free(s) = Free(m)
BY DEF SamePlace, PlaceInv, OneProcess, LiveIn, Awaited, BusyIn, InPlaceUp, Free

LEMMA TimerCleared ==
    ASSUME NEW m \in MgrState
    PROVE  LET s == [m EXCEPT !.rt.timer = FALSE] IN
           s \in MgrState /\ SamePlace(m, s) /\ s.rt.timer = FALSE /\ s.loose = m.loose
BY DEF MgrState, Runtime, SamePlace

(* Nothing under way: the one process that may be there is up and in place. *)
LEMMA IdlePlace ==
    ASSUME NEW m \in MgrState, PlaceInv(m), OneProcess(m), ~BusyIn(m)
    PROVE  /\ \A c \in Ids : m.client[c].link \in {"up", "gone"} /\ ~m.client[c].listing
           /\ \A c \in Ids : m.client[c].link = "up" => m.rt.client = c
           /\ InPlaceUp(m) => m.rt.client \in Ids /\ m.client[m.rt.client].link = "up"
           /\ ~InPlaceUp(m) =>
                 /\ m.rt.client = None /\ m.tools = None
                 /\ \A c \in Ids : m.client[c].link = "gone"
<1>1. \A c \in Ids : m.client[c].link \in {"up", "gone"} /\ ~m.client[c].listing
  BY MgrFields DEF BusyIn, Links
<1>2. \A c \in Ids : m.client[c].link = "up" => m.rt.client = c
  BY DEF OneProcess
<1>3. InPlaceUp(m) => m.rt.client \in Ids /\ m.client[m.rt.client].link = "up"
  BY MgrFields DEF InPlaceUp
<1>4. ASSUME ~InPlaceUp(m)
      PROVE  m.rt.client = None
  BY <1>1, <1>4, MgrFields DEF InPlaceUp, PlaceInv
<1>5. ASSUME ~InPlaceUp(m)
      PROVE  m.tools = None /\ \A c \in Ids : m.client[c].link = "gone"
  BY <1>1, <1>2, <1>4, <1>5, NoneIsNoId DEF OneProcess
<1>6. QED
  BY <1>1, <1>2, <1>3, <1>4, <1>5

(* connectServer(): with nothing under way, one process at most is left.   *)
LEMMA ConnectServerKeeps ==
    ASSUME NEW m \in MgrState, PlaceInv(m), Free(m) # {}
    PROVE  LET s == ConnectServer(m) IN
           /\ s \in MgrState
           /\ PlaceInv(s)
           /\ OneProcess(m) /\ ~BusyIn(m) => \A f : QuietInv(s, f)
<1> DEFINE cleared == [m EXCEPT !.rt.timer = FALSE]
<1>1. /\ cleared \in MgrState /\ SamePlace(m, cleared)
  BY TimerCleared
<1>2. ConnectServer(m) = IF InPlaceUp(m) THEN Stop(cleared, m.rt.client, "connect")
                         ELSE Spawn([cleared EXCEPT !.rt.client = None], TRUE)
  BY DEF ConnectServer
<1> HIDE DEF cleared
<1>3. CASE InPlaceUp(m)
  <2> DEFINE c == m.rt.client
             then == "connect"
             s == Stop(cleared, c, then)
  <2>1. c \in Ids /\ m.client[c].link = "up"
    BY <1>3, MgrFields DEF InPlaceUp
  <2>2. "connect" \in Thens
    BY DEF Thens
  <2> HIDE DEF c
  <2>3. /\ s \in MgrState
        /\ \A d \in Ids \ {c} : s.client[d] = cleared.client[d]
        /\ s.client[c].link = "stopping" /\ s.client[c].listing = cleared.client[c].listing
        /\ s.client[c].mine = TRUE /\ s.client[c].then = "connect"
        /\ s.rt = cleared.rt /\ s.tools = cleared.tools
    <3>1. cleared \in MgrState /\ c \in Ids /\ then \in Thens
      BY <1>1, <2>1, <2>2
    <3>2. Stopping(cleared, c, then, s)
      BY <3>1, StopFields
    <3>3. QED
      BY <3>2 DEF Stopping
  <2> HIDE DEF s
  <2>4. /\ s \in MgrState
        /\ \A d \in Ids \ {c} : s.client[d] = m.client[d]
        /\ s.client[c].link = "stopping" /\ s.client[c].listing = m.client[c].listing
        /\ s.client[c].mine = TRUE /\ s.client[c].then = "connect"
        /\ s.rt.client = c /\ s.rt.status = m.rt.status /\ s.rt.listed = m.rt.listed
        /\ s.tools = m.tools
    BY <1>1, <2>3 DEF SamePlace, c
  <2>5. PlaceInv(s)
    BY <2>1, <2>4 DEF PlaceInv, c
  <2>6. ASSUME NEW f, OneProcess(m), ~BusyIn(m)
        PROVE  QuietInv(s, f)
    <3>1. /\ \A d \in Ids : m.client[d].link \in {"up", "gone"} /\ ~m.client[d].listing
          /\ \A d \in Ids : m.client[d].link = "up" => d = c
      BY <2>6, IdlePlace DEF c
    <3>2. /\ \A d \in Ids \ {c} : s.client[d].link = "gone" /\ ~s.client[d].listing
          /\ ~s.client[c].listing
      BY <2>1, <2>4, <3>1
    <3>3. m.tools # None => m.tools = c /\ m.rt.listed
      BY <2>6 DEF OneProcess, c
    <3>4. OneProcess(s)
      BY <2>1, <2>4, <3>2, <3>3 DEF OneProcess, LiveIn
    <3>5. Awaited(s, f)
      BY <2>4, <3>2 DEF Awaited
    <3>6. Served(s)
      BY <2>1, <2>4 DEF Served
    <3>7. QED
      BY <3>4, <3>5, <3>6 DEF QuietInv
  <2>7. ConnectServer(m) = s
    BY <1>2, <1>3 DEF s, c
  <2>8. QED
    BY <2>4, <2>5, <2>6, <2>7
<1>4. CASE ~InPlaceUp(m)
  <2> DEFINE bare == [cleared EXCEPT !.rt.client = None]
             n == Min(Free(bare))
             s == Spawn(bare, TRUE)
  <2>1. /\ bare \in MgrState /\ bare.rt.client = None /\ bare.client = cleared.client
        /\ bare.tools = cleared.tools /\ bare.rt.listed = cleared.rt.listed
    BY <1>1 DEF MgrState, Runtime
  <2>2. Free(bare) # {}
    BY <1>1, <2>1 DEF SamePlace, Free
  <2> HIDE DEF bare
  <2>3. /\ n \in Ids /\ s \in MgrState
        /\ \A c \in Ids \ {n} : s.client[c] = bare.client[c]
        /\ s.client[n].link = "starting" /\ s.client[n].listing = FALSE
        /\ s.client[n].mine = TRUE /\ s.client[n].then = "nobody"
        /\ s.rt.client = bare.rt.client /\ s.rt.status = "connecting"
        /\ s.rt.listed = bare.rt.listed /\ s.tools = bare.tools
    <3>1. bare \in MgrState /\ TRUE \in BOOLEAN
      BY <2>1
    <3>2. Spawning(bare, TRUE, n, s)
      BY <2>2, <3>1, SpawnFields
    <3>3. QED
      BY <3>2 DEF Spawning
  <2>4. ConnectServer(m) = s
    BY <1>2, <1>4 DEF bare
  <2> HIDE DEF s, n
  <2>5. /\ \A c \in Ids \ {n} : s.client[c] = m.client[c]
        /\ s.rt.client = None /\ s.tools = m.tools
    BY <1>1, <2>1, <2>3 DEF SamePlace
  <2>6. PlaceInv(s)
    BY <2>3, <2>5 DEF PlaceInv
  <2>7. ASSUME NEW f, OneProcess(m), ~BusyIn(m)
        PROVE  QuietInv(s, f)
    <3>1. /\ m.tools = None
          /\ \A c \in Ids : m.client[c].link = "gone" /\ ~m.client[c].listing
      BY <1>4, <2>7, IdlePlace
    <3>2. \A c \in Ids \ {n} : s.client[c].link = "gone" /\ ~s.client[c].listing
      BY <2>5, <3>1
    <3>3. OneProcess(s)
      BY <2>3, <2>5, <3>1, <3>2 DEF OneProcess, LiveIn
    <3>4. Awaited(s, f)
      BY <2>3, <3>2 DEF Awaited
    <3>5. Served(s)
      BY <2>3 DEF Served
    <3>6. QED
      BY <3>3, <3>4, <3>5 DEF QuietInv
  <2>8. QED
    BY <2>3, <2>4, <2>6, <2>7
<1>5. QED
  BY <1>3, <1>4

(* A process has ended: what is in place is severed, the others are untouched.  *)
Ended(m, c) ==
    Dropped([m EXCEPT !.client[c] = [m.client[c] EXCEPT !.link = "gone",
                 !.listing = FALSE, !.mine = FALSE, !.then = "nobody"]], c)

(* No process at all, and nothing in the registry.                          *)
Empty(m) ==
    /\ m.rt.client = None /\ m.tools = None
    /\ \A c \in Ids : m.client[c].link = "gone" /\ ~m.client[c].listing

LEMMA EndedKeeps ==
    ASSUME NEW m \in MgrState, PlaceInv(m), NEW c \in Ids, LiveIn(m, c)
    PROVE  LET s == Ended(m, c) IN
           /\ s \in MgrState
           /\ PlaceInv(s)
           /\ OneProcess(m) => Empty(s)
           /\ m.rt.client = c => s.rt.timer
<1> DEFINE gone == [m.client[c] EXCEPT !.link = "gone", !.listing = FALSE, !.mine = FALSE,
                                       !.then = "nobody"]
           q == [m EXCEPT !.client[c] = gone]
           s == Ended(m, c)
<1>1. gone \in Client /\ gone.link = "gone" /\ gone.listing = FALSE
  <2>1. c \in Ids /\ m.client[c] \in Client
    BY ClientFields
  <2>2. QED
    BY <2>1 DEF Client
<1>2. s = Dropped(q, c)
  BY DEF Ended
<1> HIDE DEF gone, s
<1>3. /\ q \in MgrState /\ q.client = [m.client EXCEPT ![c] = gone]
      /\ q.rt = m.rt /\ q.tools = m.tools
  BY <1>1 DEF MgrState
<1>4. /\ \A d \in Ids \ {c} : q.client[d] = m.client[d]
      /\ q.client[c].link = "gone" /\ q.client[c].listing = FALSE
  BY <1>1, <1>3, MgrFields
<1> HIDE DEF q
<1>5. /\ Dropped(q, c) \in MgrState
      /\ q.rt.client # c => Dropped(q, c) = q
      /\ Dropped(q, c).client = q.client
      /\ q.rt.client = c =>
            /\ Dropped(q, c).rt.client = None
            /\ Dropped(q, c).rt.status = "disconnected"
            /\ Dropped(q, c).rt.timer = TRUE
            /\ Dropped(q, c).rt.listed = FALSE
            /\ Dropped(q, c).tools = IF q.rt.listed THEN None ELSE q.tools
  BY <1>3, DroppedFields
<1>6. /\ s \in MgrState /\ s.client = q.client
      /\ m.rt.client # c => s.rt = m.rt /\ s.tools = m.tools
      /\ m.rt.client = c => /\ s.rt.client = None /\ s.rt.status = "disconnected"
                            /\ s.rt.timer = TRUE
                            /\ s.tools = IF m.rt.listed THEN None ELSE m.tools
  BY <1>2, <1>3, <1>5
<1>7. /\ \A d \in Ids \ {c} : s.client[d] = m.client[d]
      /\ s.client[c].link = "gone" /\ s.client[c].listing = FALSE
  BY <1>4, <1>6
<1>8. PlaceInv(s)
  <2>1. CASE m.rt.client = c
    BY <1>6, <2>1 DEF PlaceInv
  <2>2. CASE m.rt.client # c
    <3>1. m.rt.client # None => m.rt.client \in Ids \ {c}
      BY <2>2, MgrFields
    <3>2. QED
      BY <1>6, <1>7, <2>2, <3>1 DEF PlaceInv
  <2>3. QED
    BY <2>1, <2>2
<1>9. ASSUME OneProcess(m)
      PROVE  Empty(s)
  <2>1. \A d \in Ids \ {c} : m.client[d].link = "gone" /\ ~m.client[d].listing
    BY <1>9 DEF OneProcess, LiveIn
  <2>2. m.rt.client \in {c, None}
    BY <2>1, MgrFields DEF PlaceInv
  <2>3. m.tools # None => m.tools = m.rt.client /\ m.rt.listed
    BY <1>9 DEF OneProcess
  <2>4. s.rt.client = None /\ s.tools = None
    BY <1>6, <2>2, <2>3, NoneIsNoId
  <2>5. QED
    BY <1>7, <2>1, <2>4 DEF Empty
<1>10. QED
  BY <1>6, <1>8, <1>9 DEF s

(* What goes on when a process has ended: no second process comes of it.    *)
LEMMA ResumedKeeps ==
    ASSUME NEW m \in MgrState, PlaceInv(m), Free(m) # {},
           NEW then \in Thens, NEW mine \in BOOLEAN
    PROVE  LET s == Resumed(m, then, mine) IN
           /\ s \in MgrState
           /\ PlaceInv(s)
           /\ Empty(m) /\ mine =>
                 /\ OneProcess(s)
                 /\ \A e : Awaited(s, e)
                 /\ then \in {"connect", "fail"} \/ (then = "nobody" /\ m.rt.timer) => Served(s)
<1> DEFINE s == Resumed(m, then, mine)
<1>1. then \in {"nobody", "connect", "disable", "remove", "fail"}
  BY DEF Thens
<1>2. CASE then = "nobody"
  <2>1. s = m
    BY <1>2 DEF Resumed
  <2>2. QED
    BY <1>2, <2>1, NoneIsNoId DEF Empty, OneProcess, LiveIn, Awaited, Served
<1>3. CASE then = "connect"
  <2> DEFINE bare == IF mine THEN [m EXCEPT !.rt.client = None] ELSE m
             n == Min(Free(bare))
             t == Spawn(bare, mine)
  <2>1. s = t
    BY <1>3 DEF Resumed
  <2>2. /\ bare \in MgrState /\ bare.rt.client = IF mine THEN None ELSE m.rt.client
        /\ bare.client = m.client /\ bare.tools = m.tools
        /\ bare.rt.status = m.rt.status
    BY DEF MgrState, Runtime
  <2>3. Free(bare) # {}
    BY <2>2 DEF Free
  <2> HIDE DEF bare
  <2>4. /\ n \in Ids /\ bare.client[n].link = "gone" /\ t \in MgrState
        /\ \A c \in Ids \ {n} : t.client[c] = bare.client[c]
        /\ t.client[n].link = "starting" /\ t.client[n].listing = FALSE
        /\ t.client[n].mine = mine /\ t.client[n].then = "nobody"
        /\ t.rt.client = bare.rt.client
        /\ t.rt.status = IF mine THEN "connecting" ELSE bare.rt.status
        /\ t.tools = bare.tools
    <3>1. bare \in MgrState /\ mine \in BOOLEAN /\ Free(bare) # {}
      BY <2>2, <2>3
    <3>2. Spawning(bare, mine, n, t)
      BY <3>1, SpawnFields
    <3>3. QED
      BY <3>2 DEF Spawning
  <2> HIDE DEF t, n
  <2>5. PlaceInv(t)
    <3>1. CASE mine
      BY <2>2, <2>4, <3>1 DEF PlaceInv
    <3>2. CASE ~mine
      <4>1. m.rt.client # None => m.rt.client \in Ids \ {n}
        BY <2>2, <2>4, MgrFields DEF PlaceInv
      <4>2. QED
        BY <2>2, <2>4, <3>2, <4>1 DEF PlaceInv
    <3>3. QED
      BY <3>1, <3>2
  <2>6. ASSUME Empty(m), mine
        PROVE  OneProcess(t) /\ (\A e : Awaited(t, e)) /\ Served(t)
    <3>1. /\ \A c \in Ids \ {n} : t.client[c].link = "gone" /\ ~t.client[c].listing
          /\ t.rt.client = None /\ t.tools = None
      BY <2>2, <2>4, <2>6 DEF Empty
    <3>2. OneProcess(t)
      BY <2>4, <2>6, <3>1 DEF OneProcess, LiveIn
    <3>3. \A e : Awaited(t, e)
      BY <2>4, <3>1 DEF Awaited
    <3>4. Served(t)
      BY <2>4 DEF Served
    <3>5. QED
      BY <3>2, <3>3, <3>4
  <2>7. QED
    BY <2>1, <2>4, <2>5, <2>6
<1>4. CASE then = "disable"
  <2>1. /\ s \in MgrState /\ s.client = m.client /\ s.tools = m.tools
        /\ s.rt.client = IF mine THEN None ELSE m.rt.client
        /\ s.rt.status = IF mine THEN "disabled" ELSE m.rt.status
    BY <1>4 DEF Resumed, MgrState, Runtime, Statuses
  <2> HIDE DEF s
  <2>2. PlaceInv(s)
    BY <2>1 DEF PlaceInv
  <2>3. Empty(m) /\ mine => OneProcess(s) /\ \A e : Awaited(s, e)
    BY <2>1, NoneIsNoId DEF Empty, OneProcess, LiveIn, Awaited
  <2>4. QED
    BY <1>4, <2>1, <2>2, <2>3 DEF s
<1>5. CASE then = "remove"
  <2>1. s = Deleted(m)
    BY <1>5 DEF Resumed
  <2>2. /\ Deleted(m) \in MgrState /\ Deleted(m).rt.client = None
        /\ Deleted(m).rt.status = "disconnected" /\ Deleted(m).tools = m.tools
        /\ \A c \in Ids : /\ Deleted(m).client[c].link = m.client[c].link
                          /\ Deleted(m).client[c].listing = m.client[c].listing
                          /\ Deleted(m).client[c].then = m.client[c].then
    BY DeletedFields
  <2> HIDE DEF s
  <2>3. PlaceInv(s)
    BY <2>1, <2>2 DEF PlaceInv
  <2>4. Empty(m) /\ mine => OneProcess(s) /\ \A e : Awaited(s, e)
    BY <2>1, <2>2, NoneIsNoId DEF Empty, OneProcess, LiveIn, Awaited
  <2>5. QED
    BY <1>5, <2>1, <2>2, <2>3, <2>4 DEF s
<1>6. CASE then = "fail"
  <2>1. s = Failed(m, mine)
    BY <1>6 DEF Resumed
  <2>2. /\ Failed(m, mine) \in MgrState
        /\ Failed(m, mine).client = m.client /\ Failed(m, mine).tools = m.tools
        /\ Failed(m, mine).rt.client = IF mine THEN None ELSE m.rt.client
        /\ Failed(m, mine).rt.status = IF mine THEN "error" ELSE m.rt.status
        /\ Failed(m, mine).rt.timer = TRUE
    BY FailedFields
  <2> HIDE DEF s
  <2>3. PlaceInv(s)
    BY <2>1, <2>2 DEF PlaceInv
  <2>4. Empty(m) /\ mine => OneProcess(s) /\ (\A e : Awaited(s, e)) /\ Served(s)
    BY <2>1, <2>2, NoneIsNoId DEF Empty, OneProcess, LiveIn, Awaited, Served
  <2>5. QED
    BY <1>6, <2>1, <2>2, <2>3, <2>4 DEF s
<1>7. QED
  BY <1>1, <1>2, <1>3, <1>4, <1>5, <1>6

(* A step of the manager, from what becomes of its state.                   *)
LEMMA MgrFacts ==
    ASSUME McpInv
    PROVE  /\ mgr \in MgrState /\ PlaceInv(mgr) /\ crossed \in BOOLEAN
           /\ entry \in {"absent", "enabled", "disabled"} /\ edits \in 0 .. MaxEdits
           /\ ~crossed => QuietInv(mgr, entry)
BY DEF McpInv, TypeOK, MgrState

LEMMA BecomesKeeps ==
    ASSUME McpInv, NEW m \in MgrState, Becomes(m), PlaceInv(m),
           entry' \in {"absent", "enabled", "disabled"}, edits' \in 0 .. MaxEdits,
           crossed' \in BOOLEAN, ~crossed' => QuietInv(m, entry')
    PROVE  McpInv'
<1>1. mgr' = m /\ m.loose \in 0 .. MaxTimers
  BY MgrFields, McpAssumption DEF Becomes
<1>2. m \in [rt : Runtime, client : [Ids -> Client], tools : Ids \cup {None},
             loose : 0 .. MaxTimers]
  BY <1>1 DEF MgrState
<1>3. TypeOK'
  BY <1>1, <1>2 DEF TypeOK
<1>4. PlaceInv(mgr)' /\ (~crossed' => QuietInv(mgr, entry)')
  BY <1>1
<1>5. QED
  BY <1>3, <1>4 DEF McpInv

LEMMA BusyIsIn == Busy = BusyIn(mgr)
BY DEF Busy, BusyIn

LEMMA BeginsKeeps ==
    ASSUME McpInv, NEW m \in MgrState, Begins(m), PlaceInv(m),
           entry' \in {"absent", "enabled", "disabled"}, edits' \in 0 .. MaxEdits,
           QuietInv(mgr, entry) /\ ~BusyIn(mgr) => QuietInv(m, entry')
    PROVE  McpInv'
<1>1. Becomes(m) /\ crossed' = (crossed \/ BusyIn(mgr))
  BY BusyIsIn DEF Begins
<1>2. crossed' \in BOOLEAN /\ (~crossed' => QuietInv(m, entry'))
  BY <1>1, MgrFacts
<1>3. QED
  BY <1>1, <1>2, BecomesKeeps

LEMMA SettingsKeeps ==
    ASSUME McpInv, NEW m \in MgrState, NEW e \in {"absent", "enabled", "disabled"},
           Settings(e, m), PlaceInv(m),
           QuietInv(mgr, entry) /\ ~BusyIn(mgr) => QuietInv(m, e)
    PROVE  McpInv'
<1>1. Begins(m) /\ entry' = e
  BY DEF Settings
<1>2. edits' \in 0 .. MaxEdits
  BY MgrFacts, McpAssumption DEF Settings
<1>3. QED
  BY <1>1, <1>2, BeginsKeeps

LEMMA ConnectingKeeps ==
    ASSUME McpInv, AddServer \/ EnableServer
    PROVE  McpInv'
<1>1. Settings("enabled", ConnectServer(mgr)) /\ Free(mgr) # {}
  BY DEF AddServer, EnableServer, Settings, Begins
<1>2. mgr \in MgrState /\ PlaceInv(mgr)
  BY MgrFacts
<1>3. LET s == ConnectServer(mgr) IN
      /\ s \in MgrState
      /\ PlaceInv(s)
      /\ OneProcess(mgr) /\ ~BusyIn(mgr) => \A f : QuietInv(s, f)
  BY <1>1, <1>2, ConnectServerKeeps, Zenon
<1> DEFINE e == "enabled"
           s == ConnectServer(mgr)
<1>4. Settings(e, s) /\ e \in {"absent", "enabled", "disabled"}
  BY <1>1
<1>5. /\ s \in MgrState /\ PlaceInv(s)
      /\ QuietInv(mgr, entry) /\ ~BusyIn(mgr) => QuietInv(s, e)
  BY <1>3 DEF QuietInv
<1> HIDE DEF e, s
<1>6. QED
  BY <1>4, <1>5, SettingsKeeps

(* The tools are taken out, and a timer that was armed is cleared.          *)
LEMMA QuietFields ==
    ASSUME McpInv,
           NEW quiet \in {Unregister([mgr EXCEPT !.rt.timer = FALSE]),
                          [Unregister(mgr) EXCEPT !.rt.timer = FALSE]}
    PROVE  /\ quiet \in MgrState
           /\ quiet.client = mgr.client /\ quiet.rt.client = mgr.rt.client
           /\ quiet.rt.status = mgr.rt.status
           /\ quiet.tools = IF mgr.rt.listed THEN None ELSE mgr.tools
<1> DEFINE still == [mgr EXCEPT !.rt.timer = FALSE]
           bare == Unregister(mgr)
<1>1. mgr \in MgrState
  BY MgrFacts
<1>2. still \in MgrState /\ SamePlace(mgr, still)
  BY <1>1, TimerCleared
<1>3. CASE quiet = Unregister(still)
  <2> HIDE DEF still
  <2>1. /\ Unregister(still) \in MgrState
        /\ Unregister(still).rt.client = still.rt.client
        /\ Unregister(still).rt.status = still.rt.status
        /\ Unregister(still).client = still.client
        /\ Unregister(still).tools = IF still.rt.listed THEN None ELSE still.tools
    BY <1>2, UnregisterFields
  <2>2. QED
    BY <1>2, <1>3, <2>1 DEF SamePlace
<1>4. CASE quiet = [bare EXCEPT !.rt.timer = FALSE]
  <2>1. /\ bare \in MgrState
        /\ bare.rt.client = mgr.rt.client /\ bare.rt.status = mgr.rt.status
        /\ bare.client = mgr.client
        /\ bare.tools = IF mgr.rt.listed THEN None ELSE mgr.tools
    BY <1>1, UnregisterFields
  <2> HIDE DEF bare
  <2>2. quiet \in MgrState /\ SamePlace(bare, quiet)
    BY <1>4, <2>1, TimerCleared
  <2>3. QED
    BY <2>1, <2>2 DEF SamePlace
<1>5. QED
  BY <1>3, <1>4

(* A server that is switched off or taken out while it is up: the end of its *)
(* process is awaited, and its tools are gone.                               *)
LEMMA StoppingKeeps ==
    ASSUME McpInv, InPlaceUp(mgr),
           NEW quiet \in MgrState,
           quiet.client = mgr.client, quiet.rt.client = mgr.rt.client,
           quiet.rt.status = mgr.rt.status,
           quiet.tools = IF mgr.rt.listed THEN None ELSE mgr.tools,
           NEW then \in {"disable", "remove"}
    PROVE  LET s == Stop(quiet, mgr.rt.client, then) IN
           /\ s \in MgrState
           /\ PlaceInv(s)
           /\ QuietInv(mgr, entry) /\ ~BusyIn(mgr) =>
                QuietInv(s, IF then = "disable" THEN "disabled" ELSE "absent")
<1> DEFINE c == mgr.rt.client
           s == Stop(quiet, c, then)
           e == IF then = "disable" THEN "disabled" ELSE "absent"
<1>1. mgr \in MgrState /\ PlaceInv(mgr)
  BY MgrFacts
<1>2. c \in Ids /\ mgr.client[c].link = "up" /\ then \in Thens
  BY <1>1, MgrFields DEF InPlaceUp, Thens
<1> HIDE DEF c
<1>3. /\ s \in MgrState
      /\ \A d \in Ids \ {c} : s.client[d] = quiet.client[d]
      /\ s.client[c].link = "stopping" /\ s.client[c].listing = quiet.client[c].listing
      /\ s.client[c].mine = TRUE /\ s.client[c].then = then
      /\ s.rt = quiet.rt /\ s.tools = quiet.tools
  <2>1. quiet \in MgrState /\ c \in Ids /\ then \in Thens
    BY <1>2
  <2>2. Stopping(quiet, c, then, s)
    BY <2>1, StopFields
  <2>3. QED
    BY <2>2 DEF Stopping
<1> HIDE DEF s
<1>4. /\ \A d \in Ids \ {c} : s.client[d] = mgr.client[d]
      /\ s.client[c].listing = mgr.client[c].listing
      /\ s.rt.client = c /\ s.rt.status = mgr.rt.status
      /\ s.tools = IF mgr.rt.listed THEN None ELSE mgr.tools
  BY <1>3 DEF c
<1>5. PlaceInv(s)
  BY <1>1, <1>2, <1>3, <1>4 DEF PlaceInv, c
<1>6. ASSUME QuietInv(mgr, entry), ~BusyIn(mgr)
      PROVE  QuietInv(s, e)
  <2>1. /\ \A d \in Ids : mgr.client[d].link \in {"up", "gone"} /\ ~mgr.client[d].listing
        /\ \A d \in Ids : mgr.client[d].link = "up" => d = c
    BY <1>1, <1>6, IdlePlace DEF QuietInv, c
  <2>2. /\ \A d \in Ids \ {c} : s.client[d].link = "gone" /\ ~s.client[d].listing
        /\ ~s.client[c].listing
    BY <1>2, <1>4, <2>1
  <2>3. mgr.tools # None => mgr.rt.listed
    BY <1>6 DEF QuietInv, OneProcess
  <2>4. s.tools = None
    BY <1>4, <2>3
  <2>5. OneProcess(s)
    BY <1>2, <1>3, <1>4, <2>2, <2>4 DEF OneProcess, LiveIn
  <2>6. Awaited(s, e)
    BY <1>3, <2>2 DEF Awaited
  <2>7. e # "enabled"
    OBVIOUS
  <2>8. QED
    BY <2>5, <2>6, <2>7 DEF QuietInv
<1>7. QED
  BY <1>3, <1>5, <1>6 DEF s, c

(* Nothing is up: what is left is empty when nothing was under way.         *)
LEMMA EmptyIsQuiet ==
    ASSUME NEW s, NEW e \in {"disabled", "absent"},
           \A c \in Ids : s.client[c].link = "gone" /\ ~s.client[c].listing,
           s.tools = None
    PROVE  QuietInv(s, e)
BY DEF QuietInv, OneProcess, LiveIn, Awaited

LEMMA DisableServerKeeps ==
    ASSUME McpInv, DisableServer
    PROVE  McpInv'
<1> DEFINE quiet == Unregister([mgr EXCEPT !.rt.timer = FALSE])
           off == [quiet EXCEPT !.rt.client = None, !.rt.status = "disabled"]
           e == "disabled"
           then == "disable"
<1>1. /\ quiet \in MgrState
      /\ quiet.client = mgr.client /\ quiet.rt.client = mgr.rt.client
      /\ quiet.rt.status = mgr.rt.status
      /\ quiet.tools = IF mgr.rt.listed THEN None ELSE mgr.tools
  BY QuietFields, Zenon
<1>2. Settings(e, IF InPlaceUp(mgr) THEN Stop(quiet, mgr.rt.client, then) ELSE off)
  BY DEF DisableServer
<1>3. e \in {"absent", "enabled", "disabled"} /\ e \in {"disabled", "absent"}
      /\ then \in {"disable", "remove"}
      /\ e = IF then = "disable" THEN "disabled" ELSE "absent"
  OBVIOUS
<1> HIDE DEF quiet
<1>4. CASE InPlaceUp(mgr)
  <2> DEFINE s == Stop(quiet, mgr.rt.client, then)
  <2> HIDE DEF then
  <2>1. /\ s \in MgrState /\ PlaceInv(s)
        /\ QuietInv(mgr, entry) /\ ~BusyIn(mgr) =>
             QuietInv(s, IF then = "disable" THEN "disabled" ELSE "absent")
    BY <1>1, <1>3, <1>4, StoppingKeeps, Zenon
  <2>2. Settings(e, s)
    BY <1>2, <1>4
  <2> HIDE DEF s, e
  <2>3. QED
    BY <1>3, <2>1, <2>2, SettingsKeeps
<1>5. CASE ~InPlaceUp(mgr)
  <2>1. /\ off \in MgrState /\ off.client = mgr.client /\ off.tools = quiet.tools
        /\ off.rt.client = None /\ off.rt.status = "disabled"
    BY <1>1 DEF MgrState, Runtime, Statuses
  <2>2. Settings(e, off)
    BY <1>2, <1>5
  <2> HIDE DEF off, e
  <2>3. PlaceInv(off)
    BY <2>1 DEF PlaceInv
  <2>4. ASSUME QuietInv(mgr, entry), ~BusyIn(mgr)
        PROVE  QuietInv(off, e)
    <3>1. /\ mgr.tools = None
          /\ \A c \in Ids : mgr.client[c].link = "gone" /\ ~mgr.client[c].listing
      BY <1>5, <2>4, MgrFacts, IdlePlace DEF QuietInv
    <3>2. off.tools = None
      BY <1>1, <2>1, <3>1
    <3>3. QED
      BY <1>3, <2>1, <3>1, <3>2, EmptyIsQuiet
  <2>5. QED
    BY <1>3, <2>1, <2>2, <2>3, <2>4, SettingsKeeps
<1>6. QED
  BY <1>4, <1>5

LEMMA RemoveServerKeeps ==
    ASSUME McpInv, RemoveServer
    PROVE  McpInv'
<1> DEFINE quiet == [Unregister(mgr) EXCEPT !.rt.timer = FALSE]
           off == Deleted(quiet)
           e == "absent"
           then == "remove"
<1>1. /\ quiet \in MgrState
      /\ quiet.client = mgr.client /\ quiet.rt.client = mgr.rt.client
      /\ quiet.rt.status = mgr.rt.status
      /\ quiet.tools = IF mgr.rt.listed THEN None ELSE mgr.tools
  BY QuietFields, Zenon
<1>2. Settings(e, IF InPlaceUp(mgr) THEN Stop(quiet, mgr.rt.client, then) ELSE off)
  BY DEF RemoveServer
<1>3. e \in {"absent", "enabled", "disabled"} /\ e \in {"disabled", "absent"}
      /\ then \in {"disable", "remove"}
      /\ e = IF then = "disable" THEN "disabled" ELSE "absent"
  OBVIOUS
<1> HIDE DEF quiet
<1>4. CASE InPlaceUp(mgr)
  <2> DEFINE s == Stop(quiet, mgr.rt.client, then)
  <2> HIDE DEF then
  <2>1. /\ s \in MgrState /\ PlaceInv(s)
        /\ QuietInv(mgr, entry) /\ ~BusyIn(mgr) =>
             QuietInv(s, IF then = "disable" THEN "disabled" ELSE "absent")
    BY <1>1, <1>3, <1>4, StoppingKeeps, Zenon
  <2>2. Settings(e, s)
    BY <1>2, <1>4
  <2> HIDE DEF s, e
  <2>3. QED
    BY <1>3, <2>1, <2>2, SettingsKeeps
<1>5. CASE ~InPlaceUp(mgr)
  <2>1. /\ off \in MgrState /\ off.rt.client = None /\ off.rt.status = "disconnected"
        /\ off.tools = quiet.tools
        /\ \A c \in Ids : /\ off.client[c].link = quiet.client[c].link
                          /\ off.client[c].listing = quiet.client[c].listing
    BY <1>1, DeletedFields
  <2>2. Settings(e, off)
    BY <1>2, <1>5
  <2> HIDE DEF off, e
  <2>3. PlaceInv(off)
    BY <2>1 DEF PlaceInv
  <2>4. ASSUME QuietInv(mgr, entry), ~BusyIn(mgr)
        PROVE  QuietInv(off, e)
    <3>1. /\ mgr.tools = None
          /\ \A c \in Ids : mgr.client[c].link = "gone" /\ ~mgr.client[c].listing
      BY <1>5, <2>4, MgrFacts, IdlePlace DEF QuietInv
    <3>2. off.tools = None
      BY <1>1, <2>1, <3>1
    <3>3. \A c \in Ids : off.client[c].link = "gone" /\ ~off.client[c].listing
      BY <1>1, <2>1, <3>1
    <3>4. QED
      BY <1>3, <3>2, <3>3, EmptyIsQuiet
  <2>5. QED
    BY <1>3, <2>1, <2>2, <2>3, <2>4, SettingsKeeps
<1>6. QED
  BY <1>4, <1>5

LEMMA TimerFiresKeeps ==
    ASSUME McpInv, TimerFires
    PROVE  McpInv'
<1>1. PICK m \in {mgr, [mgr EXCEPT !.loose = @ - 1]} :
        /\ m = mgr \/ mgr.loose > 0
        /\ Begins(ConnectServer(m))
  BY DEF TimerFires
<1>2. mgr \in MgrState /\ PlaceInv(mgr)
  BY MgrFacts
<1>3. m \in MgrState /\ SamePlace(mgr, m)
  BY <1>1, <1>2 DEF MgrState, SamePlace
<1>4. PlaceInv(m) /\ Free(m) # {} /\ BusyIn(m) = BusyIn(mgr)
  BY <1>1, <1>2, <1>3, SamePlaceCarries DEF Begins
<1>5. LET s == ConnectServer(m) IN
      /\ s \in MgrState
      /\ PlaceInv(s)
      /\ OneProcess(m) /\ ~BusyIn(m) => \A f : QuietInv(s, f)
  BY <1>3, <1>4, ConnectServerKeeps, Zenon
<1>6. UNCHANGED <<entry, edits>>
  BY DEF TimerFires
<1> DEFINE s == ConnectServer(m)
<1>7. QuietInv(mgr, entry) /\ ~BusyIn(mgr) => QuietInv(s, entry')
  BY <1>3, <1>4, <1>5, SamePlaceCarries DEF QuietInv
<1>8. /\ entry' \in {"absent", "enabled", "disabled"} /\ edits' \in 0 .. MaxEdits
      /\ s \in MgrState /\ PlaceInv(s) /\ Begins(s)
  BY <1>1, <1>5, <1>6, MgrFacts
<1> HIDE DEF s
<1>9. QED
  BY <1>7, <1>8, BeginsKeeps

(* The server answers initialize: its process is in place from now on.     *)
LEMMA InitializeAnsweredKeeps ==
    ASSUME McpInv, NEW c \in Ids, InitializeAnswered(c), UNCHANGED <<entry, crossed, edits>>
    PROVE  McpInv'
<1> DEFINE mine == mgr.client[c].mine
           cl == [mgr.client[c] EXCEPT !.link = "up", !.listing = TRUE, !.mine = TRUE]
           rt == [mgr.rt EXCEPT !.client = IF mine THEN c ELSE mgr.rt.client,
                                !.status = IF mine THEN "connected" ELSE mgr.rt.status]
           up == [mgr EXCEPT !.client[c] = cl, !.rt = rt]
           s == Unregister(up)
<1>1. mgr \in MgrState /\ PlaceInv(mgr) /\ (~crossed => QuietInv(mgr, entry))
  BY MgrFacts
<1>2. mgr.client[c].link = "starting" /\ mine \in BOOLEAN
  BY <1>1, MgrFields DEF InitializeAnswered
<1>3. Becomes(s)
  <2>1. up = [mgr EXCEPT !.client[c] = [@ EXCEPT !.link = "up", !.listing = TRUE,
                                                 !.mine = TRUE],
                         !.rt.client = IF mine THEN c ELSE @,
                         !.rt.status = IF mine THEN "connected" ELSE @]
    BY <1>1 DEF MgrState, Runtime
  <2>2. QED
    BY <2>1 DEF InitializeAnswered
<1>4. /\ cl \in Client /\ cl.link = "up" /\ cl.listing = TRUE /\ cl.mine = TRUE
      /\ cl.then = mgr.client[c].then
  <2>1. mgr.client[c] \in Client
    BY <1>1, ClientFields
  <2>2. QED
    BY <2>1 DEF Client
<1>5. /\ rt \in Runtime
      /\ rt.client = IF mine THEN c ELSE mgr.rt.client
      /\ rt.status = IF mine THEN "connected" ELSE mgr.rt.status
      /\ rt.listed = mgr.rt.listed
  <2>1. mgr.rt \in Runtime
    BY <1>1, MgrFields
  <2>2. QED
    BY <1>2, <2>1 DEF Runtime, Statuses
<1> HIDE DEF cl, rt, mine
<1>6. /\ up \in MgrState /\ up.client = [mgr.client EXCEPT ![c] = cl]
      /\ up.rt = rt /\ up.tools = mgr.tools
  BY <1>1, <1>4, <1>5 DEF MgrState
<1> HIDE DEF up
<1>7. /\ s \in MgrState /\ s.rt.client = up.rt.client /\ s.rt.status = up.rt.status
      /\ s.rt.listed = FALSE /\ s.client = up.client
      /\ s.tools = IF up.rt.listed THEN None ELSE up.tools
  BY <1>6, UnregisterFields
<1> HIDE DEF s
<1>8. /\ \A d \in Ids \ {c} : s.client[d] = mgr.client[d]
      /\ s.client[c] = cl
      /\ s.rt.client = IF mine THEN c ELSE mgr.rt.client
      /\ s.rt.status = IF mine THEN "connected" ELSE mgr.rt.status
      /\ s.tools = IF mgr.rt.listed THEN None ELSE mgr.tools
  BY <1>1, <1>5, <1>6, <1>7, MgrFields
<1>9. PlaceInv(s)
  <2>1. CASE mine
    BY <1>4, <1>8, <2>1, NoneIsNoId DEF PlaceInv
  <2>2. CASE ~mine
    <3>1. mgr.rt.client # None => mgr.rt.client \in Ids \ {c}
      BY <1>1, <1>2, MgrFields DEF PlaceInv
    <3>2. QED
      BY <1>1, <1>8, <2>2, <3>1 DEF PlaceInv
  <2>3. QED
    BY <2>1, <2>2
<1>10. ASSUME ~crossed
       PROVE  QuietInv(s, entry)
  <2>1. QuietInv(mgr, entry)
    BY <1>1, <1>10
  <2>2. mine /\ mgr.rt.client = None /\ \A d \in Ids \ {c} : mgr.client[d].link = "gone"
    BY <1>2, <2>1 DEF QuietInv, OneProcess, LiveIn, mine
  <2>3. \A d \in Ids \ {c} : s.client[d].link = "gone" /\ ~s.client[d].listing
    BY <1>8, <2>1, <2>2 DEF QuietInv, OneProcess
  <2>4. mgr.tools = None
    BY <1>1, <2>1, <2>2 DEF QuietInv, OneProcess
  <2>5. s.tools = None /\ s.rt.client = c
    BY <1>8, <2>2, <2>4
  <2>6. OneProcess(s)
    BY <1>4, <1>8, <2>3, <2>5 DEF OneProcess, LiveIn
  <2>7. mgr.client[c].then = "nobody"
    BY <1>2, <2>1 DEF QuietInv, Awaited
  <2>8. Awaited(s, entry)
    BY <1>4, <1>8, <2>3, <2>7 DEF Awaited
  <2>9. Served(s)
    BY <1>4, <1>8, <2>5, NoneIsNoId DEF Served, InPlaceUp
  <2>10. QED
    BY <2>6, <2>8, <2>9 DEF QuietInv
<1>11. UNCHANGED <<entry, crossed, edits>>
  OBVIOUS
<1>12. /\ entry' \in {"absent", "enabled", "disabled"} /\ edits' \in 0 .. MaxEdits
       /\ crossed' \in BOOLEAN /\ (~crossed' => QuietInv(s, entry'))
  BY <1>10, <1>11, MgrFacts
<1>13. s \in MgrState
  BY <1>7
<1>14. QED
  BY <1>3, <1>9, <1>12, <1>13, BecomesKeeps

LEMMA InitializeFailsKeeps ==
    ASSUME McpInv, NEW c \in Ids, InitializeFails(c), UNCHANGED <<entry, crossed, edits>>
    PROVE  McpInv'
<1> DEFINE cl == [mgr.client[c] EXCEPT !.link = "stopping", !.then = "fail"]
           s == [mgr EXCEPT !.client[c] = cl]
<1>1. mgr \in MgrState /\ PlaceInv(mgr) /\ (~crossed => QuietInv(mgr, entry))
  BY MgrFacts
<1>2. mgr.client[c].link = "starting" /\ Becomes(s)
  BY DEF InitializeFails
<1>3. /\ cl \in Client /\ cl.link = "stopping" /\ cl.then = "fail"
      /\ cl.listing = mgr.client[c].listing /\ cl.mine = mgr.client[c].mine
  <2>1. mgr.client[c] \in Client
    BY <1>1, ClientFields
  <2>2. QED
    BY <2>1 DEF Client
<1> HIDE DEF cl
<1>4. /\ s \in MgrState /\ s.client = [mgr.client EXCEPT ![c] = cl]
      /\ s.rt = mgr.rt /\ s.tools = mgr.tools
  BY <1>1, <1>3 DEF MgrState
<1> HIDE DEF s
<1>5. (\A d \in Ids \ {c} : s.client[d] = mgr.client[d]) /\ s.client[c] = cl
  BY <1>1, <1>4, MgrFields
<1>6. mgr.rt.client # None => mgr.rt.client \in Ids \ {c}
  BY <1>1, <1>2, MgrFields DEF PlaceInv
<1>7. PlaceInv(s)
  BY <1>1, <1>4, <1>5, <1>6 DEF PlaceInv
<1>8. ASSUME ~crossed
      PROVE  QuietInv(s, entry)
  <2>1. QuietInv(mgr, entry)
    BY <1>1, <1>8
  <2>2. /\ mgr.rt.client = None /\ mgr.client[c].mine = TRUE /\ mgr.client[c].listing = FALSE
        /\ \A d \in Ids \ {c} : mgr.client[d].link = "gone" /\ ~mgr.client[d].listing
    BY <1>1, <1>2, <2>1, MgrFields DEF QuietInv, OneProcess, LiveIn
  <2>3. mgr.tools = None
    BY <1>1, <2>1, <2>2 DEF QuietInv, OneProcess
  <2>4. OneProcess(s)
    BY <1>3, <1>4, <1>5, <2>2, <2>3 DEF OneProcess, LiveIn
  <2>5. Awaited(s, entry)
    BY <1>3, <1>5, <2>2 DEF Awaited
  <2>6. Served(s)
    BY <1>3, <1>5 DEF Served
  <2>7. QED
    BY <2>4, <2>5, <2>6 DEF QuietInv
<1>9. UNCHANGED <<entry, crossed, edits>>
  OBVIOUS
<1>10. /\ entry' \in {"absent", "enabled", "disabled"} /\ edits' \in 0 .. MaxEdits
       /\ crossed' \in BOOLEAN /\ (~crossed' => QuietInv(s, entry'))
  BY <1>8, <1>9, MgrFacts
<1>11. s \in MgrState
  BY <1>4
<1>12. QED
  BY <1>2, <1>7, <1>10, <1>11, BecomesKeeps

(* refreshCounts() is done: only what the registry holds may be new, and then it is the *)
(* client in place that it calls.                                                       *)
LEMMA ListingDoneKeeps ==
    ASSUME McpInv, NEW c \in Ids, mgr.client[c].listing, NEW s \in MgrState, Becomes(s),
           s.client = [mgr.client EXCEPT ![c] = [mgr.client[c] EXCEPT !.listing = FALSE]],
           s.rt.client = mgr.rt.client, s.rt.status = mgr.rt.status,
           s.rt.timer = mgr.rt.timer, s.loose = mgr.loose,
           \/ s.tools = mgr.tools /\ s.rt.listed = mgr.rt.listed
           \/ s.tools = c /\ (mgr.client[c].mine => s.rt.listed),
           UNCHANGED <<entry, crossed, edits>>
    PROVE  McpInv'
<1> DEFINE cl == [mgr.client[c] EXCEPT !.listing = FALSE]
<1>1. mgr \in MgrState /\ PlaceInv(mgr) /\ (~crossed => QuietInv(mgr, entry))
  BY MgrFacts
<1>2. /\ cl.listing = FALSE /\ cl.link = mgr.client[c].link
      /\ cl.mine = mgr.client[c].mine /\ cl.then = mgr.client[c].then
  BY <1>1, MgrFields DEF Client
<1>3. s.client = [mgr.client EXCEPT ![c] = cl]
  OBVIOUS
<1> HIDE DEF cl
<1>4. (\A d \in Ids \ {c} : s.client[d] = mgr.client[d]) /\ s.client[c] = cl
  BY <1>1, <1>3, MgrFields
<1>5. /\ \A d \in Ids : /\ s.client[d].link = mgr.client[d].link
                        /\ s.client[d].mine = mgr.client[d].mine
                        /\ s.client[d].then = mgr.client[d].then
                        /\ s.client[d].listing => mgr.client[d].listing
  BY <1>2, <1>4
<1>6. mgr.rt.client # None => mgr.rt.client \in Ids
  BY <1>1, MgrFields
<1>7. PlaceInv(s)
  BY <1>1, <1>5, <1>6 DEF PlaceInv
<1>8. ASSUME ~crossed
      PROVE  QuietInv(s, entry)
  <2>1. QuietInv(mgr, entry)
    BY <1>1, <1>8
  <2>2. mgr.client[c].link = "up" /\ mgr.client[c].mine /\ mgr.rt.client = c
    BY <2>1 DEF QuietInv, OneProcess, LiveIn
  <2>3. s.tools # None => s.tools = s.rt.client /\ s.rt.listed
    BY <2>1, <2>2 DEF QuietInv, OneProcess
  <2>4. OneProcess(s)
    BY <1>5, <2>1, <2>3 DEF QuietInv, OneProcess, LiveIn
  <2>5. Awaited(s, entry)
    BY <1>5, <2>1 DEF QuietInv, Awaited
  <2>6. Served(s)
    BY <1>5, <2>2, NoneIsNoId DEF Served, InPlaceUp
  <2>7. QED
    BY <2>4, <2>5, <2>6 DEF QuietInv
<1>9. UNCHANGED <<entry, crossed, edits>>
  OBVIOUS
<1>10. /\ entry' \in {"absent", "enabled", "disabled"} /\ edits' \in 0 .. MaxEdits
       /\ crossed' \in BOOLEAN /\ (~crossed' => QuietInv(s, entry'))
  BY <1>8, <1>9, MgrFacts
<1>11. s \in MgrState /\ Becomes(s)
  OBVIOUS
<1>12. QED
  BY <1>7, <1>10, <1>11, BecomesKeeps

LEMMA ListingFailsKeeps ==
    ASSUME McpInv, NEW c \in Ids, ListingFails(c), UNCHANGED <<entry, crossed, edits>>
    PROVE  McpInv'
<1> DEFINE cl == [mgr.client[c] EXCEPT !.listing = FALSE]
           s == [mgr EXCEPT !.client[c] = cl]
<1>1. mgr \in MgrState
  BY MgrFacts
<1>2. mgr.client[c].listing /\ Becomes(s)
  BY DEF ListingFails
<1>3. cl \in Client
  <2>1. mgr.client[c] \in Client
    BY <1>1, ClientFields
  <2>2. QED
    BY <2>1 DEF Client
<1>4. /\ s \in MgrState /\ s.rt = mgr.rt /\ s.tools = mgr.tools /\ s.loose = mgr.loose
      /\ s.client = [mgr.client EXCEPT ![c] = cl]
  <2> HIDE DEF cl
  <2>1. QED
    BY <1>1, <1>3 DEF MgrState
<1> HIDE DEF s
<1>5. /\ s.client = [mgr.client EXCEPT ![c] = [mgr.client[c] EXCEPT !.listing = FALSE]]
      /\ s.rt.client = mgr.rt.client /\ s.rt.status = mgr.rt.status
      /\ s.rt.timer = mgr.rt.timer /\ s.loose = mgr.loose
      /\ s.tools = mgr.tools /\ s.rt.listed = mgr.rt.listed
  BY <1>4
<1>6. s \in MgrState /\ UNCHANGED <<entry, crossed, edits>>
  BY <1>4
<1>7. QED
  BY <1>2, <1>5, <1>6, ListingDoneKeeps

LEMMA ToolsListedKeeps ==
    ASSUME McpInv, NEW c \in Ids, ToolsListed(c), UNCHANGED <<entry, crossed, edits>>
    PROVE  McpInv'
<1> DEFINE cl == [mgr.client[c] EXCEPT !.listing = FALSE]
           listed == [mgr EXCEPT !.client[c] = cl]
           known == mgr.rt.listed \/ mgr.client[c].mine
           rt == [mgr.rt EXCEPT !.listed = known]
           offered == [listed EXCEPT !.tools = c, !.rt = rt]
           s == IF mgr.tools # None THEN listed ELSE offered
<1>1. mgr \in MgrState
  BY MgrFacts
<1>2. mgr.client[c].listing
  BY DEF ToolsListed
<1>3. cl \in Client
  <2>1. mgr.client[c] \in Client
    BY <1>1, ClientFields
  <2>2. QED
    BY <2>1 DEF Client
<1>4. known \in BOOLEAN
  BY <1>1, MgrFields
<1> HIDE DEF known
<1>5. /\ rt \in Runtime /\ rt.client = mgr.rt.client /\ rt.status = mgr.rt.status
      /\ rt.timer = mgr.rt.timer /\ rt.listed = known
  BY <1>1, <1>4, MgrFields DEF Runtime
<1>6. Becomes(s)
  <2> DEFINE plain == [mgr EXCEPT !.client[c].listing = FALSE]
             taken == [plain EXCEPT !.tools = c, !.rt.listed = @ \/ mgr.client[c].mine]
  <2>1. plain = listed
    BY <1>1
  <2>2. plain.rt = mgr.rt
    BY <1>1 DEF MgrState
  <2>3. taken = [plain EXCEPT !.tools = c,
                              !.rt = [plain.rt EXCEPT !.listed =
                                         plain.rt.listed \/ mgr.client[c].mine]]
    BY <2>1, <1>1 DEF MgrState
  <2>4. Becomes(IF mgr.tools # None THEN plain ELSE taken)
    BY DEF ToolsListed
  <2> HIDE DEF taken, plain
  <2>5. taken = offered
    BY <2>1, <2>2, <2>3 DEF known
  <2>6. QED
    BY <2>1, <2>4, <2>5
<1> HIDE DEF rt
<1>7. /\ listed \in MgrState /\ listed.rt = mgr.rt /\ listed.tools = mgr.tools
      /\ listed.loose = mgr.loose /\ listed.client = [mgr.client EXCEPT ![c] = cl]
  <2> HIDE DEF cl
  <2>1. QED
    BY <1>1, <1>3 DEF MgrState
<1> HIDE DEF listed
<1>8. /\ offered \in MgrState /\ offered.rt = rt /\ offered.tools = c
      /\ offered.loose = mgr.loose /\ offered.client = listed.client
  BY <1>5, <1>7 DEF MgrState
<1> HIDE DEF offered
<1>9. /\ s \in MgrState
      /\ s.client = [mgr.client EXCEPT ![c] = [mgr.client[c] EXCEPT !.listing = FALSE]]
      /\ s.rt.client = mgr.rt.client /\ s.rt.status = mgr.rt.status
      /\ s.rt.timer = mgr.rt.timer /\ s.loose = mgr.loose
      /\ \/ s.tools = mgr.tools /\ s.rt.listed = mgr.rt.listed
         \/ s.tools = c /\ (mgr.client[c].mine => s.rt.listed)
  <2>1. mgr.client[c].mine => known
    BY DEF known
  <2>2. CASE mgr.tools # None
    BY <1>7, <2>2
  <2>3. CASE mgr.tools = None
    BY <1>5, <1>7, <1>8, <2>1, <2>3
  <2>4. QED
    BY <2>2, <2>3
<1> HIDE DEF s
<1>10. UNCHANGED <<entry, crossed, edits>>
  OBVIOUS
<1>11. QED
  BY <1>2, <1>6, <1>9, <1>10, ListingDoneKeeps

(* A process has ended, of itself or because it was told to.               *)
LEMMA ProcessEndsKeeps ==
    ASSUME McpInv, NEW c \in Ids, ProcessEnds(c), UNCHANGED <<entry, crossed, edits>>
    PROVE  McpInv'
<1> DEFINE link == mgr.client[c].link
           mine == mgr.client[c].mine
           then == IF link = "starting" THEN "fail" ELSE mgr.client[c].then
           ended == Ended(mgr, c)
           s == Resumed(ended, then, mine)
<1>1. mgr \in MgrState /\ PlaceInv(mgr) /\ (~crossed => QuietInv(mgr, entry))
  BY MgrFacts
<1>2. link # "gone" /\ Free(ended) # {} /\ Becomes(s)
  BY DEF ProcessEnds, Ended
<1>3. mine \in BOOLEAN /\ then \in Thens
  BY <1>1, MgrFields DEF Thens
<1>4. LET t == Ended(mgr, c) IN
      /\ t \in MgrState
      /\ PlaceInv(t)
      /\ OneProcess(mgr) => Empty(t)
      /\ mgr.rt.client = c => t.rt.timer
  <2>1. LiveIn(mgr, c)
    BY <1>2 DEF LiveIn
  <2>2. QED
    BY <1>1, <2>1, EndedKeeps, Zenon
<1>5. /\ ended \in MgrState /\ PlaceInv(ended) /\ (OneProcess(mgr) => Empty(ended))
      /\ mgr.rt.client = c => ended.rt.timer
  BY <1>4
<1>6. QuietInv(mgr, entry) =>
         /\ mine /\ OneProcess(mgr)
         /\ entry = "enabled" =>
              then \in {"connect", "fail"} \/ (then = "nobody" /\ mgr.rt.client = c)
  <2> SUFFICES ASSUME QuietInv(mgr, entry)
               PROVE  /\ mine /\ OneProcess(mgr)
                      /\ entry = "enabled" =>
                           \/ then \in {"connect", "fail"}
                           \/ then = "nobody" /\ mgr.rt.client = c
    OBVIOUS
  <2>1. OneProcess(mgr) /\ Awaited(mgr, entry)
    BY DEF QuietInv
  <2>2. mine
    BY <1>2, <2>1 DEF OneProcess, LiveIn
  <2>3. CASE link = "starting"
    BY <2>1, <2>2, <2>3
  <2>4. CASE link = "up"
    BY <2>1, <2>2, <2>4 DEF OneProcess, Awaited
  <2>5. CASE link = "stopping"
    <3>1. \/ mgr.client[c].then \in {"connect", "fail"}
          \/ entry = "disabled" \/ entry = "absent"
      BY <2>1, <2>5 DEF Awaited
    <3>2. then = mgr.client[c].then
      BY <2>5
    <3>3. QED
      BY <2>1, <2>2, <3>1, <3>2
  <2>6. QED
    BY <1>1, <1>2, <2>3, <2>4, <2>5, MgrFields DEF Links
<1> HIDE DEF ended, then, mine
<1>7. LET t == Resumed(ended, then, mine) IN
      /\ t \in MgrState
      /\ PlaceInv(t)
      /\ Empty(ended) /\ mine =>
            /\ OneProcess(t)
            /\ \A e : Awaited(t, e)
            /\ then \in {"connect", "fail"} \/ (then = "nobody" /\ ended.rt.timer) => Served(t)
  BY <1>2, <1>3, <1>5, ResumedKeeps, Zenon
<1>8. /\ s \in MgrState /\ PlaceInv(s)
      /\ Empty(ended) /\ mine =>
            /\ OneProcess(s)
            /\ \A e : Awaited(s, e)
            /\ then \in {"connect", "fail"} \/ (then = "nobody" /\ ended.rt.timer) => Served(s)
  BY <1>7
<1> HIDE DEF s
<1>9. QuietInv(mgr, entry) => QuietInv(s, entry)
  BY <1>5, <1>6, <1>8 DEF QuietInv
<1>10. UNCHANGED <<entry, crossed, edits>>
  OBVIOUS
<1>11. /\ entry' \in {"absent", "enabled", "disabled"} /\ edits' \in 0 .. MaxEdits
       /\ crossed' \in BOOLEAN /\ (~crossed' => QuietInv(s, entry'))
  BY <1>1, <1>9, <1>10, MgrFacts
<1>12. Becomes(s) /\ s \in MgrState /\ PlaceInv(s)
  BY <1>2, <1>8
<1>13. QED
  BY <1>11, <1>12, BecomesKeeps

LEMMA McpInvInit ==
    ASSUME Init
    PROVE  McpInv
<1> DEFINE idle == [rt |-> NewRuntime, client |-> [c \in Ids |-> NoClient], tools |-> None,
                    loose |-> 0]
           first == ConnectServer(idle)
<1>1. /\ entry \in {"absent", "enabled", "disabled"} /\ crossed = FALSE /\ edits = 0
      /\ entry = "enabled" => mgr = first
      /\ entry # "enabled" => mgr = idle
  BY DEF Init
<1>2. /\ NewRuntime \in Runtime /\ NewRuntime.client = None /\ NewRuntime.listed = FALSE
      /\ NewRuntime.status = "disconnected"
  BY DEF NewRuntime, Runtime, Statuses
<1>3. NoClient \in Client /\ NoClient.link = "gone" /\ NoClient.listing = FALSE
  BY DEF NoClient, Client
<1>4. /\ idle \in MgrState /\ idle.rt = NewRuntime /\ idle.tools = None /\ idle.loose = 0
      /\ \A c \in Ids : idle.client[c] = NoClient
  BY <1>2, <1>3 DEF MgrState
<1> HIDE DEF idle
<1>5. PlaceInv(idle) /\ OneProcess(idle) /\ ~BusyIn(idle) /\ ~InPlaceUp(idle)
  BY <1>2, <1>3, <1>4 DEF PlaceInv, OneProcess, LiveIn, BusyIn, InPlaceUp
<1>6. Free(idle) # {}
  <2>1. 1 \in Ids /\ None # 1
    BY McpAssumption DEF Ids, None
  <2>2. 1 \in Free(idle)
    BY <1>3, <1>4, <2>1 DEF Free
  <2>3. QED
    BY <2>2
<1>7. LET s == ConnectServer(idle) IN
      /\ s \in MgrState
      /\ PlaceInv(s)
      /\ OneProcess(idle) /\ ~BusyIn(idle) => \A f : QuietInv(s, f)
  BY <1>4, <1>5, <1>6, ConnectServerKeeps, Zenon
<1>8. first.loose = 0
  <2> DEFINE bare == [idle EXCEPT !.rt.timer = FALSE, !.rt.client = None]
  <2>1. first = Spawn([[idle EXCEPT !.rt.timer = FALSE] EXCEPT !.rt.client = None], TRUE)
    BY <1>5 DEF ConnectServer
  <2>2. bare = [[idle EXCEPT !.rt.timer = FALSE] EXCEPT !.rt.client = None]
    BY <1>4 DEF MgrState, Runtime
  <2>3. bare.loose = 0
    BY <1>4 DEF MgrState
  <2>4. first = Spawn(bare, TRUE)
    BY <2>1, <2>2
  <2> HIDE DEF bare, first
  <2>5. QED
    BY <2>3, <2>4 DEF Spawn
<1>9. 0 \in 0 .. MaxTimers /\ 0 \in 0 .. MaxEdits
  BY McpAssumption
<1>10. ASSUME NEW m \in MgrState, m.loose = 0
       PROVE  m \in [rt : Runtime, client : [Ids -> Client], tools : Ids \cup {None},
                     loose : 0 .. MaxTimers]
  <2>1. m.loose \in 0 .. MaxTimers
    BY <1>9, <1>10
  <2>2. QED
    BY <2>1 DEF MgrState
<1>11. CASE entry = "enabled"
  <2> HIDE DEF first
  <2>1. mgr \in MgrState /\ mgr.loose = 0 /\ PlaceInv(mgr) /\ QuietInv(mgr, entry)
    BY <1>1, <1>5, <1>7, <1>8, <1>11 DEF first
  <2>2. TypeOK
    BY <1>1, <1>9, <1>10, <2>1 DEF TypeOK
  <2>3. QED
    BY <2>1, <2>2 DEF McpInv
<1>12. CASE entry # "enabled"
  <2>1. mgr \in MgrState /\ mgr.loose = 0 /\ PlaceInv(mgr)
    BY <1>1, <1>4, <1>5, <1>12
  <2>2. entry \in {"disabled", "absent"}
    BY <1>1, <1>12
  <2>3. QuietInv(mgr, entry)
    <3>1. \A c \in Ids : mgr.client[c].link = "gone" /\ ~mgr.client[c].listing
      BY <1>1, <1>3, <1>4, <1>12
    <3>2. mgr.tools = None
      BY <1>1, <1>4, <1>12
    <3>3. QED
      BY <2>2, <3>1, <3>2, EmptyIsQuiet
  <2>4. TypeOK
    BY <1>1, <1>9, <1>10, <2>1 DEF TypeOK
  <2>5. QED
    BY <2>1, <2>3, <2>4 DEF McpInv
<1>13. QED
  BY <1>11, <1>12

LEMMA McpInvStep ==
    ASSUME McpInv, [Next]_vars
    PROVE  McpInv'
<1>1. CASE UNCHANGED vars
  BY <1>1 DEF McpInv, TypeOK, PlaceInv, QuietInv, OneProcess, LiveIn, Awaited, Served,
              InPlaceUp, vars
<1>2. CASE AddServer \/ EnableServer
  BY <1>2, ConnectingKeeps
<1>3. CASE DisableServer
  BY <1>3, DisableServerKeeps
<1>4. CASE RemoveServer
  BY <1>4, RemoveServerKeeps
<1>5. CASE TimerFires
  BY <1>5, TimerFiresKeeps
<1>6. CASE \E c \in Ids : /\ \/ InitializeAnswered(c) \/ InitializeFails(c)
                             \/ ToolsListed(c) \/ ListingFails(c) \/ ProcessEnds(c)
                          /\ UNCHANGED <<entry, crossed, edits>>
  BY <1>6, InitializeAnsweredKeeps, InitializeFailsKeeps, ToolsListedKeeps,
     ListingFailsKeeps, ProcessEndsKeeps
<1>7. QED
  BY <1>1, <1>2, <1>3, <1>4, <1>5, <1>6 DEF Next

\* Whatever settings calls, answers, timers and ends of processes cross, what the manager
\* calls connected has a process that has not ended; and until something has crossed there is
\* one process, which the record in the map knows, and whose end somebody answers for
\* (connectServer(), setServerEnabled(), removeServer() and the listener of manager.ts).
THEOREM McpInvariant == Spec => []McpInv
<1>1. Init => McpInv
  BY McpInvInit
<1>2. McpInv /\ [Next]_vars => McpInv'
  BY McpInvStep
<1>3. QED
  BY <1>1, <1>2, PTL DEF Spec

\* The state of the manager has its type.
THEOREM McpTypes == Spec => []TypeOK
<1>1. McpInv => TypeOK
  BY DEF McpInv
<1>2. QED
  BY <1>1, McpInvariant, PTL

\* What is offered to the user is answered by a process, and the tools in the registry are
\* those of the client in place (onClose and refreshCounts() in manager.ts).
THEOREM ToolsDoAnswer == Spec => []ToolsAnswer
<1>1. McpInv => ToolsAnswer
  BY DEF McpInv, PlaceInv, QuietInv, OneProcess, LiveIn, ToolsAnswer, Live
<1>2. QED
  BY <1>1, McpInvariant, PTL

\* An enabled server is connected, or an attempt is under way, or a timer will make one
\* (the catch and the listener of connectServer() in manager.ts).
THEOREM EnabledIsServed == Spec => []EnabledServed
<1>1. McpInv => EnabledServed
  BY DEF McpInv, QuietInv, Served, EnabledServed
<1>2. QED
  BY <1>1, McpInvariant, PTL
====
