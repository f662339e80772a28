------------------------------ MODULE Sharding ------------------------------
(***************************************************************************)
(* Two ways of placing keys on shards (jour12-sharding).  With a directory *)
(* a call looks the shard of its key up, leaves the lock, and uses the     *)
(* shard; a migration holds the lock while it moves a key.  With ranges    *)
(* the place of a key follows from the key.                                *)
(***************************************************************************)
EXTENDS Integers, FiniteSets

CONSTANTS Cles,       \* naturals
          NbShards,
          Ecrivains, LecteursCles,
          MaxValeurs, \* bound: writes
          MaxMigrations,
          Methodes,   \* of those modelled
          Permis

Shards == 0..NbShards - 1

\* What the constants are.
ShardingAssumption ==
    /\ Cles \subseteq Nat /\ IsFiniteSet(Cles)
    /\ {NbShards, MaxValeurs, MaxMigrations} \subseteq Nat /\ NbShards > 0
    /\ Ecrivains \cap LecteursCles = {}
    /\ Methodes \subseteq {"directory", "range"}
    /\ Permis \subseteq {"trafic"}  \* calls on a key while it is moved

Rien == 0

VARIABLES
    methode,
    bornes,       \* Plage.min_val of each shard's range, for ranges
    registre,     \* _directory: none or the shard of a key
    contenu,      \* Shard._store of every shard
    appel,        \* the calls under way: what, the key, the shard, the value
    migration,    \* the move under way, or none
    valeurs,      \* history: how many values were written
    migrations,   \* history: the moves
    derniere,     \* history: the last value of a key whose call has returned
    rendue        \* history: what each reader's last call returned and owed

varsSharding == <<methode, bornes, registre, contenu, appel, migration, valeurs,
                  migrations, derniere, rendue>>

Clients == Ecrivains \union LecteursCles

TypeOK ==
    /\ methode \in {"directory", "range"}
    /\ bornes \in [Shards -> Nat]
    /\ registre \in [Cles -> {{}} \union {{s} : s \in Shards}]
    /\ contenu \in [Shards -> [Cles -> 0..MaxValeurs]]
    /\ \A c \in Clients : Cardinality(appel[c]) <= 1 /\
         appel[c] \subseteq [cle : Cles, shard : Shards, valeur : 0..MaxValeurs]
    /\ Cardinality(migration) <= 1
    /\ migration \subseteq [cle : Cles, de : Shards, vers : Shards,
                            valeur : 0..MaxValeurs,
                            phase : {"lire", "ecrire", "supprimer", "inscrire"}]
    /\ valeurs \in 0..MaxValeurs /\ migrations \in 0..MaxMigrations
    /\ derniere \in [Cles -> 0..MaxValeurs]
    /\ rendue \in [LecteursCles -> [lue : 0..MaxValeurs, due : 0..MaxValeurs]]

Init ==
    /\ methode \in Methodes
    \* The ranges are sorted and leave nothing out.
    /\ bornes \in [Shards -> Cles]
    /\ \A s, t \in Shards : s < t => bornes[s] < bornes[t]
    /\ \A c \in Cles : bornes[0] <= c
    /\ methode = "directory" =>
         bornes = CHOOSE b \in [Shards -> Cles] : \A s, t \in Shards : s < t => b[s] < b[t]
    /\ registre = [c \in Cles |-> {}]
    /\ contenu = [s \in Shards |-> [c \in Cles |-> Rien]]
    /\ appel = [c \in Clients |-> {}]
    /\ migration = {}
    /\ valeurs = 0
    /\ migrations = 0
    /\ derniere = [c \in Cles |-> Rien]
    /\ rendue = [l \in LecteursCles |-> [lue |-> Rien, due |-> Rien]]

-----------------------------------------------------------------------------
EnUsage(cle) == \E c \in Clients : \E a \in appel[c] : a.cle = cle

\* RangeSharding._shard_pour.
PlagePour(cle) == CHOOSE s \in Shards :
    bornes[s] <= cle /\ (s = NbShards - 1 \/ cle < bornes[s + 1])

\* _assigner_shard, in turn.
Assigne == Cardinality({c \in Cles : registre[c] # {}}) % NbShards

ShardPour(cle) ==
    IF methode = "range" THEN PlagePour(cle)
    ELSE IF registre[cle] = {} THEN Assigne ELSE CHOOSE s \in registre[cle] : TRUE

\* The lookup of ecrire, under the lock, which may place the key.
Chercher(e, cle) ==
    /\ appel[e] = {}
    /\ migration = {}
    /\ valeurs < MaxValeurs
    /\ valeurs' = valeurs + 1
    /\ registre' = IF methode = "range" THEN registre
                   ELSE [registre EXCEPT ![cle] = {ShardPour(cle)}]
    /\ appel' = [appel EXCEPT ![e] =
         {[cle |-> cle, shard |-> ShardPour(cle), valeur |-> valeurs']}]
    /\ UNCHANGED <<methode, bornes, contenu, migration, migrations, derniere, rendue>>

\* Shard.ecrire: the last to come stays.
Ecrire(e) ==
    /\ \E a \in appel[e] :
         /\ contenu' = [contenu EXCEPT ![a.shard][a.cle] = a.valeur]
         /\ derniere' = [derniere EXCEPT ![a.cle] = a.valeur]
    /\ appel' = [appel EXCEPT ![e] = {}]
    /\ UNCHANGED <<methode, bornes, registre, migration, valeurs, migrations, rendue>>

\* The lookup of lire; a key that the directory does not know is answered at once.
ChercherLecture(l, cle) ==
    /\ appel[l] = {}
    /\ migration = {}
    /\ methode = "range" \/ registre[cle] # {}
    /\ rendue' = [rendue EXCEPT ![l] = [lue |-> derniere[cle], due |-> derniere[cle]]]
    /\ appel' = [appel EXCEPT ![l] =
         {[cle |-> cle, shard |-> ShardPour(cle), valeur |-> derniere[cle]]}]
    /\ UNCHANGED <<methode, bornes, registre, contenu, migration, valeurs, migrations,
                   derniere>>

\* Shard.lire.
Lire(l) ==
    /\ \E a \in appel[l] :
         rendue' = [rendue EXCEPT ![l] = [lue |-> contenu[a.shard][a.cle], due |-> a.valeur]]
    /\ appel' = [appel EXCEPT ![l] = {}]
    /\ UNCHANGED <<methode, bornes, registre, contenu, migration, valeurs, migrations,
                   derniere>>

-----------------------------------------------------------------------------
\* migrer: the lock is held from the lookup to the new entry of the directory.
Migrer(cle, vers) ==
    /\ methode = "directory"
    /\ migration = {}
    /\ migrations < MaxMigrations
    /\ "trafic" \in Permis \/ ~EnUsage(cle)
    /\ registre[cle] # {} /\ vers \notin registre[cle]
    /\ migration' = {[cle |-> cle, de |-> ShardPour(cle), vers |-> vers, valeur |-> Rien,
                      phase |-> "lire"]}
    /\ migrations' = migrations + 1
    /\ UNCHANGED <<methode, bornes, registre, contenu, appel, valeurs, derniere, rendue>>

Supprimee(m) == Rien

Inscrit(m) == {m.vers}

Deplacer ==
    /\ \E m \in migration :
         \/ /\ m.phase = "lire"
            /\ migration' = IF contenu[m.de][m.cle] = Rien THEN {}
                            ELSE {[m EXCEPT !.valeur = contenu[m.de][m.cle],
                                            !.phase = "ecrire"]}
            /\ UNCHANGED <<contenu, registre>>
         \/ /\ m.phase = "ecrire"
            /\ contenu' = [contenu EXCEPT ![m.vers][m.cle] = m.valeur]
            /\ migration' = {[m EXCEPT !.phase = "supprimer"]}
            /\ UNCHANGED registre
         \/ /\ m.phase = "supprimer"
            /\ contenu' = [contenu EXCEPT ![m.de][m.cle] = Supprimee(m)]
            /\ migration' = {[m EXCEPT !.phase = "inscrire"]}
            /\ UNCHANGED registre
         \/ /\ m.phase = "inscrire"
            /\ registre' = [registre EXCEPT ![m.cle] = Inscrit(m)]
            /\ migration' = {}
            /\ UNCHANGED contenu
    /\ UNCHANGED <<methode, bornes, appel, valeurs, migrations, derniere, rendue>>

Next ==
    \/ \E e \in Ecrivains : Ecrire(e) \/ (\E c \in Cles : Chercher(e, c))
    \/ \E l \in LecteursCles : Lire(l) \/ (\E c \in Cles : ChercherLecture(l, c))
    \/ (\E c \in Cles, s \in Shards : Migrer(c, s)) \/ Deplacer

Spec == Init /\ [][Next]_varsSharding

-----------------------------------------------------------------------------
\* "Lectures post-migration : transparentes": a read never returns less than what
\* one writer had written when it began.
LectureTransparente == \A l \in LecteursCles : rendue[l].lue >= rendue[l].due

\* "Migration chirurgicale": outside of moves a key is in one shard, the one that
\* its next reader is sent to.
UneSeuleCopie == migration = {} =>
    \A s \in Shards, c \in Cles : contenu[s][c] # Rien => s = ShardPour(c)

\* The shards that range_query asks.
Concernes(a, b) ==
    {s \in Shards : bornes[s] <= b /\ (s = NbShards - 1 \/ bornes[s + 1] > a)}

\* "on interroge seulement les shards couvrant la plage": and all the keys written
\* between the bounds are found there.
PlageComplete == methode = "range" => \A a, b \in Cles :
    {c \in Cles : a <= c /\ c <= b /\ derniere[c] # Rien}
      = {c \in Cles : a <= c /\ c <= b /\ \E s \in Concernes(a, b) : contenu[s][c] # Rien}
=============================================================================
