----------------------------- MODULE Migrations -----------------------------
(***************************************************************************)
(* The schema of the database: the migrations, run in order when the       *)
(* server starts (migrationsRun, synchronize: false) and reverted one by   *)
(* one from the command line, and what becomes of the rows that earlier    *)
(* versions of the program left.  Of a value only what sets it apart is    *)
(* kept: given by the program, NULL, the column's DEFAULT (of which '' is  *)
(* "empty"), or, of a client's secret, "long": of over 100 characters.     *)
(***************************************************************************)
EXTENDS Naturals, Sequences

CONSTANT Row   \* identities of rows

VARIABLES
  version,  \* how many migrations the database has run
  rows      \* the rows, by identity

vars == <<version, rows>>

(* A column is nullable, or required with or without a DEFAULT. *)
Nullable == [null |-> TRUE, default |-> "NULL"]
Required == [null |-> FALSE, default |-> "none"]
Defaults(value) == [null |-> FALSE, default |-> value]

Columns(names, spec) == [c \in names |-> spec]

f ++ g == [c \in DOMAIN f \cup DOMAIN g |-> IF c \in DOMAIN g THEN g[c] ELSE f[c]]

(* A migration creates tables, adds columns to one, or limits the length   *)
(* of columns that are there to 100.                                       *)
Creates(table, columns) ==
  [creates |-> TRUE, table |-> table, columns |-> columns, limits |-> {}]
Adds(table, columns) ==
  [creates |-> FALSE, table |-> table, columns |-> columns, limits |-> {}]
Limits(table, names) ==
  [creates |-> FALSE, table |-> table, columns |-> Columns({}, Required),
   limits |-> names]

(* Initial does nothing. *)
RedirectUrisArray == <<
  Creates("admins", Columns({"id", "username", "password"}, Required)
                      ++ Columns({"createdAt", "updatedAt"}, Defaults("now"))),
  Creates("oauth_clients",
          Columns({"id", "clientName", "redirectUris", "clientSecret"}, Required)
            ++ Columns({"createdAt", "updatedAt"}, Defaults("now")))>>

RefreshTokens == <<
  Creates("refresh_tokens",
          Columns({"id", "tokenHash", "familyId", "sub", "type", "expiresAt"}, Required)
            ++ Columns({"used", "revoked"}, Defaults("false"))
            ++ Columns({"createdAt"}, Defaults("now")))>>

(* Its comment says that it widens the column, which had no limit. *)
ClientSecretHash == <<Limits("oauth_clients", {"clientSecret"})>>

CredentialTokens == <<
  Creates("credential_tokens",
          Columns({"id", "tokenHash", "oauthClientId", "encryptedSecret",
                   "expiresAt"}, Required)
            ++ Columns({"used"}, Defaults("false"))
            ++ Columns({"createdAt"}, Defaults("now")))>>

CredentialTokensClientData ==
  <<Adds("credential_tokens", Columns({"clientName", "redirectUris"}, Defaults("empty")))>>

(* Slip: added as a required column, without a DEFAULT that old rows need. *)
AdminTotp_NoDefault ==
  <<Adds("admins", Columns({"totpSecret"}, Nullable)
                     ++ Columns({"totpEnabled"}, Required))>>

AdminTotp ==
  <<Adds("admins", Columns({"totpSecret"}, Nullable)
                     ++ Columns({"totpEnabled"}, Defaults("false")))>>

(* Slip: added without a default, which leaves it NULL in old rows. *)
OAuthClientIsActive_Null == <<Adds("oauth_clients", Columns({"isActive"}, Nullable))>>

OAuthClientIsActive ==
  <<Adds("oauth_clients", Columns({"isActive"}, Defaults("true")))>>

RefreshTokenSessionExpires ==
  <<Adds("refresh_tokens", Columns({"sessionExpiresAt"}, Nullable))>>

RefreshTokenClientId == <<Adds("refresh_tokens", Columns({"clientId"}, Nullable))>>

Steps == <<
  RedirectUrisArray, RefreshTokens, ClientSecretHash, CredentialTokens,
  CredentialTokensClientData, AdminTotp, OAuthClientIsActive, RefreshTokenSessionExpires,
  RefreshTokenClientId>>

Latest == Len(Steps)

Changes(v) == {Steps[v][i] : i \in DOMAIN Steps[v]}

(* A database that has run v migrations.  No column is added twice. *)
Applied(v) == UNION {Changes(u) : u \in 1..v}

Tables(v) == {m.table : m \in Applied(v)}

Adding(v, table, c) ==
  {m \in Applied(v) : m.table = table /\ c \in DOMAIN m.columns}

ColumnsOf(v, table) ==
  UNION {DOMAIN m.columns : m \in {n \in Applied(v) : n.table = table}}

Limited(v, table) == UNION {m.limits : m \in {n \in Applied(v) : n.table = table}}

Schema == [v \in 0..Latest |-> [t \in Tables(v) |-> [c \in ColumnsOf(v, t) |->
  (CHOOSE m \in Adding(v, t, c) : TRUE).columns[c]]]]

-----------------------------------------------------------------------------
Init == version = 0 /\ rows = [r \in {} |-> <<>>]

(* A row as the program of the day writes it: what a column may leave NULL *)
(* it gives for students and not for admins; in the other tables, not yet. *)
(* Today's program keeps bcrypt hashes, of 60 characters; what others kept *)
(* in clientSecret is not known, and can be long where there is no limit.  *)
Written(table, kind) ==
  [c \in DOMAIN Schema[version][table] |->
     IF Schema[version][table][c].null /\ kind # "student" THEN "NULL"
     ELSE IF c = "clientSecret" /\ kind = "long secret" THEN "long" ELSE "given"]

Insert(r, table, kind) ==
  /\ r \notin DOMAIN rows
  /\ table \in DOMAIN Schema[version]
  /\ kind = "student" => table = "refresh_tokens"
  /\ kind = "long secret" =>
       table = "oauth_clients" /\ "clientSecret" \notin Limited(version, table)
  /\ rows' = [s \in DOMAIN rows \cup {r} |-> IF s = r
       THEN [table |-> table, kind |-> kind, columns |-> Written(table, kind)]
       ELSE rows[s]]
  /\ UNCHANGED version

(* up: a column is added to the rows there are, with its DEFAULT, or NULL. *)
(* Without either PostgreSQL refuses, as it refuses to limit the length of *)
(* a column that holds a longer value, and the server does not start.      *)
Filled(row, v) ==
  [c \in DOMAIN Schema[v][row.table] |->
     IF c \in DOMAIN row.columns THEN row.columns[c]
                                 ELSE Schema[v][row.table][c].default]

Takes(v) ==
  \A r \in DOMAIN rows : \A c \in DOMAIN Filled(rows[r], v) :
    /\ Filled(rows[r], v)[c] # "none"
    /\ c \in Limited(v, rows[r].table) => Filled(rows[r], v)[c] # "long"

Up ==
  /\ version < Latest
  /\ Takes(version + 1)
  /\ version' = version + 1
  /\ rows' = [r \in DOMAIN rows |->
                [rows[r] EXCEPT !.columns = Filled(rows[r], version + 1)]]

(* down: its columns and limits are dropped, its tables with their rows. *)
Down ==
  /\ version > 0
  /\ version' = version - 1
  /\ rows' = [r \in {q \in DOMAIN rows : rows[q].table \in Tables(version - 1)} |->
       [rows[r] EXCEPT !.columns =
          [c \in DOMAIN Schema[version - 1][rows[r].table] |-> rows[r].columns[c]]]]

Next ==
  \/ \E r \in Row, table \in Tables(Latest), kind \in {"student", "long secret", "other"} :
       Insert(r, table, kind)
  \/ Up \/ Down

Spec == Init /\ [][Next]_vars

-----------------------------------------------------------------------------
(***************************************************************************)
(* The entities the program reads rows as: their columns, and those of     *)
(* them that may be null.                                                  *)
(***************************************************************************)
EntityColumns ==
  [admins |-> {"id", "username", "password", "totpSecret", "totpEnabled",
               "createdAt", "updatedAt"},
   oauth_clients |-> {"id", "clientName", "redirectUris", "clientSecret",
                      "isActive", "createdAt", "updatedAt"},
   refresh_tokens |-> {"id", "tokenHash", "familyId", "sub", "type", "used",
                       "revoked", "expiresAt", "createdAt", "sessionExpiresAt",
                       "clientId"},
   credential_tokens |-> {"id", "tokenHash", "oauthClientId", "encryptedSecret",
                          "clientName", "redirectUris", "used", "expiresAt",
                          "createdAt"}]

EntityNullable == {"totpSecret", "sessionExpiresAt", "clientId"}

(* Whatever versions a row has been through, forth and back, once the      *)
(* database is up to date it has the columns of its entity, and NULL only  *)
(* where the entity allows it.                                             *)
RowsFitEntities ==
  version = Latest =>
    \A r \in DOMAIN rows :
      /\ DOMAIN rows[r].columns = EntityColumns[rows[r].table]
      /\ \A c \in DOMAIN rows[r].columns \ EntityNullable :
           rows[r].columns[c] # "NULL"

(* A row of an earlier version can stop only one migration, and with it    *)
(* the start of the server: the limit on the length of secrets, by a       *)
(* client whose secret is longer; and once past it, none.  Every other     *)
(* migration takes whatever rows there are, in whatever order rows were    *)
(* written and migrations run and reverted.                                *)
OnlyLongSecretStopsUp ==
  LET Long == \E r \in DOMAIN rows : rows[r].table = "oauth_clients"
                                     /\ rows[r].columns["clientSecret"] = "long"
  IN /\ version < Latest /\ ~Takes(version + 1) =>
          Steps[version + 1] = ClientSecretHash /\ Long
     /\ "clientSecret" \in Limited(version, "oauth_clients") => ~Long

-----------------------------------------------------------------------------
(* What comments and documentation say and the code does not do.           *)

(* RefreshTokenClientId's comment: clientId is always there for tokens of  *)
(* type student (suspending a client finds its sessions by it).            *)
StudentRowsHaveClient ==
  \A r \in DOMAIN rows :
    rows[r].kind = "student" /\ "clientId" \in DOMAIN rows[r].columns =>
      rows[r].columns["clientId"] # "NULL"

(* ClientSecretHash's comment: the column is made wider; and so takes what *)
(* it held.                                                                *)
SecretColumnWidens ==
  version < Latest /\ Steps[version + 1] = ClientSecretHash => Takes(version + 1)

(* CredentialTokenEntity's comment: redirectUris is kept as JSON (which    *)
(* consume parses, after it has used the link up); '' is not JSON.         *)
StoredUrisAreJson ==
  \A r \in DOMAIN rows :
    rows[r].table = "credential_tokens" /\ "redirectUris" \in DOMAIN rows[r].columns =>
      rows[r].columns["redirectUris"] # "empty"
=============================================================================
