--------------------------- MODULE RoleCatalogue ----------------------------
(***************************************************************************)
(* The permissions and the built-in roles that the code owns, and which    *)
(* the database is brought in line with at start-up.  A permission that    *)
(* only other modules require is in the group the code puts it in.         *)
(***************************************************************************)

catalogPermissions ==
  {"catalog.products.read", "catalog.products.write", "catalog.products.publish",
   "catalog.products.archive", "catalog.categories.read",
   "catalog.categories.write", "catalog.pricing.write"}

inventoryPermissions == {"inventory.read", "inventory.adjust"}

orderPermissions ==
  {"orders.read", "orders.notes.write", "orders.fulfill", "orders.cancel",
   "orders.refund"}

customerPermissions == {"customers.read", "customers.update"}

marketingReportingPermissions ==
  {"promotions.read", "promotions.write", "reports.read"}

\* PERMISSION_CATALOGUE
allPermissionKeys ==
  {"admin.access", "staff.read", "staff.create", "staff.assign_roles",
   "staff.assign_owner", "staff.suspend", "roles.read", "audit.read"}
  \cup catalogPermissions \cup inventoryPermissions \cup orderPermissions
  \cup customerPermissions \cup marketingReportingPermissions

\* BUILT_IN_ROLE_CATALOGUE; every role has admin.access.
Adds ==
  [owner |-> allPermissionKeys,
   administrator |-> allPermissionKeys \ {"staff.assign_owner"},
   catalog_manager |-> catalogPermissions \cup inventoryPermissions,
   order_manager |-> orderPermissions \cup {"customers.read", "inventory.read"},
   support_agent |-> {"orders.read", "orders.notes.write", "customers.read"},
   marketing_manager |->
     marketingReportingPermissions
       \cup {"catalog.products.read", "catalog.categories.read"},
   analyst |->
     {"catalog.products.read", "catalog.categories.read", "inventory.read",
      "orders.read", "customers.read", "promotions.read", "reports.read"}]

RoleKeys == DOMAIN Adds

permissionKeys == [k \in RoleKeys |-> {"admin.access"} \cup Adds[k]]
=============================================================================
