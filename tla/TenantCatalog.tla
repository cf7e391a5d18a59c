---------------------------- MODULE TenantCatalog ---------------------------
(* The commands for a tenant: applications, options, retention, users and  *)
(* statistics.                                                             *)
EXTENDS CommandRow

(* c8y applications *)
applications_copy == Command("POST", "Create", {}, InPath("entity", "id", Text, Required), {})
applications_create == Command("POST", "Create", {},
  InBody("override", "name", Text, Optional), {"name", "key", "type"})
applications_createbinary == Command("POST", "Create", {"file"},
  InPath("entity", "id", Text, Required), {})
applications_delete == Command("DELETE", "Delete", {}, InPath("entity", "id", Text, Required), {})
applications_deleteapplicationbinary == Command("DELETE", "Delete", {"application"},
  InPath("slice", "binaryId", List, Required), {})
applications_get == Command("GET", "Read", {}, InPath("entity", "id", Text, Required), {})
applications_list == Command("GET", "Read", {}, InQuery("string", "type", Text, Optional), {})
applications_listapplicationbinaries == Command("GET", "Read", {},
  InPath("entity", "id", Text, Required), {})
applications_update == Command("PUT", "Update", {}, InPath("entity", "id", Text, Required), {})

(* c8y auditrecords *)
auditrecords_create == Command("POST", "Create", {},
  InBody("override", "source.id", Text, Optional), {"activity", "source.id", "text", "type"})
auditrecords_get == Command("GET", "Read", {}, InPath("ids", "id", List, Required), {})
auditrecords_list == Command("GET", "Read", {}, InQuery("string", "source", Text, Optional), {})

(* c8y currentapplication *)
currentapplication_get == Command("GET", "Read", {}, NoPipe, {})
currentapplication_listsubscriptions == Command("GET", "Read", {}, NoPipe, {})
currentapplication_update == Command("PUT", "Update", {}, NoPipe, {})

(* c8y currenttenant *)
currenttenant_get == Command("GET", "Read", {}, NoPipe, {})
currenttenant_listapplications == Command("GET", "Read", {}, NoPipe, {})
currenttenant_version == Command("GET", "Read", {}, NoPipe, {})

(* c8y currentuser *)
currentuser_get == Command("GET", "Read", {}, NoPipe, {})
currentuser_logout == Command("POST", "Create", {}, NoPipe, {})
currentuser_update == Command("PUT", "Update", {}, NoPipe, {})

(* c8y databroker *)
databroker_get == Command("GET", "Read", {}, InPath("ids", "id", List, Required), {})
databroker_list == Command("GET", "Read", {}, NoPipe, {})
databroker_update == Command("PUT", "Update", {}, InPath("ids", "id", List, Required), {"status"})

(* c8y microservices *)
microservices_createbinary == Command("POST", "Create", {"file"},
  InPath("entity", "id", Text, Required), {})
microservices_delete == Command("DELETE", "Delete", {}, InPath("entity", "id", Text, Required), {})
microservices_disable == Command("DELETE", "Delete", {}, InPath("entity", "id", Text, Required), {})
microservices_enable == Command("POST", "Create", {},
  InBody("entity", "application.id", Text, Required), {})
microservices_get == Command("GET", "Read", {}, InPath("entity", "id", Text, Required), {})
microservices_getbootstrapuser == Command("GET", "Read", {},
  InPath("entity", "id", Text, Required), {})
microservices_getstatus == Command("GET", "Read", {}, InPath("entity", "id", Text, Required), {})
microservices_list == Command("GET", "Read", {}, NoPipe, {})
microservices_update == Command("PUT", "Update", {}, InPath("entity", "id", Text, Required), {})

(* c8y retentionrules *)
retentionrules_create == Command("POST", "Create", {},
  InBody("override", "dataType", Text, Optional), {"dataType"})
retentionrules_delete == Command("DELETE", "Delete", {}, InPath("ids", "id", List, Required), {})
retentionrules_get == Command("GET", "Read", {}, InPath("ids", "id", List, Required), {})
retentionrules_list == Command("GET", "Read", {}, NoPipe, {})
retentionrules_update == Command("PUT", "Update", {}, InPath("ids", "id", List, Required), {})

(* c8y systemoptions *)
systemoptions_get == Command("GET", "Read", {"category"},
  InPath("string", "key", Text, Required), {})
systemoptions_list == Command("GET", "Read", {}, NoPipe, {})

(* c8y tenantoptions *)
tenantoptions_create == Command("POST", "Create", {"category", "value"},
  InBody("override", "key", Text, Required), {})
tenantoptions_delete == Command("DELETE", "Delete", {"category"},
  InPath("string", "key", Text, Required), {})
tenantoptions_get == Command("GET", "Read", {"category"},
  InPath("string", "key", Text, Required), {})
tenantoptions_getforcategory == Command("GET", "Read", {},
  InPath("string", "category", Text, Required), {})
tenantoptions_list == Command("GET", "Read", {}, NoPipe, {})
tenantoptions_update == Command("PUT", "Update", {"category", "value"},
  InPath("string", "key", Text, Required), {})
tenantoptions_updatebulk == Command("PUT", "Update", {"data"},
  InPath("string", "category", Text, Required), {})
tenantoptions_updateedit == Command("PUT", "Update", {"category", "editable"},
  InPath("string", "key", Text, Required), {})

(* c8y tenants *)
tenants_create == Command("POST", "Create", {},
  InBody("override", "domain", Text, Optional), {"company", "domain"})
tenants_delete == Command("DELETE", "Delete", {}, InPath("default", "id", Text, Optional), {})
tenants_disableapplication == Command("DELETE", "Delete", {},
  InPath("entity", "application", Text, Required), {})
tenants_enableapplication == Command("POST", "Create", {},
  InBody("entity", "application.id", Text, Required), {})
tenants_get == Command("GET", "Read", {}, InPath("default", "id", Text, Optional), {})
tenants_list == Command("GET", "Read", {}, NoPipe, {})
tenants_listreferences == Command("GET", "Read", {},
  InPath("default", "tenant", Text, Optional), {})
tenants_update == Command("PUT", "Update", {}, InPath("default", "id", Text, Optional), {})

(* c8y tenantstatistics *)
tenantstatistics_list == Command("GET", "Read", {}, NoPipe, {})
tenantstatistics_listsummaryalltenants == Command("GET", "Read", {}, NoPipe, {})
tenantstatistics_listsummaryfortenant == Command("GET", "Read", {}, NoPipe, {})

(* c8y usergroups *)
usergroups_create == Command("POST", "Create", {}, InBody("override", "name", Text, Optional), {})
usergroups_delete == Command("DELETE", "Delete", {}, InPath("entity", "id", List, Required), {})
usergroups_get == Command("GET", "Read", {}, InPath("entity", "id", List, Optional), {})
usergroups_getbyname == Command("GET", "Read", {}, InPath("string", "name", Text, Optional), {})
usergroups_list == Command("GET", "Read", {}, NoPipe, {})
usergroups_update == Command("PUT", "Update", {}, InPath("entity", "id", List, Required), {})

(* c8y userreferences *)
userreferences_addusertogroup == Command("POST", "Create", {"group"},
  InBody("self", "user.self", List, Required), {"user.self"})
userreferences_deleteuserfromgroup == Command("DELETE", "Delete", {"group"},
  InPath("entity", "user", List, Required), {})
userreferences_listgroupmembership == Command("GET", "Read", {},
  InPath("entity", "id", List, Required), {})

(* c8y userroles *)
userroles_addroletogroup == Command("POST", "Create", {"group"},
  InBody("self", "role.self", List, Required), {})
userroles_addroletouser == Command("POST", "Create", {"user"},
  InBody("self", "role.self", List, Optional), {})
userroles_deleterolefromgroup == Command("DELETE", "Delete", {"group"},
  InPath("entity", "role", List, Required), {})
userroles_deleterolefromuser == Command("DELETE", "Delete", {"user"},
  InPath("entity", "role", List, Required), {})
userroles_getrolereferencecollectionfromgroup == Command("GET", "Read", {},
  InPath("entity", "group", List, Required), {})
userroles_getrolereferencecollectionfromuser == Command("GET", "Read", {},
  InPath("entity", "user", List, Required), {})
userroles_list == Command("GET", "Read", {}, NoPipe, {})

(* c8y users *)
users_create == Command("POST", "Create", {},
  InBody("override", "userName", Text, Optional), {"userName"})
users_delete == Command("DELETE", "Delete", {}, InPath("entity", "id", List, Required), {})
users_get == Command("GET", "Read", {}, InPath("entity", "id", List, Required), {})
users_getinventoryrole == Command("GET", "Read", {}, InPath("ids", "id", List, Required), {})
users_getuserbyname == Command("GET", "Read", {}, InPath("string", "name", Text, Required), {})
users_list == Command("GET", "Read", {}, NoPipe, {})
users_listinventoryroles == Command("GET", "Read", {}, NoPipe, {})
users_listusermembership == Command("GET", "Read", {}, InPath("entity", "id", List, Required), {})
users_resetuserpassword == Command("PUT", "Update", {}, InPath("entity", "id", List, Required), {})
users_update == Command("PUT", "Update", {}, InPath("entity", "id", List, Required), {})
====
